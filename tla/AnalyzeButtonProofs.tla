------------------------ MODULE AnalyzeButtonProofs ------------------------
(***************************************************************************)
(* Proofs about RateLimiter, for any clients, limit, window and clock, and *)
(* about AnalyzeButton, for any tabs, clicks and timeouts: what a user is  *)
(* told is true, and the limiter keeps its bounds behind the browser and   *)
(* the proxy, whatever they give up on.                                    *)
(***************************************************************************)
EXTENDS AnalyzeButton, TLAPS

(* What the limiter keeps of a client is the end of its admissions, in      *)
(* order; what it has dropped lies a window back; no admission is in the    *)
(* future; and it never keeps more than Limit of them.                      *)
Dropped(c) == Len(admitted[c]) - Len(stamps[c])

Remembered(c) ==
    /\ Len(stamps[c]) <= Len(admitted[c])
    /\ \A j \in 1 .. Len(stamps[c]) :
         stamps[c][j] = admitted[c][Dropped(c) + j]
    /\ \A i \in 1 .. Dropped(c) : admitted[c][i] + Window <= clock
    /\ \A i \in 1 .. Len(admitted[c]) : admitted[c][i] <= clock
    /\ Len(stamps[c]) <= Limit

Spaced(c) ==
    \A i \in 1 .. Len(admitted[c]) - Limit :
        admitted[c][i] + Window <= admitted[c][i + Limit]

Caused(c) ==
    refused[c] >= 0 =>
        \E i \in 1 .. Len(admitted[c]) - Limit + 1 :
            /\ admitted[c][i] > refused[c] - Window
            /\ admitted[c][i + Limit - 1] <= refused[c]

LimiterInv ==
    /\ LimiterTypeOK
    /\ \A c \in Clients : Remembered(c) /\ Spaced(c) /\ Caused(c)

-----------------------------------------------------------------------------
(* Dropping a prefix and appending, element by element.                     *)
LEMMA KeptShape ==
    ASSUME NEW S, NEW s \in Seq(S), NEW k \in 0 .. Len(s)
    PROVE  /\ SubSeq(s, k + 1, Len(s)) \in Seq(S)
           /\ Len(SubSeq(s, k + 1, Len(s))) = Len(s) - k
           /\ \A j \in 1 .. Len(s) - k :
                SubSeq(s, k + 1, Len(s))[j] = s[k + j]
  <1>1. Len(s) \in Nat
    OBVIOUS
  <1>2. \A i \in k + 1 .. Len(s) : s[i] \in S
    BY <1>1
  <1> QED
    BY <1>1, <1>2

(* What Append makes of a sequence.                                         *)
LEMMA AppendShape ==
    ASSUME NEW S, NEW s \in Seq(S), NEW x \in S
    PROVE  /\ Append(s, x) \in Seq(S)
           /\ Len(Append(s, x)) = Len(s) + 1
           /\ \A j \in 1 .. Len(s) : Append(s, x)[j] = s[j]
           /\ Append(s, x)[Len(s) + 1] = x
  OBVIOUS

(* The elements of a sequence are in its set.                               *)
LEMMA Elements ==
    ASSUME NEW S, NEW s \in Seq(S)
    PROVE  Len(s) \in Nat /\ \A i \in 1 .. Len(s) : s[i] \in S
  OBVIOUS

(* The last places of a sequence are places of it.                          *)
LEMMA Shifted ==
    ASSUME NEW a \in Nat, NEW b \in Nat, b <= a, NEW j \in 1 .. b
    PROVE  a - b + j \in 1 .. a
  OBVIOUS

(* Times recorded are natural numbers.                                      *)
LEMMA TimesAreNat ==
    ASSUME NEW s \in Seq(0 .. MaxClock)
    PROVE  Len(s) \in Nat /\ \A i \in 1 .. Len(s) : s[i] \in Nat
  <1>1. Len(s) \in Nat /\ \A i \in 1 .. Len(s) : s[i] \in 0 .. MaxClock
    BY Elements
  <1> QED
    BY <1>1

(* The initial table is empty.                                              *)
LEMMA InitInv == LimiterInit => LimiterInv
  BY LimiterAssumption
  DEF LimiterInit, LimiterInv, LimiterTypeOK, Remembered, Dropped, Spaced, Caused

(* A client whose table and history a step leaves alone keeps its part of   *)
(* the invariant as time goes on.                                           *)
LEMMA OtherClient ==
    ASSUME LimiterInv, NEW c \in Clients,
           clock' \in Nat, clock' >= clock,
           stamps'[c] = stamps[c], admitted'[c] = admitted[c],
           refused'[c] = refused[c]
    PROVE  Remembered(c)' /\ Spaced(c)' /\ Caused(c)'
  <1>1. clock \in Nat /\ \A i \in 1 .. Len(admitted[c]) : admitted[c][i] \in Nat
    BY LimiterAssumption DEF LimiterInv, LimiterTypeOK
  <1>2. /\ Len(stamps[c]) \in Nat
        /\ Len(admitted[c]) \in Nat
    BY DEF LimiterInv, LimiterTypeOK
  <1>3. Remembered(c)'
    <2>1. Remembered(c)
      BY DEF LimiterInv
    <2>2. Window \in Nat /\ clock' \in Nat /\ clock <= clock'
      BY LimiterAssumption, <1>1
    <2>3. \A i \in 1 .. Len(admitted[c]) : admitted[c][i] <= clock'
      BY <2>1, <2>2, <1>1 DEF Remembered
    <2>4. \A i \in 1 .. Dropped(c) : admitted[c][i] + Window <= clock'
      <3> SUFFICES ASSUME NEW i \in 1 .. Dropped(c)
                   PROVE  admitted[c][i] + Window <= clock'
        OBVIOUS
      <3>1. admitted[c][i] + Window <= clock /\ i \in 1 .. Len(admitted[c])
        BY <2>1, <1>2 DEF Remembered, Dropped
      <3> QED
        BY <3>1, <2>2, <1>1
    <2> QED
      BY <2>1, <2>3, <2>4 DEF Remembered, Dropped
  <1>4. Spaced(c)' /\ Caused(c)'
    BY DEF LimiterInv, Spaced, Caused
  <1> QED
    BY <1>3, <1>4

(* A request is let through: what is Limit places before it is dropped.     *)
LEMMA AdmitInv ==
    ASSUME LimiterInv, NEW c \in Clients, Admit(c)
    PROVE  LimiterInv'
  <1>1. PICK k \in 0 .. Len(stamps[c]) :
          /\ Expired(c, k)
          /\ Len(stamps[c]) - k < Limit
          /\ stamps' = [stamps EXCEPT ![c] = Append(Kept(c, k), clock)]
          /\ admitted' = [admitted EXCEPT ![c] = Append(@, clock)]
          /\ UNCHANGED <<clock, refused>>
    BY DEF Admit
  <1> DEFINE n == Len(admitted[c])
             m == Len(stamps[c])
             T == 0 .. MaxClock
  <1>2. /\ clock \in T /\ clock' = clock
        /\ stamps \in [Clients -> Seq(T)] /\ admitted \in [Clients -> Seq(T)]
        /\ refused \in [Clients -> -1 .. MaxClock] /\ refused' = refused
        /\ stamps[c] \in Seq(T) /\ admitted[c] \in Seq(T)
        /\ n \in Nat /\ m \in Nat /\ k \in 0 .. m
    BY <1>1 DEF LimiterInv, LimiterTypeOK
  <1>3. /\ Kept(c, k) \in Seq(T)
        /\ Len(Kept(c, k)) = m - k
        /\ \A j \in 1 .. m - k : Kept(c, k)[j] = stamps[c][k + j]
    BY <1>2, KeptShape DEF Kept
  <1>4. /\ stamps'[c] = Append(Kept(c, k), clock)
        /\ stamps'[c] \in Seq(T)
        /\ Len(stamps'[c]) = m - k + 1
        /\ \A j \in 1 .. m - k : stamps'[c][j] = stamps[c][k + j]
        /\ stamps'[c][m - k + 1] = clock
    <2>1. stamps'[c] = Append(Kept(c, k), clock)
      BY <1>1, <1>2
    <2>2. Kept(c, k) \in Seq(T) /\ clock \in T
      BY <1>2, <1>3
    <2> HIDE DEF T
    <2>3. /\ Append(Kept(c, k), clock) \in Seq(T)
          /\ Len(Append(Kept(c, k), clock)) = Len(Kept(c, k)) + 1
          /\ \A j \in 1 .. Len(Kept(c, k)) :
               Append(Kept(c, k), clock)[j] = Kept(c, k)[j]
          /\ Append(Kept(c, k), clock)[Len(Kept(c, k)) + 1] = clock
      BY <2>2, AppendShape
    <2> QED
      BY <2>1, <2>3, <1>3
  <1>5. /\ admitted'[c] \in Seq(T)
        /\ Len(admitted'[c]) = n + 1
        /\ \A i \in 1 .. n : admitted'[c][i] = admitted[c][i]
        /\ admitted'[c][n + 1] = clock
    <2>1. admitted'[c] = Append(admitted[c], clock)
      BY <1>1, <1>2
    <2> QED
      BY <2>1, <1>2, AppendShape
  <1>6. /\ m <= n /\ m - k + 1 <= Limit /\ Limit \in Nat /\ Window \in Nat
        /\ \A j \in 1 .. m : stamps[c][j] = admitted[c][n - m + j]
        /\ \A i \in 1 .. n - m : admitted[c][i] + Window <= clock
        /\ \A i \in 1 .. n : admitted[c][i] <= clock /\ admitted[c][i] \in Nat
        /\ \A j \in 1 .. k : stamps[c][j] + Window <= clock
    <2>1. Remembered(c)
      BY DEF LimiterInv
    <2>2. \A j \in 1 .. k : stamps[c][j] <= clock - Window
      BY <1>1 DEF Expired
    <2>3. \A j \in 1 .. m : stamps[c][j] \in Nat
      BY <1>2, TimesAreNat
    <2>4. \A i \in 1 .. n : admitted[c][i] \in Nat
      BY <1>2, TimesAreNat
    <2>5. /\ clock \in Int /\ Limit \in Nat /\ Window \in Nat
          /\ m - k + 1 <= Limit
      BY <1>1, <1>2, LimiterAssumption
    <2>6. \A j \in 1 .. k : stamps[c][j] + Window <= clock
      <3> SUFFICES ASSUME NEW j \in 1 .. k
                   PROVE  stamps[c][j] + Window <= clock
        OBVIOUS
      <3>1. j \in 1 .. m
        BY <1>2
      <3> QED
        BY <3>1, <2>2, <2>3, <2>5
    <2>7. /\ m <= n
          /\ \A j \in 1 .. m : stamps[c][j] = admitted[c][n - m + j]
          /\ \A i \in 1 .. n - m : admitted[c][i] + Window <= clock
          /\ \A i \in 1 .. n : admitted[c][i] <= clock
      BY <2>1 DEF Remembered, Dropped
    <2> QED
      BY <2>4, <2>5, <2>6, <2>7
  <1>7. \A i \in 1 .. n - (m - k) : admitted[c][i] + Window <= clock
    <2> SUFFICES ASSUME NEW i \in 1 .. n - (m - k)
                 PROVE  admitted[c][i] + Window <= clock
      OBVIOUS
    <2>1. CASE i <= n - m
      BY <2>1, <1>2, <1>6
    <2>2. CASE i > n - m
      <3>1. i - (n - m) \in 1 .. k /\ i - (n - m) \in 1 .. m
        BY <2>2, <1>2, <1>6
      <3>2. stamps[c][i - (n - m)] = admitted[c][i]
        BY <3>1, <1>2, <1>6
      <3> QED
        BY <3>1, <3>2, <1>6
    <2> QED
      BY <2>1, <2>2, <1>2
  <1> HIDE DEF n, m, T
  <1>8. Remembered(c)'
    <2>1. (Len(admitted[c]))' = n + 1 /\ (Len(stamps[c]))' = m - k + 1
      BY <1>4, <1>5
    <2>2. \A j \in 1 .. m - k + 1 :
            stamps'[c][j] = admitted'[c][n - (m - k) + j]
      <3> SUFFICES ASSUME NEW j \in 1 .. m - k + 1
                   PROVE  stamps'[c][j] = admitted'[c][n - (m - k) + j]
        OBVIOUS
      <3>1. CASE j = m - k + 1
        BY <3>1, <1>2, <1>4, <1>5
      <3>2. CASE j \in 1 .. m - k
        <4>1. k + j \in 1 .. m /\ n - m + (k + j) \in 1 .. n
          BY <3>2, <1>2, <1>6
        <4>2. stamps'[c][j] = admitted[c][n - m + (k + j)]
          BY <3>2, <4>1, <1>4, <1>6
        <4>3. n - m + (k + j) = n - (m - k) + j
          BY <1>2
        <4> QED
          BY <4>1, <4>2, <4>3, <1>5
      <3> QED
        BY <3>1, <3>2, <1>2
    <2>3. \A i \in 1 .. n - (m - k) : admitted'[c][i] + Window <= clock
      BY <1>2, <1>5, <1>6, <1>7
    <2>4. \A i \in 1 .. n + 1 : admitted'[c][i] <= clock
      <3> SUFFICES ASSUME NEW i \in 1 .. n + 1
                   PROVE  admitted'[c][i] <= clock
        OBVIOUS
      <3>1. clock \in Int /\ n \in Nat
        BY <1>2 DEF T
      <3>2. CASE i = n + 1
        BY <3>1, <3>2, <1>5
      <3>3. CASE i \in 1 .. n
        BY <3>3, <1>5, <1>6
      <3> QED
        BY <3>1, <3>2, <3>3
    <2>5. n + 1 - (m - k + 1) = n - (m - k) /\ m - k + 1 <= n + 1
      BY <1>2, <1>6
    <2> QED
      BY <2>1, <2>2, <2>3, <2>4, <2>5, <1>2, <1>6 DEF Remembered, Dropped
  <1>9. Spaced(c)'
    <2>a. (Len(admitted[c]))' = n + 1
      BY <1>5
    <2>b. SUFFICES \A i \in 1 .. n + 1 - Limit :
                      admitted'[c][i] + Window <= admitted'[c][i + Limit]
      <3>1. (\A i \in 1 .. Len(admitted[c]) - Limit :
                admitted[c][i] + Window <= admitted[c][i + Limit])'
        BY <2>a, <2>b, <1>6, <1>2
      <3> QED
        BY <3>1 DEF Spaced
    <2> SUFFICES ASSUME NEW i \in 1 .. n + 1 - Limit
                 PROVE  admitted'[c][i] + Window <= admitted'[c][i + Limit]
      OBVIOUS
    <2>0. n \in Nat /\ m \in Nat /\ k \in 0 .. m /\ Limit \in Nat \ {0}
      BY <1>2, LimiterAssumption
    <2>1. i \in 1 .. n /\ i + Limit \in 1 .. n + 1
      BY <2>0
    <2>2. CASE i + Limit = n + 1
      <3>1. i \in 1 .. n - (m - k)
        BY <2>0, <2>2, <1>6
      <3> QED
        BY <3>1, <2>1, <2>2, <1>5, <1>7
    <2>3. CASE i + Limit \in 1 .. n
      <3>1. i \in 1 .. n - Limit
        BY <2>0, <2>3
      <3>2. admitted[c][i] + Window <= admitted[c][i + Limit]
        BY <3>1 DEF LimiterInv, Spaced, n
      <3> QED
        BY <2>1, <2>3, <3>2, <1>5
    <2> QED
      BY <2>0, <2>1, <2>2, <2>3
  <1>10. Caused(c)'
    <2> SUFFICES ASSUME refused[c] >= 0
                 PROVE  \E i \in 1 .. n + 1 - Limit + 1 :
                          /\ admitted'[c][i] > refused[c] - Window
                          /\ admitted'[c][i + Limit - 1] <= refused[c]
      <3>1. refused'[c] = refused[c] /\ (Len(admitted[c]))' = n + 1
        BY <1>2, <1>5
      <3>2. (refused[c] >= 0 =>
              \E i \in 1 .. Len(admitted[c]) - Limit + 1 :
                 /\ admitted[c][i] > refused[c] - Window
                 /\ admitted[c][i + Limit - 1] <= refused[c])'
        BY <3>1, <1>6, <1>2
      <3> QED
        BY <3>2 DEF Caused
    <2>1. PICK i \in 1 .. n - Limit + 1 :
            /\ admitted[c][i] > refused[c] - Window
            /\ admitted[c][i + Limit - 1] <= refused[c]
      BY DEF LimiterInv, Caused, n
    <2>2. /\ i \in 1 .. n /\ i + Limit - 1 \in 1 .. n
          /\ i \in 1 .. n + 1 - Limit + 1
      BY <1>2, <1>6, LimiterAssumption
    <2> QED
      BY <2>1, <2>2, <1>5
  <1>11. ASSUME NEW d \in Clients, d # c
         PROVE  Remembered(d)' /\ Spaced(d)' /\ Caused(d)'
    <2>1. /\ stamps'[d] = stamps[d] /\ admitted'[d] = admitted[d]
          /\ refused'[d] = refused[d] /\ clock' \in Nat /\ clock' >= clock
      BY <1>1, <1>2, <1>11 DEF T
    <2> QED
      BY <2>1, OtherClient
  <1>12. LimiterTypeOK'
    BY <1>1, <1>2, <1>4, <1>5 DEF LimiterTypeOK, T
  <1> QED
    BY <1>8, <1>9, <1>10, <1>11, <1>12 DEF LimiterInv

(* A request is refused: all Limit time stamps kept are of this window.     *)
LEMMA RefuseInv ==
    ASSUME LimiterInv, NEW c \in Clients, Refuse(c)
    PROVE  LimiterInv'
  <1>1. PICK k \in 0 .. Len(stamps[c]) :
          /\ Expired(c, k)
          /\ Len(stamps[c]) - k >= Limit
          /\ stamps' = [stamps EXCEPT ![c] = Kept(c, k)]
          /\ refused' = [refused EXCEPT ![c] = clock]
          /\ UNCHANGED <<clock, admitted>>
    BY DEF Refuse
  <1> DEFINE n == Len(admitted[c])
             T == 0 .. MaxClock
  <1>2. /\ clock \in T /\ clock' = clock
        /\ stamps \in [Clients -> Seq(T)] /\ admitted \in [Clients -> Seq(T)]
        /\ refused \in [Clients -> -1 .. MaxClock] /\ admitted' = admitted
        /\ stamps[c] \in Seq(T) /\ admitted[c] \in Seq(T)
        /\ n \in Nat /\ Len(stamps[c]) \in Nat
        /\ Limit \in Nat \ {0} /\ Window \in Nat
    BY <1>1, LimiterAssumption DEF LimiterInv, LimiterTypeOK
  <1>3. Remembered(c)
    BY DEF LimiterInv
  <1>4. k = 0 /\ Len(stamps[c]) = Limit
    BY <1>1, <1>2, <1>3 DEF Remembered
  <1>5. /\ Kept(c, 0) \in Seq(T)
        /\ Len(Kept(c, 0)) = Len(stamps[c])
        /\ \A j \in 1 .. Len(stamps[c]) : Kept(c, 0)[j] = stamps[c][j]
    <2>1. 0 \in 0 .. Len(stamps[c])
      BY <1>2
    <2>2. /\ Len(stamps[c]) - 0 = Len(stamps[c])
          /\ \A j \in 1 .. Len(stamps[c]) : 0 + j = j
      BY <1>2
    <2> HIDE DEF T
    <2> QED
      BY <2>1, <2>2, <1>2, KeptShape DEF Kept
  <1>6. stamps'[c] = Kept(c, 0) /\ refused'[c] = clock
    BY <1>1, <1>2, <1>4
  <1>7. Remembered(c)'
    BY <1>2, <1>3, <1>5, <1>6 DEF Remembered, Dropped
  <1>8. Spaced(c)'
    BY <1>2 DEF LimiterInv, Spaced
  <1>9. Caused(c)'
    <2>1. stamps[c][1] > clock - Window /\ 1 \in 1 .. Len(stamps[c])
      BY <1>1, <1>2, <1>4 DEF Expired
    <2>2. stamps[c][1] = admitted[c][n - Limit + 1] /\ Limit <= n
      BY <2>1, <1>2, <1>3, <1>4 DEF Remembered, Dropped
    <2>3. /\ n - Limit + 1 \in 1 .. n - Limit + 1
          /\ n - Limit + 1 + Limit - 1 = n /\ n \in 1 .. n
      BY <2>2, <1>2
    <2>4. admitted[c][n] <= clock
      BY <2>3, <1>3 DEF Remembered
    <2> QED
      BY <2>1, <2>2, <2>3, <2>4, <1>2, <1>6 DEF Caused
  <1>10. ASSUME NEW d \in Clients, d # c
         PROVE  Remembered(d)' /\ Spaced(d)' /\ Caused(d)'
    <2>1. /\ stamps'[d] = stamps[d] /\ admitted'[d] = admitted[d]
          /\ refused'[d] = refused[d] /\ clock' \in Nat /\ clock' >= clock
      BY <1>1, <1>2, <1>10
    <2> QED
      BY <2>1, OtherClient
  <1>11. LimiterTypeOK'
    <2>1. /\ stamps' \in [Clients -> Seq(T)]
          /\ refused' \in [Clients -> -1 .. MaxClock]
      BY <1>1, <1>2, <1>4, <1>5
    <2> QED
      BY <2>1, <1>2 DEF LimiterTypeOK
  <1> QED
    BY <1>7, <1>8, <1>9, <1>10, <1>11 DEF LimiterInv

(* Every step of the limiter keeps its invariant.                           *)
LEMMA LimiterStep == LimiterInv /\ [LimiterNext]_limiterVars => LimiterInv'
  <1> SUFFICES ASSUME LimiterInv, [LimiterNext]_limiterVars
               PROVE  LimiterInv'
    OBVIOUS
  <1>1. CASE Tick
    <2>1. clock' \in 0 .. MaxClock /\ clock' \in Nat /\ clock' >= clock
      BY <1>1, LimiterAssumption DEF Tick, LimiterInv, LimiterTypeOK
    <2>2. \A c \in Clients : Remembered(c)' /\ Spaced(c)' /\ Caused(c)'
      <3> SUFFICES ASSUME NEW c \in Clients
                   PROVE  Remembered(c)' /\ Spaced(c)' /\ Caused(c)'
        OBVIOUS
      <3>1. /\ stamps'[c] = stamps[c] /\ admitted'[c] = admitted[c]
            /\ refused'[c] = refused[c]
        BY <1>1 DEF Tick
      <3> QED
        BY <2>1, <3>1, OtherClient
    <2>3. LimiterTypeOK'
      BY <1>1, <2>1 DEF Tick, LimiterInv, LimiterTypeOK
    <2> QED
      BY <2>2, <2>3 DEF LimiterInv
  <1>2. ASSUME NEW c \in Clients, Admit(c) PROVE LimiterInv'
    BY <1>2, AdmitInv
  <1>3. ASSUME NEW c \in Clients, Refuse(c) PROVE LimiterInv'
    BY <1>3, RefuseInv
  <1>4. CASE Restart
    BY <1>4, LimiterAssumption
    DEF Restart, LimiterInv, LimiterTypeOK, Remembered, Dropped, Spaced, Caused
  <1>5. CASE UNCHANGED limiterVars
    BY <1>5 DEF limiterVars, LimiterInv, LimiterTypeOK, Remembered, Dropped,
                Spaced, Caused
  <1> QED
    BY <1>1, <1>2, <1>3, <1>4, <1>5 DEF LimiterNext

-----------------------------------------------------------------------------
(* The limiter's tables and histories are well formed.                      *)
THEOREM LimiterTypeCorrect == LimiterSpec => []LimiterTypeOK
  <1>1. LimiterInv => LimiterTypeOK
    BY DEF LimiterInv
  <1> QED
    BY InitInv, LimiterStep, <1>1, PTL DEF LimiterSpec

(* No client is let through more than Limit times in any window.            *)
THEOREM WindowBounded == LimiterSpec => []WindowBound
  <1>1. LimiterInv => WindowBound
    BY DEF LimiterInv, Spaced, WindowBound
  <1> QED
    BY InitInv, LimiterStep, <1>1, PTL DEF LimiterSpec

(* No client is refused unless Limit admissions lie within the last window. *)
THEOREM RefusalsJustified == LimiterSpec => []RefusedForCause
  <1>1. LimiterInv => RefusedForCause
    BY DEF LimiterInv, Caused, RefusedForCause
  <1> QED
    BY InitInv, LimiterStep, <1>1, PTL DEF LimiterSpec

(* A refused client that waits as it was told finds a free slot.            *)
THEOREM RetryAfterHonest == LimiterSpec => []RetryAfterSuffices
  <1>1. LimiterInv => RetryAfterSuffices
    <2> SUFFICES ASSUME LimiterInv, NEW c \in Clients,
                        refused[c] >= 0, refused[c] + Window <= clock,
                        \A i \in 1 .. Len(admitted[c]) :
                            admitted[c][i] <= refused[c]
                 PROVE  SlotFree(c)
      BY DEF RetryAfterSuffices
    <2>1. /\ clock \in Int /\ refused[c] \in Int
          /\ Len(stamps[c]) \in Nat /\ Len(admitted[c]) \in Nat
          /\ Limit \in Nat \ {0} /\ Window \in Nat
          /\ \A i \in 1 .. Len(admitted[c]) : admitted[c][i] \in Int
      BY LimiterAssumption, TimesAreNat DEF LimiterInv, LimiterTypeOK
    <2>2. Remembered(c)
      BY DEF LimiterInv
    <2>3. \A j \in 1 .. Len(stamps[c]) : stamps[c][j] <= clock - Window
      <3> SUFFICES ASSUME NEW j \in 1 .. Len(stamps[c])
                   PROVE  stamps[c][j] <= clock - Window
        OBVIOUS
      <3>0. Len(stamps[c]) <= Len(admitted[c])
        BY <2>2 DEF Remembered
      <3>1. /\ Dropped(c) + j \in 1 .. Len(admitted[c])
            /\ stamps[c][j] = admitted[c][Dropped(c) + j]
        <4>1. stamps[c][j] = admitted[c][Dropped(c) + j]
          BY <2>2 DEF Remembered
        <4>2. Dropped(c) + j \in 1 .. Len(admitted[c])
          <5>1. Len(stamps[c]) \in Nat /\ Len(admitted[c]) \in Nat
            BY <2>1
          <5> QED
            BY <5>1, <3>0, Shifted DEF Dropped
        <4> QED
          BY <4>1, <4>2
      <3> QED
        BY <3>1, <2>1
    <2>4. Expired(c, Len(stamps[c])) /\ Len(stamps[c]) - Len(stamps[c]) < Limit
      BY <2>1, <2>3 DEF Expired
    <2> QED
      BY <2>1, <2>4 DEF SlotFree
  <1> QED
    BY InitInv, LimiterStep, <1>1, PTL DEF LimiterSpec

-----------------------------------------------------------------------------
(* To the limiter all of this is a client that sends requests.              *)
LEMMA ButtonLimits == ButtonSpec => LimiterSpec
<1>1. ButtonInit => LimiterInit
  BY DEF ButtonInit
<1>2. [ButtonNext]_buttonVars => [LimiterNext]_limiterVars
  BY ButtonAssumption
  DEF ButtonNext, buttonVars, LimiterNext, Click, Reload, Forward,
     ProxyAnswer, ProxyTimeout, BrowserAnswer, BrowserTimeout, Arrive,
     EndAnalysis, PassTime, RestartBackend
<1> QED
  BY <1>1, <1>2, PTL DEF ButtonSpec, LimiterSpec

-----------------------------------------------------------------------------
ProxyStates == {"idle", "asked", "waiting", "201", "429", "500", "502"}
BackendStates == {"idle", "arriving", "running", "refused", "stored", "crashed"}
BrowserStates ==
    {"unused", "waiting", "abandoned", "told_run", "told_refusal", "told_error"}

Post ==
    [tab: Tabs \cup {None}, browser: BrowserStates, proxy: ProxyStates,
     backend: BackendStates, asked: Nat, forwarded: Nat]

PostsTyped ==
    /\ clock \in Nat
    /\ post \in [Clicks -> Post]
    /\ pending \in [Tabs -> Clicks \cup {None}]
    /\ refreshed \subseteq Clicks

(* A hop repeats only what the hop behind it has made final, and nothing    *)
(* arrives at a backend the proxy has not called.                           *)
Repeats(k) ==
    /\ post[k].proxy \in {"idle", "asked"} => post[k].backend = "idle"
    /\ post[k].proxy = "201" => post[k].backend = "stored"
    /\ post[k].proxy = "429" => post[k].backend = "refused"
    /\ k \in refreshed => post[k].backend = "stored"
    /\ post[k].browser = "told_run" => k \in refreshed
    /\ post[k].browser = "told_refusal" => post[k].backend = "refused"
    /\ post[k].browser = "unused" => post[k].proxy = "idle" /\ k \notin refreshed

Waits(t) ==
    pending[t] # None =>
        post[pending[t]].tab = t /\ post[pending[t]].browser = "waiting"

ButtonInv ==
    /\ PostsTyped
    /\ \A k \in Clicks : Repeats(k)
    /\ \A t \in Tabs : Waits(t)

(* Nothing has been pressed: ButtonInv holds.                               *)
LEMMA ButtonInvInit == ButtonInit => ButtonInv
BY ButtonAssumption
   DEF ButtonInit, LimiterInit, ButtonInv, PostsTyped, Post, NoPost, Repeats,
   Waits, ProxyStates, BackendStates, BrowserStates

(* A step at one hop of one click preserves ButtonInv if it keeps that      *)
(* click's own part of it and takes no waiting tab's request away.          *)
LEMMA HopStep ==
    ASSUME ButtonInv, PostsTyped', NEW k \in Clicks, Repeats(k)',
           \A j \in Clicks \ {k} : post'[j] = post[j],
           \A j \in Clicks \ {k} : j \in refreshed' <=> j \in refreshed,
           \A t \in Tabs :
               \/ /\ pending'[t] = pending[t]
                  /\ pending[t] = k =>
                       /\ post'[k].tab = post[k].tab
                       /\ post'[k].browser = post[k].browser
               \/ pending'[t] = None
               \/ /\ pending'[t] = k
                  /\ post'[k].tab = t /\ post'[k].browser = "waiting"
    PROVE  ButtonInv'
<1>1. ASSUME NEW j \in Clicks PROVE Repeats(j)'
  BY DEF ButtonInv, PostsTyped, Repeats
<1>2. ASSUME NEW t \in Tabs PROVE Waits(t)'
  BY DEF ButtonInv, PostsTyped, Waits
<1> QED
  BY <1>1, <1>2 DEF ButtonInv
(* The proxy makes no 201 of anything but a stored run, and no 429 of       *)
(* anything but a refusal; the button tells them apart.                     *)
LEMMA StatusesTrue ==
    ASSUME NEW b, NEW s \in Statuses(b)
    PROVE  /\ s \in {"201", "429", "500", "502"}
           /\ s = "201" => b = "stored"
           /\ s = "429" => b = "refused"
<1>1. CASE b = "stored"
  BY <1>1 DEF Statuses
<1>2. CASE b = "refused"
  BY <1>2 DEF Statuses
<1>3. CASE b = "crashed"
  BY <1>3 DEF Statuses
<1>4. CASE b \notin {"stored", "refused", "crashed"}
  BY <1>4 DEF Statuses
<1> QED
  BY <1>1, <1>2, <1>3, <1>4

(* Hence what is on its way to a user, or has been told, is true.           *)
LEMMA ToldTrue ==
    ASSUME NEW s
    PROVE  /\ Told(s) \in {"told_run", "told_refusal", "told_error"}
           /\ Told(s) = "told_run" => s = "201"
           /\ Told(s) = "told_refusal" => s = "429"
<1>1. CASE s = "201"
  BY <1>1 DEF Told
<1>2. CASE s = "429"
  BY <1>2 DEF Told
<1>3. CASE s \notin {"201", "429"}
  BY <1>3 DEF Told
<1> QED
  BY <1>1, <1>2, <1>3

(* Every hop, timer, reload and restart preserves ButtonInv.                *)
LEMMA ButtonStep ==
    LimiterTypeOK /\ LimiterTypeOK' /\ ButtonInv /\ [ButtonNext]_buttonVars
        => ButtonInv'
<1> SUFFICES ASSUME LimiterTypeOK, LimiterTypeOK', ButtonInv,
                    [ButtonNext]_buttonVars
             PROVE  ButtonInv'
  OBVIOUS
<1>t. PostsTyped /\ clock' \in Nat
  BY LimiterAssumption DEF ButtonInv, LimiterTypeOK
<1>i. /\ \A k \in Clicks : Repeats(k)
      /\ \A t \in Tabs : Waits(t)
  BY DEF ButtonInv
<1> USE DEF PostsTyped, Post, ProxyStates, BackendStates, BrowserStates
<1>1. ASSUME NEW t \in Tabs, NEW k \in Clicks, Click(t, k) PROVE ButtonInv'
  <2>1. PostsTyped'
    BY <1>1, <1>t DEF Click, NoPost
  <2>u. post[k].browser = "unused"
    <3>1. k \in Nat /\ k >= k
      BY ButtonAssumption
    <3> QED
      BY <1>1, <3>1 DEF Click
  <2>2. Repeats(k)'
    BY <1>1, <1>t, <1>i, <2>u DEF Click, NoPost, Repeats
  <2>3. pending' = [pending EXCEPT ![t] = k] /\ post'[k].tab = t
        /\ post'[k].browser = "waiting"
    BY <1>1, <1>t DEF Click, NoPost
  <2>4. \A v \in Tabs : pending[v] # k \/ pending[v] = None
    BY <1>t, <1>i, <2>u DEF Waits
  <2> QED
    BY <1>1, <1>t, <2>1, <2>2, <2>3, <2>4, HopStep DEF Click
<1>2. ASSUME NEW t \in Tabs, Reload(t) PROVE ButtonInv'
  <2> PICK k \in Clicks : k = pending[t]
    BY <1>2, <1>t DEF Reload
  <2>1. PostsTyped'
    BY <1>2, <1>t, ZenonT(60) DEF Reload
  <2>2. Repeats(k)'
    BY <1>2, <1>t, <1>i DEF Reload, Repeats, Waits
  <2>3. \A v \in Tabs : v # t => pending[v] # k \/ pending[v] = None
    BY <1>2, <1>t, <1>i DEF Reload, Waits
  <2> QED
    BY <1>2, <1>t, <2>1, <2>2, <2>3, HopStep DEF Reload
<1>3. ASSUME NEW k \in Clicks, Forward(k) PROVE ButtonInv'
  <2>1. PostsTyped'
    BY <1>3, <1>t, ZenonT(60) DEF Forward
  <2>2. Repeats(k)'
    BY <1>3, <1>t, <1>i DEF Forward, Repeats
  <2> QED
    BY <1>3, <1>t, <2>1, <2>2, HopStep DEF Forward
<1>4. ASSUME NEW k \in Clicks, ProxyAnswer(k) \/ ProxyTimeout(k) PROVE ButtonInv'
  <2>s. \A s \in Statuses(post[k].backend) :
          /\ s \in {"201", "429", "500", "502"}
          /\ s = "201" => post[k].backend = "stored"
          /\ s = "429" => post[k].backend = "refused"
    BY StatusesTrue
  <2> PICK s \in {"201", "429", "500", "502"} :
        /\ post' = [post EXCEPT ![k] = [@ EXCEPT !.proxy = s, !.forwarded = 0]]
        /\ s = "201" => post[k].backend = "stored"
        /\ s = "429" => post[k].backend = "refused"
        /\ UNCHANGED <<clock, pending, refreshed>>
    BY <1>4, <2>s DEF ProxyAnswer, ProxyTimeout, limiterVars
  <2>p. post[k].proxy = "waiting"
    BY <1>4 DEF ProxyAnswer, ProxyTimeout
  <2>1. PostsTyped'
    BY <1>t, ZenonT(60)
  <2>2. Repeats(k)'
    BY <1>t, <1>i, <2>p DEF Repeats
  <2> QED
    BY <1>t, <2>1, <2>2, HopStep
<1>5. ASSUME NEW k \in Clicks, BrowserAnswer(k) PROVE ButtonInv'
  <2>1. PostsTyped'
    BY <1>5, <1>t, ToldTrue, ZenonT(60) DEF BrowserAnswer
  <2>2. Repeats(k)'
    BY <1>5, <1>t, <1>i, ToldTrue DEF BrowserAnswer, Repeats
  <2> QED
    BY <1>5, <1>t, <1>i, <2>1, <2>2, HopStep DEF BrowserAnswer, Waits
<1>6. ASSUME NEW k \in Clicks, BrowserTimeout(k) PROVE ButtonInv'
  <2>1. PostsTyped'
    BY <1>6, <1>t, ZenonT(60) DEF BrowserTimeout
  <2>2. Repeats(k)'
    BY <1>6, <1>t, <1>i DEF BrowserTimeout, Repeats
  <2> QED
    BY <1>6, <1>t, <1>i, <2>1, <2>2, HopStep DEF BrowserTimeout, Waits
<1>7. ASSUME NEW k \in Clicks, Arrive(k) \/ EndAnalysis(k) PROVE ButtonInv'
  <2> PICK b \in {"running", "refused", "stored", "crashed"} :
        /\ post' = [post EXCEPT ![k].backend = b]
        /\ UNCHANGED <<pending, refreshed>>
    BY <1>7 DEF Arrive, EndAnalysis, Goto
  <2>b. post[k].backend \in {"arriving", "running"}
    BY <1>7 DEF Arrive, EndAnalysis, At
  <2>1. PostsTyped'
    BY <1>t
  <2>2. Repeats(k)'
    BY <1>t, <1>i, <2>b DEF Repeats
  <2> QED
    BY <1>t, <2>1, <2>2, HopStep
<1>8. CASE PassTime
  BY <1>8, <1>t, <1>i DEF PassTime, ButtonInv, Repeats, Waits
<1>9. CASE RestartBackend
  <2>1. PostsTyped'
    BY <1>9, <1>t DEF RestartBackend
  <2>2. \A k \in Clicks :
          /\ post'[k].tab = post[k].tab
          /\ post'[k].browser = post[k].browser
          /\ post'[k].proxy = post[k].proxy
          /\ \/ post'[k].backend = post[k].backend
             \/ post[k].backend \in {"arriving", "running"}
    BY <1>9, <1>t DEF RestartBackend
  <2>3. ASSUME NEW k \in Clicks PROVE Repeats(k)'
    BY <1>9, <1>i, <2>2 DEF RestartBackend, Repeats
  <2>4. ASSUME NEW t \in Tabs PROVE Waits(t)'
    BY <1>9, <1>t, <1>i, <2>2 DEF RestartBackend, Waits
  <2> QED
    BY <2>1, <2>3, <2>4 DEF ButtonInv
<1>10. CASE UNCHANGED buttonVars
  BY <1>10, <1>t, <1>i DEF buttonVars, ButtonInv, Repeats, Waits
<1> QED
  BY <1>1, <1>2, <1>3, <1>4, <1>5, <1>6, <1>7, <1>8, <1>9, <1>10 DEF ButtonNext

(* ButtonInv is an invariant.                                               *)
LEMMA ButtonInvariant == ButtonSpec => [](LimiterTypeOK /\ ButtonInv)
<1>1. ButtonSpec => []LimiterTypeOK
  BY ButtonLimits, LimiterTypeCorrect, PTL
<1> QED
  BY <1>1, ButtonInvInit, ButtonStep, PTL DEF ButtonSpec

(* Types, and a button that waits has a request of its own to wait for.     *)
THEOREM ButtonTypeCorrect == ButtonSpec => []ButtonTypeOK
<1>1. LimiterTypeOK /\ ButtonInv => ButtonTypeOK
  BY DEF ButtonInv, PostsTyped, Waits, ButtonTypeOK
<1> QED
  BY <1>1, ButtonInvariant, PTL

(* Whatever times out, reloads or restarts on the way, a user who is told   *)
(* of a run has one, and one who is told of a refusal has none and will not.*)
THEOREM UsersToldTruth == ButtonSpec => []ToldTruth
<1>1. ButtonInv => ToldTruth
  BY DEF ButtonInv, Repeats, ToldTruth
<1> QED
  BY <1>1, ButtonInvariant, PTL

(* Behind browser and proxy, too, no window holds more analyses than the    *)
(* limit.                                                                   *)
THEOREM ButtonWindowBounded == ButtonSpec => []WindowBound
BY ButtonLimits, WindowBounded, PTL
=============================================================================
