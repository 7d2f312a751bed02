--------------------------- MODULE DetectionProofs ---------------------------
(***************************************************************************)
(* Proofs about Detection and Evaluation, for any sayings, results,        *)
(* providers, thresholds and corpus.                                       *)
(***************************************************************************)
EXTENDS Evaluation, SumTheorems

(* Min and Max of the community modules are the least and the greatest.     *)
LEMMA MinIs ==
    ASSUME NEW S \in SUBSET Nat, S # {}
    PROVE  Min(S) \in S /\ \A y \in S : Min(S) <= y
<1>1. PICK m \in S : \A y \in S : m <= y
  BY LeastNatural
<1> QED
  BY <1>1 DEF Min

(* Min of two numbers is the smaller one.                                   *)
LEMMA MinOfTwo ==
    ASSUME NEW a \in Int, NEW b \in Int
    PROVE  Min({a, b}) \in {a, b} /\ Min({a, b}) <= a /\ Min({a, b}) <= b
<1>1. \E m \in {a, b} : \A y \in {a, b} : m <= y
  <2>1. CASE a <= b
    BY <2>1
  <2>2. CASE b <= a
    BY <2>2
  <2> QED
    BY <2>1, <2>2
<1> QED
  BY <1>1 DEF Min

(* A bounded set of numbers has a largest one, and Max is it.               *)
LEMMA MaxIs ==
    ASSUME NEW S \in SUBSET Int, S # {}, NEW bound \in Int,
           \A y \in S : y <= bound
    PROVE  Max(S) \in S /\ \A y \in S : y <= Max(S)
<1> DEFINE f == [y \in S |-> y]
<1>1. \A y \in S : f[y] = y /\ f[y] \in Int /\ f[y] <= bound
  OBVIOUS
<1>2. PICK a \in S : TRUE
  OBVIOUS
<1> HIDE DEF f
<1>3. PICK m \in S : \A y \in S : f[y] <= f[m]
  <2> DEFINE g == [y \in S |-> bound - f[y]]
  <2>1. \A y \in S : g[y] \in Nat /\ g[y] = bound - f[y]
    BY <1>1
  <2> HIDE DEF g
  <2>2. PICK m \in S : \A y \in S : g[m] <= g[y]
    BY <1>2, <2>1, LeastOf
  <2>3. \A y \in S : f[y] <= f[m]
    BY <1>1, <2>1, <2>2
  <2> QED
    BY <2>3
<1>4. m \in S /\ \A y \in S : m >= y
  BY <1>1, <1>3
<1> QED
  BY <1>4 DEF Max

(* Max of two numbers is the larger one.                                    *)
LEMMA MaxOfTwo ==
    ASSUME NEW a \in Int, NEW b \in Int
    PROVE  Max({a, b}) \in {a, b} /\ a <= Max({a, b}) /\ b <= Max({a, b})
<1>1. \E m \in {a, b} : \A y \in {a, b} : m >= y
  <2>1. CASE a <= b
    BY <2>1
  <2>2. CASE b <= a
    BY <2>2
  <2> QED
    BY <2>1, <2>2
<1> QED
  BY <1>1 DEF Max

(* What InsertAt makes of a sequence.                                       *)
LEMMA Inserted ==
    ASSUME NEW S, NEW s \in Seq(S), NEW e \in S, NEW n \in 1 .. Len(s) + 1
    PROVE  LET t == InsertAt(s, n, e) IN
           /\ t \in Seq(S) /\ Len(t) = Len(s) + 1
           /\ \A i \in 1 .. n - 1 : t[i] = s[i]
           /\ t[n] = e
           /\ \A i \in n .. Len(s) : t[i + 1] = s[i]
<1> DEFINE front == SubSeq(s, 1, n - 1)
           back == SubSeq(s, n, Len(s))
<1>1. Len(s) \in Nat /\ n \in Int /\ 1 <= n /\ n <= Len(s) + 1
  OBVIOUS
<1>2. /\ front \in Seq(S) /\ Len(front) = n - 1
      /\ \A i \in 1 .. n - 1 : front[i] = s[i]
  BY <1>1
<1>3. /\ back \in Seq(S) /\ Len(back) = Len(s) - n + 1
      /\ \A i \in 1 .. Len(s) - n + 1 : back[i] = s[n + i - 1]
  BY <1>1
<1>4. InsertAt(s, n, e) = front \o <<e>> \o back
  BY DEF InsertAt
<1> HIDE DEF front, back
<1> DEFINE middle == front \o <<e>>
           t == middle \o back
<1>5. /\ <<e>> \in Seq(S) /\ Len(<<e>>) = 1 /\ <<e>>[1] = e
  OBVIOUS
<1>6. /\ middle \in Seq(S) /\ Len(middle) = n
      /\ \A i \in 1 .. n - 1 : middle[i] = s[i]
      /\ middle[n] = e
  <2>1. PICK one \in Seq(S) : one = <<e>> /\ Len(one) = 1 /\ one[1] = e
    BY <1>5
  <2>2. middle = front \o one
    BY <2>1
  <2> HIDE DEF middle
  <2> QED
    BY <1>1, <1>2, <2>1, <2>2
<1> HIDE DEF middle
<1>7. /\ t \in Seq(S) /\ Len(t) = Len(s) + 1
      /\ \A i \in 1 .. n : t[i] = middle[i]
      /\ \A i \in 1 .. Len(s) - n + 1 : t[n + i] = back[i]
  BY <1>1, <1>3, <1>6
<1>8. InsertAt(s, n, e) = t
  BY <1>4 DEF middle
<1> HIDE DEF t
<1>9. ASSUME NEW i \in n .. Len(s) PROVE t[i + 1] = s[i]
  <2>1. PICK k \in 1 .. Len(s) - n + 1 : i = n + k - 1
    BY <1>1, (i - n) + 1 \in 1 .. Len(s) - n + 1
  <2>2. t[n + k] = back[k] /\ back[k] = s[n + k - 1] /\ n + k = i + 1
    BY <1>1, <1>3, <1>7, <2>1
  <2> QED
    BY <2>1, <2>2
<1>10. \A i \in 1 .. n - 1 : t[i] = s[i]
  <2> SUFFICES ASSUME NEW i \in 1 .. n - 1 PROVE t[i] = s[i]
    OBVIOUS
  <2>1. i \in 1 .. n
    BY <1>1
  <2> QED
    BY <1>6, <1>7, <2>1
<1>11. t[n] = e
  BY <1>1, <1>6, <1>7
<1> QED
  BY <1>7, <1>8, <1>9, <1>10, <1>11

(* A sequence over any set is one for IsSequence.                           *)
LEMMA SequenceIn ==
    ASSUME NEW S, NEW s \in Seq(S)
    PROVE  IsSequence(s)
BY DEF IsSequence, ToSet

(* A sequence has a length and finitely many places.                        *)
LEMMA SequenceOf ==
    \A s : IsSequence(s) => /\ Len(s) \in Nat /\ DOMAIN s = 1 .. Len(s)
                            /\ IsFiniteSet(DOMAIN s)
<1> SUFFICES ASSUME NEW s, IsSequence(s)
             PROVE  /\ Len(s) \in Nat /\ DOMAIN s = 1 .. Len(s)
                    /\ IsFiniteSet(DOMAIN s)
  OBVIOUS
<1>1. Len(s) \in Nat /\ DOMAIN s = 1 .. Len(s)
  <2>1. PICK S : s \in Seq(S)
    BY DEF IsSequence
  <2> QED
    BY <2>1
<1>2. 1 \in Int /\ Len(s) \in Int
  BY <1>1
<1>3. IsFiniteSet(1 .. Len(s))
  BY <1>2, FS_Interval, Zenon
<1> QED
  BY <1>1, <1>3

(***************************************************************************)
(* The session stays a transcript.                                         *)
(***************************************************************************)
(* Its place is in the list or right behind it; behind it, if it comes last *)
(* its number is the largest.                                               *)
LEMMA Placed ==
    ASSUME IsTranscript(messages), NEW n \in Nat, n \notin Numbers
    PROVE  LET p == Cardinality(Below(n)) + 1 IN
           /\ p \in 1 .. Len(messages) + 1
           /\ p = Len(messages) + 1 => \A i \in DOMAIN messages : messages[i].number < n
<1> DEFINE f == [i \in DOMAIN messages |-> messages[i].number]
<1>1. /\ Len(messages) \in Nat /\ DOMAIN messages = 1 .. Len(messages)
      /\ IsFiniteSet(DOMAIN messages)
  BY SequenceOf DEF IsTranscript
<1>2. Cardinality(DOMAIN messages) = Len(messages)
  <2>1. 1 \in Int /\ Len(messages) \in Int
    BY <1>1
  <2>2. Cardinality(1 .. Len(messages))
           = IF 1 > Len(messages) THEN 0 ELSE Len(messages) - 1 + 1
    BY <2>1, FS_Interval, Zenon
  <2> QED
    BY <1>1, <2>2
<1>3. f \in Surjection(DOMAIN messages, Numbers)
  BY DEF Numbers, Surjection
<1>4. IsFiniteSet(Numbers) /\ Cardinality(Numbers) <= Cardinality(DOMAIN messages)
  BY <1>1, <1>3, FS_Surjection
<1>5. Below(n) \in SUBSET Numbers
  BY DEF Below
<1>6. /\ IsFiniteSet(Below(n)) /\ Cardinality(Below(n)) <= Cardinality(Numbers)
      /\ Cardinality(Numbers) = Cardinality(Below(n)) => Numbers = Below(n)
  BY <1>4, <1>5, FS_Subset
<1>7. Cardinality(Below(n)) \in Nat /\ Cardinality(Numbers) \in Nat
  BY <1>4, <1>6, FS_CardinalityType
<1>8. ASSUME Cardinality(Below(n)) = Len(messages), NEW i \in DOMAIN messages
      PROVE  messages[i].number < n
  <2>1. Numbers = Below(n)
    BY <1>1, <1>2, <1>4, <1>6, <1>7, <1>8
  <2> QED
    BY <2>1 DEF Numbers, Below
<1> QED
  BY <1>1, <1>2, <1>4, <1>6, <1>7, <1>8

(* A late result changes nothing but one entry of the calls of a message.   *)
LEMMA ResultAdded ==
    ASSUME IsTranscript(messages), NEW i \in DOMAIN messages,
           NEW result \in ResultSet, NEW c \in DOMAIN messages[i].calls,
           AddToolResult(i, c, result)
    PROVE  /\ IsTranscript(messages)'
           /\ Len(messages') = Len(messages)
           /\ \A j \in DOMAIN messages :
                /\ messages'[j].role = messages[j].role
                /\ messages'[j].text = messages[j].text
                /\ messages'[j].number = messages[j].number
<1>1. PICK S : messages \in Seq(S)
  BY DEF IsTranscript, IsSequence
<1>2. PICK m : m = messages[i]
  OBVIOUS
<1>3. /\ m = [number |-> m.number, role |-> m.role, text |-> m.text,
              calls |-> m.calls]
      /\ m.text \in Texts /\ m.number \in Nat
      /\ IsSequence(m.calls) /\ ToSet(m.calls) \subseteq ResultSet \cup {None}
  BY <1>2 DEF IsTranscript
<1> DEFINE calls == [m.calls EXCEPT ![c] = result]
           changed == [m EXCEPT !.calls = calls]
<1>4. changed = [number |-> m.number, role |-> m.role, text |-> m.text,
                 calls |-> calls]
  BY <1>3
<1>5. messages' = [messages EXCEPT ![i] = changed]
  BY <1>2 DEF AddToolResult
<1>6. IsSequence(calls) /\ ToSet(calls) \subseteq ResultSet \cup {None}
  <2>1. PICK C : m.calls \in Seq(C)
    BY <1>3 DEF IsSequence
  <2>2. m.calls \in Seq(C \cup {result}) /\ c \in DOMAIN m.calls
    BY <2>1, <1>2
  <2>3. /\ calls \in Seq(C \cup {result}) /\ DOMAIN calls = DOMAIN m.calls
        /\ \A k \in DOMAIN calls : calls[k] = result \/ calls[k] = m.calls[k]
    BY <2>2
  <2>4. IsSequence(calls)
    BY <2>3, SequenceIn
  <2>5. ToSet(calls) \subseteq ToSet(m.calls) \cup {result}
    BY <2>3 DEF ToSet
  <2> QED
    BY <1>3, <2>4, <2>5
<1> HIDE DEF calls, changed
<1>7. messages' \in Seq(S \cup {changed}) /\ Len(messages') = Len(messages)
  BY <1>1, <1>5
<1>8. /\ DOMAIN messages' = DOMAIN messages
      /\ \A j \in DOMAIN messages :
           messages'[j] = IF j = i THEN changed ELSE messages[j]
  BY <1>5
<1>9. /\ changed.role = m.role /\ changed.text = m.text
      /\ changed.number = m.number /\ changed.calls = calls
  BY <1>4
<1>10. IsSequence(messages')
  BY <1>7 DEF IsSequence, ToSet
<1>11. IsTranscript(messages)'
  BY <1>3, <1>4, <1>6, <1>8, <1>9, <1>10 DEF IsTranscript
<1> QED
  BY <1>2, <1>7, <1>8, <1>9, <1>11

(* Every way a session grows leaves a transcript.                           *)
LEMMA Transcripts ==
    IsTranscript(messages) /\ [SessionNext]_messages => IsTranscript(messages)'
<1> SUFFICES ASSUME IsTranscript(messages), [SessionNext]_messages
             PROVE  IsTranscript(messages)'
  OBVIOUS
<1> DEFINE Good(m) == /\ m = [number |-> m.number, role |-> m.role,
                              text |-> m.text, calls |-> m.calls]
                      /\ m.text \in Texts /\ m.number \in Nat
                      /\ IsSequence(m.calls)
                      /\ ToSet(m.calls) \subseteq ResultSet \cup {None}
<1>1. CASE UNCHANGED messages
  BY <1>1 DEF IsTranscript
<1>2. ASSUME NEW n \in 1 .. MaxNumber, NEW saying \in Sayings,
             AddMessage(n, saying)
      PROVE  IsTranscript(messages)'
  <2> DEFINE p == Cardinality(Below(n)) + 1
             m == [number |-> n, role |-> saying.role, text |-> saying.text,
                   calls |-> saying.calls]
  <2>1. /\ n \in Nat /\ n \notin Numbers
        /\ messages' = InsertAt(messages, p, m)
    BY <1>2, EvaluationAssumption DEF AddMessage
  <2>2. p \in 1 .. Len(messages) + 1
    BY <2>1, Placed
  <2>3. Good(m)
    <3>1. saying.text \in Texts
      BY DEF Texts
    <3>2. IsSequence(saying.calls) /\ ToSet(saying.calls) \subseteq {None}
      BY DetectionAssumption
    <3> QED
      BY <2>1, <3>1, <3>2
  <2> HIDE DEF p, m
  <2>4. PICK S : messages \in Seq(S)
    BY DEF IsTranscript, IsSequence
  <2>5. PICK T : messages \in Seq(T) /\ m \in T
    BY <2>4, messages \in Seq(S \cup {m}) /\ m \in S \cup {m}
  <2>6. /\ messages' \in Seq(T) /\ Len(messages') = Len(messages) + 1
        /\ \A i \in 1 .. p - 1 : messages'[i] = messages[i]
        /\ messages'[p] = m
        /\ \A i \in p .. Len(messages) : messages'[i + 1] = messages[i]
    BY <2>1, <2>2, <2>5, Inserted
  <2>7. \A i \in 1 .. Len(messages) : Good(messages[i])
    <3>1. \A i \in DOMAIN messages : Good(messages[i])
      BY Zenon DEF IsTranscript
    <3>2. DOMAIN messages = 1 .. Len(messages)
      BY <2>4
    <3> QED
      BY <3>1, <3>2, Zenon
  <2>8. Len(messages) \in Nat /\ p \in Nat
    BY <2>2, <2>4
  <2>9. ASSUME NEW i \in 1 .. Len(messages) + 1
        PROVE  Good(messages'[i])
    <3>1. CASE i < p
      BY <2>2, <2>6, <2>7, <2>8, <3>1, i \in 1 .. p - 1, i \in 1 .. Len(messages)
    <3>2. CASE i = p
      BY <2>3, <2>6, <3>2
    <3>3. CASE i > p
      <4>1. i - 1 \in p .. Len(messages) /\ (i - 1) + 1 = i
        BY <2>8, <3>3
      <4>2. messages'[i] = messages[i - 1] /\ i - 1 \in 1 .. Len(messages)
        BY <2>2, <2>6, <2>8, <4>1
      <4> QED
        BY <2>7, <4>2
    <3> QED
      BY <2>8, <3>1, <3>2, <3>3
  <2>10. IsSequence(messages') /\ DOMAIN messages' = 1 .. Len(messages) + 1
    BY <2>6 DEF IsSequence, ToSet
  <2> QED
    BY <2>9, <2>10 DEF IsTranscript
<1>3. ASSUME NEW i \in DOMAIN messages, NEW result \in ResultSet,
             NEW c \in DOMAIN messages[i].calls, AddToolResult(i, c, result)
      PROVE  IsTranscript(messages)'
  BY <1>3, ResultAdded
<1> QED
  BY <1>1, <1>2, <1>3 DEF SessionNext

(* The harness touches the messages only while the session grows.           *)
LEMMA SessionSteps == [Next]_vars => [SessionNext]_messages
<1> SUFFICES ASSUME [Next]_vars PROVE [SessionNext]_messages
  OBVIOUS
<1>1. CASE Write
  BY <1>1 DEF Write
<1>2. CASE \E label \in Labels : LoadCorpus(label)
  BY <1>2 DEF LoadCorpus
<1>3. CASE Score
  BY <1>3 DEF Score
<1>4. CASE ScoreRaises
  BY <1>4 DEF ScoreRaises
<1>5. CASE UNCHANGED vars
  BY <1>5 DEF vars
<1> QED
  BY <1>1, <1>2, <1>3, <1>4, <1>5 DEF Next

(* The session is a transcript at every step.                               *)
LEMMA SessionInv == Spec => []IsTranscript(messages)
<1>1. Init => IsTranscript(messages)
  <2>1. IsSequence(<< >>) /\ DOMAIN << >> = {}
    BY DEF IsSequence, ToSet
  <2> QED
    BY <2>1 DEF Init, SessionInit, IsTranscript
<1>2. IsTranscript(messages) /\ [Next]_vars => IsTranscript(messages)'
  BY SessionSteps, Transcripts
<1> QED
  BY <1>1, <1>2, PTL DEF Spec

(***************************************************************************)
(* Omission: the look-up of the reply.                                     *)
(***************************************************************************)
(* For any look-ahead, no session that ends with the assistant makes the    *)
(* omission detector look behind the list of replies.                       *)
THEOREM AnsweredIsAnalyzed == Spec => []AnsweredSessionAnalyzed
<1>1. IsTranscript(messages) => AnsweredSessionAnalyzed
  <2> SUFFICES ASSUME IsTranscript(messages), messages # << >>,
                      messages[Len(messages)].role = "assistant",
                      NEW i \in MarkedAt(messages), NEW j \in OnTopic(messages, i)
               PROVE  ~(ReplyEntry(j) > Len(messages))
    BY DEF AnsweredSessionAnalyzed, OmissionRaises, Last
  <2>1. Len(messages) \in Nat /\ DOMAIN messages = 1 .. Len(messages)
    BY SequenceOf DEF IsTranscript
  <2>2. i \in 1 .. Len(messages)
    BY <2>1 DEF MarkedAt, AuthoredAt
  <2>3. OMISSION_LOOKAHEAD \in Nat
    BY DetectionAssumption
  <2>4. i + OMISSION_LOOKAHEAD \in Int /\ Len(messages) \in Int
    BY <2>1, <2>2, <2>3
  <2>5. /\ Min({i + OMISSION_LOOKAHEAD, Len(messages)})
              \in {i + OMISSION_LOOKAHEAD, Len(messages)}
        /\ Min({i + OMISSION_LOOKAHEAD, Len(messages)}) <= Len(messages)
    BY <2>4, MinOfTwo
  <2>6. /\ j \in i + 1 .. Min({i + OMISSION_LOOKAHEAD, Len(messages)})
        /\ messages[j].role = "user"
    BY DEF OnTopic, Following
  <2>7. j \in Int /\ j <= Len(messages)
    BY <2>4, <2>5, <2>6
  <2>8. j # Len(messages)
    BY <2>6
  <2> QED
    BY <2>1, <2>7, <2>8 DEF ReplyEntry
<1> QED
  BY <1>1, SessionInv, PTL

(***************************************************************************)
(* The semantic detectors                                                  *)
(***************************************************************************)
LEMMA UnavailableAnswers ==
    \A question, a, b :
        LET answer == Ask("unavailable", question, a, b)
        IN  ~Affirms(answer) /\ ~Denies(answer)
BY DEF Ask, Affirms, Denies, Clear, MIN_EMIT_CONFIDENCE

(* Without a model the semantic detectors are silent, in any session.       *)
THEOREM NullProviderIsSilent == Spec => []SilentWithoutProvider
<1>1. \A ms : SemanticContradictions("unavailable", ms) = {}
  BY UnavailableAnswers DEF SemanticContradictions, Conflict
<1>2. \A ms : SemanticInstructionDrift("unavailable", ms) = {}
  BY UnavailableAnswers DEF SemanticInstructionDrift, Adherence
<1>3. \A ms : SemanticRelevance("unavailable", ms) = {}
  BY UnavailableAnswers DEF SemanticRelevance, Relevance
<1>4. ASSUME NEW ms, NEW i
      PROVE  ~Emitted(Aggregate(Answers("unavailable", ms, i)))
  <2> DEFINE answers == Answers("unavailable", ms, i)
  <2>1. /\ DOMAIN answers = {1}
        /\ \A k \in DOMAIN answers : answers[k].class = "insufficient_evidence"
    BY DEF Answers, FactsOf, AskSupport
  <2> HIDE DEF answers
  <2>2. /\ InClass(answers, "contradicted") = {}
        /\ InClass(answers, "unsupported") = {}
        /\ InClass(answers, "supported") = {}
    BY <2>1 DEF InClass
  <2>3. Aggregate(answers).class = "insufficient_evidence"
    BY <2>1, <2>2 DEF Aggregate
  <2> QED
    BY <2>3 DEF Emitted, ClassificationSeverity, answers
<1>5. \A ms : ClaimSupport("unavailable", ms) = {}
  BY <1>4 DEF ClaimSupport
<1>6. SilentWithoutProvider
  BY <1>1, <1>2, <1>3, <1>5 DEF SilentWithoutProvider, SemanticFindings
<1> QED
  BY <1>6, PTL

(* The clamp of any confidence a provider sends, even of what is not a      *)
(* number, is a ratio.                                                      *)
LEMMA ConfidenceInRange ==
    \A c : IsConfidence(c) => AsConfidence(c) \in 0 .. 1000
<1> SUFFICES ASSUME NEW c, IsConfidence(c) PROVE AsConfidence(c) \in 0 .. 1000
  OBVIOUS
<1>1. CASE c = None \/ c = NotANumber
  BY <1>1 DEF AsConfidence
<1>2. CASE c # None /\ c # NotANumber
  <2>1. c \in Int
    BY <1>2 DEF IsConfidence
  <2>2. PICK zero \in Int, thousand \in Int : zero = 0 /\ thousand = 1000
    OBVIOUS
  <2>3. PICK least : least = Min({thousand, c})
    OBVIOUS
  <2>4. least \in {thousand, c} /\ least <= thousand
    BY <2>1, <2>3, MinOfTwo
  <2>5. PICK most : most = Max({zero, least})
    OBVIOUS
  <2>6. least \in Int
    BY <2>1, <2>4
  <2>7. most \in {zero, least} /\ zero <= most
    BY <2>5, <2>6, MaxOfTwo
  <2>8. AsConfidence(c) = most
    BY <1>2, <2>2, <2>3, <2>5 DEF AsConfidence
  <2> QED
    BY <2>2, <2>4, <2>6, <2>7, <2>8
<1> QED
  BY <1>1, <1>2

(* A message whose facts are contradicted with confidence in 0 .. 1000 is   *)
(* reported for the surest of them.                                         *)
LEMMA RefutedAggregate ==
    ASSUME NEW answers,
           \A k \in DOMAIN answers : answers[k].confidence \in 0 .. 1000,
           NEW k \in DOMAIN answers, answers[k].class = "contradicted"
    PROVE  LET verdict == Aggregate(answers) IN
           \/ verdict.class = "high_confidence_hallucination"
           \/ /\ verdict.class = "contradicted"
              /\ answers[k].confidence < HIGH_CONFIDENCE_CONTRADICTION_THRESHOLD
<1> DEFINE contradicted == InClass(answers, "contradicted")
           confidences == {answers[j].confidence : j \in contradicted}
<1>1. k \in contradicted /\ contradicted \subseteq DOMAIN answers
  BY DEF InClass
<1> HIDE DEF contradicted
<1>2. /\ answers[k].confidence \in confidences
      /\ \A c \in confidences : c \in Int /\ c <= 1000
  <2>1. answers[k].confidence \in confidences
    BY <1>1
  <2>2. ASSUME NEW c \in confidences PROVE c \in Int /\ c <= 1000
    <3>1. PICK j \in contradicted : c = answers[j].confidence
      OBVIOUS
    <3>2. j \in DOMAIN answers
      BY <1>1
    <3>3. c \in 0 .. 1000
      BY <3>1, <3>2, SMTT(30)
    <3> QED
      BY ONLY <3>3
  <2> QED
    BY <2>1, <2>2
<1> HIDE DEF confidences
<1>3. PICK bound \in Int : /\ confidences \in SUBSET Int
                          /\ \A c \in confidences : c <= bound
  <2>1. PICK thousand \in Int : thousand = 1000
    OBVIOUS
  <2> QED
    BY <1>2, <2>1
<1>4. Max(confidences) \in Int /\ answers[k].confidence <= Max(confidences)
  <2>1. confidences # {}
    BY <1>2
  <2>2. /\ Max(confidences) \in confidences
        /\ \A c \in confidences : c <= Max(confidences)
    BY <1>3, <2>1, MaxIs
  <2>3. PICK c : c = answers[k].confidence
    OBVIOUS
  <2>4. c \in confidences
    BY <1>2, <2>3, SMTT(30)
  <2> QED
    BY <1>2, <2>2, <2>3, <2>4
<1>5. Strongest(answers, contradicted) = Max(confidences)
  BY DEF Strongest, confidences
<1>6. Aggregate(answers).class =
         IF Strongest(answers, contradicted) >= HIGH_CONFIDENCE_CONTRADICTION_THRESHOLD
         THEN "high_confidence_hallucination" ELSE "contradicted"
  BY <1>1, contradicted # {} DEF Aggregate, contradicted
<1>7. answers[k].confidence \in Int
  BY SMTT(30)
<1> QED
  BY <1>4, <1>5, <1>6, <1>7 DEF HIGH_CONFIDENCE_CONTRADICTION_THRESHOLD

(* What is shown to the provider as evidence are tool results.              *)
LEMMA EvidenceIsResults ==
    ASSUME NEW ms, IsTranscript(ms), NEW i \in DOMAIN ms
    PROVE  Evidence(ms, i) \in SUBSET ResultSet
<1> SUFFICES ASSUME NEW e \in Evidence(ms, i) PROVE e \in ResultSet
  OBVIOUS
<1> DEFINE first == Max({1, i - CLAIM_SUPPORT_LOOKBACK_MESSAGES})
<1>1. Len(ms) \in Nat /\ DOMAIN ms = 1 .. Len(ms)
  BY SequenceOf DEF IsTranscript
<1>2. CLAIM_SUPPORT_LOOKBACK_MESSAGES \in Nat
  BY DetectionAssumption
<1>3. 1 \in Int /\ i - CLAIM_SUPPORT_LOOKBACK_MESSAGES \in Int
  BY <1>1, <1>2
<1>4. first \in Int /\ 1 <= first
  BY <1>3, MaxOfTwo
<1> HIDE DEF first
<1>5. PICK j \in first .. i - 1 : \E c \in AnsweredCalls(ms[j]) : e = ms[j].calls[c]
  <2>1. PICK q \in UNION {{j} \X AnsweredCalls(ms[j]) : j \in first .. i - 1} :
           e = ms[q[1]].calls[q[2]]
    BY DEF Evidence, first
  <2>2. PICK j \in first .. i - 1 : q \in {j} \X AnsweredCalls(ms[j])
    OBVIOUS
  <2>3. q[1] = j /\ q[2] \in AnsweredCalls(ms[j])
    BY <2>2
  <2> QED
    BY <2>1, <2>3
<1>6. j \in DOMAIN ms
  BY <1>1, <1>4, <1>5
<1>7. PICK c \in AnsweredCalls(ms[j]) : e = ms[j].calls[c]
  BY <1>5
<1>8. e # None /\ e \in ToSet(ms[j].calls)
  BY <1>7 DEF AnsweredCalls, ToSet
<1>9. ToSet(ms[j].calls) \subseteq ResultSet \cup {None}
  BY <1>6 DEF IsTranscript
<1> QED
  BY <1>8, <1>9

(* Every answer of a provider has a ratio for its confidence.               *)
LEMMA AnswersInRange ==
    ASSUME NEW ms, IsTranscript(ms), NEW i \in DOMAIN ms,
           NEW provider \in Providers
    PROVE  \A k \in DOMAIN Answers(provider, ms, i) :
              Answers(provider, ms, i)[k].confidence \in 0 .. 1000
<1> DEFINE facts == FactsOf(provider, ms[i].text)
           evidence == Evidence(ms, i)
<1> SUFFICES ASSUME NEW k \in DOMAIN facts
             PROVE  AskSupport(provider, facts[k], evidence).confidence \in 0 .. 1000
  BY ZenonT(60) DEF Answers
<1>1. ms[i].text \in Texts /\ evidence \in SUBSET ResultSet
  BY EvidenceIsResults DEF IsTranscript
<1>2. facts[k] \in Range(facts)
  BY DEF Range
<1>3. IsConfidence(Support(provider, facts[k], evidence).confidence)
  BY <1>1, <1>2, DetectionAssumption
<1> HIDE DEF facts, evidence
<1>4. AsConfidence(Support(provider, facts[k], evidence).confidence) \in 0 .. 1000
  BY <1>3, ConfidenceInRange
<1>5. 0 \in 0 .. 1000
  OBVIOUS
<1> QED
  BY ONLY <1>4, <1>5, ZenonT(60) DEF AskSupport

(* Whatever the other facts of a message are worth, one contradicted fact   *)
(* makes it a finding, and a sure one a critical finding.                   *)
THEOREM RefutationsShow == Spec => []RefutedClaimsShow
<1>1. IsTranscript(messages) => RefutedClaimsShow
  <2> SUFFICES ASSUME IsTranscript(messages),
                      NEW provider \in Providers,
                      NEW i \in CheckedClaims(messages),
                      NEW k \in DOMAIN FactsOf(provider, messages[i].text),
                      Answers(provider, messages, i)[k].class = "contradicted"
               PROVE  \E f \in ClaimSupport(provider, messages) :
                         /\ f.about = i
                         /\ f.severity \in {"critical"} \cup
                              IF Answers(provider, messages, i)[k].confidence
                                   >= HIGH_CONFIDENCE_CONTRADICTION_THRESHOLD
                              THEN {} ELSE {"high"}
    BY DEF RefutedClaimsShow
  <2> DEFINE answers == Answers(provider, messages, i)
             verdict == Aggregate(answers)
             found == Graded(Finding("unsupported_claim", i, {messages[i].number},
                                     verdict.confidence),
                             ClassificationSeverity[verdict.class])
  <2>1. i \in DOMAIN messages
    BY DEF CheckedClaims, AssistantAt
  <2>2. k \in DOMAIN answers
    BY DEF Answers
  <2>3. \A j \in DOMAIN answers : answers[j].confidence \in 0 .. 1000
    BY <2>1, AnswersInRange
  <2> HIDE DEF answers
  <2>4. \/ verdict.class = "high_confidence_hallucination"
        \/ /\ verdict.class = "contradicted"
           /\ answers[k].confidence < HIGH_CONFIDENCE_CONTRADICTION_THRESHOLD
    BY <2>2, <2>3, RefutedAggregate DEF answers
  <2> HIDE DEF verdict
  <2>5. Emitted(verdict)
    BY <2>4 DEF Emitted, ClassificationSeverity
  <2>6. found \in ClaimSupport(provider, messages)
    BY <2>5 DEF ClaimSupport, verdict, answers
  <2>7. found.about = i /\ found.severity = ClassificationSeverity[verdict.class]
    BY DEF Graded, Finding
  <2>8. \/ found.severity = "critical"
        \/ /\ found.severity = "high"
           /\ ~(answers[k].confidence >= HIGH_CONFIDENCE_CONTRADICTION_THRESHOLD)
    <3>1. answers[k].confidence \in 0 .. 1000
      BY <2>2, <2>3, SMTT(30)
    <3>2. CASE verdict.class = "high_confidence_hallucination"
      BY <2>7, <3>2 DEF ClassificationSeverity
    <3>3. CASE /\ verdict.class = "contradicted"
               /\ answers[k].confidence < HIGH_CONFIDENCE_CONTRADICTION_THRESHOLD
      <4>1. found.severity = "high"
        BY <2>7, <3>3 DEF ClassificationSeverity
      <4>2. PICK c : c = answers[k].confidence
        OBVIOUS
      <4>3. c \in 0 .. 1000
        BY <3>1, <4>2, Zenon
      <4>4. ~(c >= HIGH_CONFIDENCE_CONTRADICTION_THRESHOLD)
        BY <3>3, <4>2, <4>3 DEF HIGH_CONFIDENCE_CONTRADICTION_THRESHOLD
      <4> QED
        BY <4>1, <4>2, <4>4
           DEF HIGH_CONFIDENCE_CONTRADICTION_THRESHOLD
    <3> QED
      BY <2>4, <3>2, <3>3
  <2> HIDE DEF found
  <2> QED
    BY <2>6, <2>7, <2>8 DEF answers
<1> QED
  BY <1>1, SessionInv, PTL

(***************************************************************************)
(* A session that goes on                                                  *)
(***************************************************************************)
(* What was said in ms was said in next, and what is new in next came       *)
(* later.                                                                   *)
Continues(next, ms) ==
    /\ IsTranscript(ms) /\ IsTranscript(next)
    /\ Len(ms) <= Len(next)
    /\ \A i \in DOMAIN ms : /\ next[i].role = ms[i].role
                            /\ next[i].text = ms[i].text
                            /\ next[i].number = ms[i].number
    /\ \A i \in DOMAIN ms, j \in DOMAIN next \ DOMAIN ms :
         ms[i].number < next[j].number

(* A message that moves no other stands at the end.                         *)
LEMMA SessionGoesOn ==
    ASSUME IsTranscript(messages), [SessionNext]_messages, OnlyAppended
    PROVE  Continues(messages', messages)
<1>1. IsTranscript(messages') /\ IsTranscript(messages)
  BY Transcripts
<1>2. CASE UNCHANGED messages
  BY <1>1, <1>2, SequenceOf DEF Continues, IsTranscript
<1>3. ASSUME NEW n \in 1 .. MaxNumber, NEW saying \in Sayings,
             AddMessage(n, saying)
      PROVE  Continues(messages', messages)
  <2> DEFINE p == Cardinality(Below(n)) + 1
             m == [number |-> n, role |-> saying.role, text |-> saying.text,
                   calls |-> saying.calls]
  <2>1. /\ n \in Nat /\ n \notin Numbers
        /\ messages' = InsertAt(messages, p, m)
    BY <1>3, EvaluationAssumption DEF AddMessage
  <2>2. /\ p \in 1 .. Len(messages) + 1
        /\ p = Len(messages) + 1 => \A i \in DOMAIN messages : messages[i].number < n
    BY <2>1, Placed
  <2>3. m.number = n
    OBVIOUS
  <2> HIDE DEF p, m
  <2>4. PICK S : messages \in Seq(S)
    BY DEF IsTranscript, IsSequence
  <2>5. PICK T : messages \in Seq(T) /\ m \in T
    BY <2>4, messages \in Seq(S \cup {m}) /\ m \in S \cup {m}
  <2>6. /\ messages' \in Seq(T) /\ Len(messages') = Len(messages) + 1
        /\ \A i \in 1 .. p - 1 : messages'[i] = messages[i]
        /\ messages'[p] = m
    BY <2>1, <2>2, <2>5, Inserted
  <2>7. Len(messages) \in Nat /\ DOMAIN messages = 1 .. Len(messages)
        /\ DOMAIN messages' = 1 .. Len(messages) + 1
    BY <2>5, <2>6
  <2>8. p = Len(messages) + 1
    <3> SUFFICES ASSUME p # Len(messages) + 1 PROVE FALSE
      OBVIOUS
    <3>1. p \in DOMAIN messages
      BY <2>2, <2>7
    <3>2. messages[p].number = n
      BY <2>3, <2>6, <3>1 DEF OnlyAppended
    <3> QED
      BY <2>1, <3>1, <3>2 DEF Numbers
  <2>9. \A i \in DOMAIN messages : messages'[i] = messages[i]
    BY <2>6, <2>7, <2>8
  <2>10. \A j \in DOMAIN messages' \ DOMAIN messages : j = p
    BY <2>7, <2>8
  <2>11. \A i \in DOMAIN messages, j \in DOMAIN messages' \ DOMAIN messages :
            messages[i].number < messages'[j].number
    BY <2>2, <2>3, <2>6, <2>8, <2>10
  <2>12. Len(messages) <= Len(messages')
    BY <2>6, <2>7
  <2> QED
    BY <1>1, <2>9, <2>11, <2>12 DEF Continues
<1>4. ASSUME NEW i \in DOMAIN messages, NEW result \in ResultSet,
             NEW c \in DOMAIN messages[i].calls, AddToolResult(i, c, result)
      PROVE  Continues(messages', messages)
  <2>1. /\ Len(messages') = Len(messages)
        /\ \A j \in DOMAIN messages :
             /\ messages'[j].role = messages[j].role
             /\ messages'[j].text = messages[j].text
             /\ messages'[j].number = messages[j].number
    BY <1>4, ResultAdded
  <2>2. Len(messages) \in Nat /\ DOMAIN messages' = DOMAIN messages
    BY <1>1, <2>1, SequenceOf DEF IsTranscript
  <2> QED
    BY <1>1, <2>1, <2>2 DEF Continues
<1> QED
  BY <1>2, <1>3, <1>4 DEF SessionNext

(* What a session that goes on keeps of each message: its place, role, text *)
(* and number.                                                              *)
LEMMA WhatWasSaid ==
    ASSUME NEW ms, NEW next, Continues(next, ms)
    PROVE  /\ Len(ms) \in Nat /\ DOMAIN ms = 1 .. Len(ms)
           /\ Len(next) \in Nat /\ DOMAIN next = 1 .. Len(next)
           /\ Len(ms) <= Len(next) /\ DOMAIN ms \subseteq DOMAIN next
           /\ AssistantAt(ms) = AssistantAt(next) \cap DOMAIN ms
           /\ AuthoredAt(ms) = AuthoredAt(next) \cap DOMAIN ms
           /\ \A i \in DOMAIN ms : /\ next[i].role = ms[i].role
                                   /\ next[i].text = ms[i].text
                                   /\ next[i].number = ms[i].number
<1>1. /\ Len(ms) \in Nat /\ DOMAIN ms = 1 .. Len(ms)
      /\ Len(next) \in Nat /\ DOMAIN next = 1 .. Len(next)
  BY SequenceOf DEF Continues, IsTranscript
<1>2. Len(ms) <= Len(next)
  BY DEF Continues
<1>3. DOMAIN ms \subseteq DOMAIN next
  BY <1>1, <1>2
<1>4. \A i \in DOMAIN ms : /\ next[i].role = ms[i].role
                           /\ next[i].text = ms[i].text
                           /\ next[i].number = ms[i].number
  BY DEF Continues
<1> QED
  BY <1>1, <1>2, <1>3, <1>4 DEF AssistantAt, AuthoredAt

(***************************************************************************)
(* Neglect of tool results                                                 *)
(***************************************************************************)
LEMMA SettledNeglect ==
    ASSUME NEW ms, NEW next, Continues(next, ms), NEW i \in DOMAIN ms,
           i + NEGLECT_LOOKAHEAD <= Len(ms), next[i].calls = ms[i].calls
    PROVE  NeglectedBy(next, i) = NeglectedBy(ms, i)
<1>1. /\ Len(ms) \in Nat /\ DOMAIN ms = 1 .. Len(ms)
      /\ Len(next) \in Nat /\ Len(ms) <= Len(next)
      /\ AssistantAt(ms) = AssistantAt(next) \cap DOMAIN ms
      /\ \A j \in DOMAIN ms : /\ next[j].text = ms[j].text
                              /\ next[j].number = ms[j].number
  BY WhatWasSaid
<1>2. NEGLECT_LOOKAHEAD \in Nat
  BY DetectionAssumption
<1>3. PICK last \in Int : last = i + NEGLECT_LOOKAHEAD
  BY <1>1, <1>2
<1>4. last <= Len(ms) /\ last <= Len(next)
  BY <1>1, <1>3
<1>5. Min({last, Len(ms)}) = last /\ Min({last, Len(next)}) = last
  <2>1. PICK a : a = Min({last, Len(ms)})
    OBVIOUS
  <2>2. PICK b : b = Min({last, Len(next)})
    OBVIOUS
  <2>3. last \in Int /\ Len(ms) \in Int /\ Len(next) \in Int
    BY <1>1, <1>3
  <2>4. a \in {last, Len(ms)} /\ a <= last /\ a <= Len(ms)
    BY ONLY <2>1, <2>3, MinOfTwo
  <2>5. b \in {last, Len(next)} /\ b <= last /\ b <= Len(next)
    BY ONLY <2>2, <2>3, MinOfTwo
  <2> QED
    BY <1>4, <2>1, <2>2, <2>3, <2>4, <2>5
<1>6. i + 1 .. last \subseteq DOMAIN ms
  BY <1>1, <1>3, <1>4
<1>7. FollowUps(ms, i) = FollowUps(next, i)
  BY <1>1, <1>3, <1>5, <1>6 DEF FollowUps, Following
<1>8. FollowUps(ms, i) \subseteq DOMAIN ms
  BY DEF FollowUps, AssistantAt
<1>9. \A result : Neglected(ms, i, result) <=> Neglected(next, i, result)
  BY <1>1, <1>7, <1>8 DEF Neglected
<1>10. AnsweredCalls(ms[i]) = AnsweredCalls(next[i])
  BY DEF AnsweredCalls
<1> DEFINE found == {c \in AnsweredCalls(ms[i]) : Neglected(ms, i, ms[i].calls[c])}
<1>11. found = {c \in AnsweredCalls(next[i]) : Neglected(next, i, next[i].calls[c])}
  BY <1>9, <1>10
<1>12. CASE found = {}
  BY <1>11, <1>12 DEF NeglectedBy
<1>13. CASE found # {}
  <2>1. FollowUps(ms, i) # {}
    BY <1>13 DEF Neglected
  <2>2. PICK first : first = Min(FollowUps(ms, i))
    OBVIOUS
  <2>3. FollowUps(ms, i) \in SUBSET Nat
    BY <1>1, <1>8
  <2>4. first \in DOMAIN ms
    BY <1>8, <2>1, <2>2, <2>3, MinIs
  <2>5. next[first].number = ms[first].number /\ next[i].number = ms[i].number
    BY <1>1, <2>4
  <2>6. Min(FollowUps(next, i)) = first
    BY <1>7, <2>2
  <2> HIDE DEF found
  <2>7. NeglectedBy(ms, i) =
           {Finding("tool_result_misuse", <<i, c>>,
                    {ms[i].number, ms[first].number},
                    IF ms[i].calls[c].is_error THEN 700 ELSE 500) : c \in found}
    BY <2>2 DEF NeglectedBy, found
  <2>8. NeglectedBy(next, i) =
           {Finding("tool_result_misuse", <<i, c>>,
                    {next[i].number, next[first].number},
                    IF next[i].calls[c].is_error THEN 700 ELSE 500) : c \in found}
    BY <1>11, <2>6, ZenonT(60) DEF NeglectedBy, found
  <2> QED
    BY <2>5, <2>7, <2>8
<1> QED
  BY <1>12, <1>13

(* Once the window after a call is full, no step of the session changes     *)
(* what is said of its results.                                             *)
THEOREM NeglectIsSettled == Spec => NeglectSettles
<1>1. ASSUME IsTranscript(messages), [Next]_vars
      PROVE  [\A i \in DOMAIN messages :
                /\ OnlyAppended
                /\ i + NEGLECT_LOOKAHEAD <= Len(messages)
                /\ messages'[i].calls = messages[i].calls
                => NeglectedBy(messages', i) = NeglectedBy(messages, i)]_messages
  <2> SUFFICES ASSUME NEW i \in DOMAIN messages, OnlyAppended,
                      i + NEGLECT_LOOKAHEAD <= Len(messages),
                      messages'[i].calls = messages[i].calls
               PROVE  NeglectedBy(messages', i) = NeglectedBy(messages, i)
    OBVIOUS
  <2>1. Continues(messages', messages)
    BY <1>1, SessionSteps, SessionGoesOn
  <2> QED
    BY <2>1, SettledNeglect
<1> QED
  BY <1>1, SessionInv, PTL DEF Spec, NeglectSettles

(***************************************************************************)
(* Findings that stay                                                      *)
(***************************************************************************)
LEMMA RepetitionsStay ==
    ASSUME NEW ms, NEW next, Continues(next, ms)
    PROVE  Repetitions(ms) \subseteq Repetitions(next)
<1> SUFFICES ASSUME NEW i \in RepeatedAt(ms)
             PROVE  /\ i \in RepeatedAt(next)
                    /\ next[i].number = ms[i].number
                    /\ next[i].text = ms[i].text
                    /\ Min(Priors(next, i)) = Min(Priors(ms, i))
                    /\ next[Min(Priors(ms, i))].number = ms[Min(Priors(ms, i))].number
                    /\ next[Min(Priors(ms, i))].text = ms[Min(Priors(ms, i))].text
  BY DEF Repetitions
<1>1. /\ Len(ms) \in Nat /\ DOMAIN ms = 1 .. Len(ms)
      /\ DOMAIN ms \subseteq DOMAIN next
      /\ \A j \in DOMAIN ms : /\ next[j].role = ms[j].role
                              /\ next[j].text = ms[j].text
                              /\ next[j].number = ms[j].number
  BY WhatWasSaid
<1>2. i \in DOMAIN ms
  BY DEF RepeatedAt
<1>3. LOOKBACK_WINDOW \in Nat
  BY DetectionAssumption
<1>4. 1 \in Int /\ i - LOOKBACK_WINDOW \in Int
  BY <1>1, <1>2, <1>3
<1>5. PICK first : first = Max({1, i - LOOKBACK_WINDOW})
  OBVIOUS
<1>6. first \in {1, i - LOOKBACK_WINDOW} /\ 1 <= first
  BY ONLY <1>4, <1>5, MaxOfTwo
<1>7. first .. i - 1 \subseteq DOMAIN ms
  BY <1>1, <1>2, <1>4, <1>6
<1>8. Priors(ms, i) = Priors(next, i) /\ Priors(ms, i) \subseteq DOMAIN ms
  BY <1>1, <1>2, <1>5, <1>7 DEF Priors
<1>9. Priors(ms, i) \in SUBSET Nat /\ Priors(ms, i) # {}
  BY <1>1, <1>8 DEF RepeatedAt
<1>10. Min(Priors(ms, i)) \in DOMAIN ms
  BY <1>8, <1>9, MinIs
<1>11. i \in RepeatedAt(next)
  BY <1>1, <1>2, <1>8 DEF RepeatedAt
<1> QED
  BY <1>1, <1>2, <1>8, <1>10, <1>11

(* A directive that was violated remains violated.                          *)
LEMMA InstructionDriftStays ==
    ASSUME NEW ms, NEW next, Continues(next, ms)
    PROVE  InstructionDrift(ms) \subseteq InstructionDrift(next)
<1> DEFINE Found(m, d, j) ==
      Finding("instruction_drift", <<d[1], d[2], j>>, {m[d[1]].number, m[j].number},
              Min({900, 500 + 100 * TimesSaid(m[j].text, m[d[1]].text.forbids[d[2]])}))
           Of(m, d) == {Found(m, d, j) : j \in Violations(m, d[1], m[d[1]].text.forbids[d[2]])}
<1>1. ASSUME NEW m
      PROVE  InstructionDrift(m) = UNION {Of(m, d) : d \in Directives(m)}
  BY DEF InstructionDrift
<1>2. /\ AssistantAt(ms) = AssistantAt(next) \cap DOMAIN ms
      /\ AuthoredAt(ms) = AuthoredAt(next) \cap DOMAIN ms
      /\ \A j \in DOMAIN ms : /\ next[j].role = ms[j].role
                              /\ next[j].text = ms[j].text
                              /\ next[j].number = ms[j].number
  BY WhatWasSaid
<1> HIDE DEF Found
<1> SUFFICES ASSUME NEW f \in InstructionDrift(ms)
             PROVE  f \in InstructionDrift(next)
  OBVIOUS
<1>3. PICK d \in Directives(ms) :
        \E j \in Violations(ms, d[1], ms[d[1]].text.forbids[d[2]]) :
           f = Found(ms, d, j)
  BY <1>1
<1>4. PICK j \in Violations(ms, d[1], ms[d[1]].text.forbids[d[2]]) :
        f = Found(ms, d, j)
  BY <1>3
<1>5. PICK i \in AuthoredAt(ms) : d \in {<<i, k>> : k \in DOMAIN ms[i].text.forbids}
  BY DEF Directives
<1>6. d[1] = i /\ i \in DOMAIN ms /\ i \in AuthoredAt(next)
  BY <1>2, <1>5
<1>7. d \in Directives(next)
  BY <1>2, <1>5, <1>6 DEF Directives
<1>8. j \in DOMAIN ms
  BY DEF Violations, AssistantAt
<1>9. j \in Violations(next, d[1], next[d[1]].text.forbids[d[2]])
  BY <1>2, <1>6, <1>8 DEF Violations
<1>10. f = Found(next, d, j)
  <2>1. /\ next[d[1]].text = ms[d[1]].text /\ next[j].text = ms[j].text
        /\ next[d[1]].number = ms[d[1]].number /\ next[j].number = ms[j].number
    BY <1>2, <1>6, <1>8
  <2> QED
    BY <1>4, <2>1 DEF Found
<1> QED
  BY <1>1, <1>7, <1>9, <1>10

(* What was stated is stated still, at the same place and in the same       *)
(* order.                                                                   *)
LEMMA StatementsStay ==
    ASSUME NEW ms, NEW next, Continues(next, ms)
    PROVE  /\ \A p \in StatementsIn(ms) : /\ p[1] \in DOMAIN ms
                                          /\ p \in StatementsIn(next)
                                          /\ StatementAt(next, p) = StatementAt(ms, p)
           /\ Subjects(ms) \subseteq Subjects(next)
           /\ \A subject : Occurrences(ms, subject) =
                {p \in Occurrences(next, subject) : p[1] \in DOMAIN ms}
<1>1. /\ AssistantAt(ms) = AssistantAt(next) \cap DOMAIN ms
      /\ \A j \in DOMAIN ms : next[j].text = ms[j].text
  BY WhatWasSaid
<1>2. ASSUME NEW p \in StatementsIn(ms)
      PROVE  /\ p[1] \in DOMAIN ms
             /\ p \in StatementsIn(next)
             /\ StatementAt(next, p) = StatementAt(ms, p)
  <2>1. PICK i \in AssistantAt(ms) : p \in {i} \X DOMAIN ms[i].text.statements
    BY DEF StatementsIn
  <2>2. p[1] = i /\ i \in DOMAIN ms
    BY <1>1, <2>1
  <2> QED
    BY <1>1, <2>1, <2>2 DEF StatementsIn, StatementAt
<1>3. ASSUME NEW p \in StatementsIn(next), p[1] \in DOMAIN ms
      PROVE  p \in StatementsIn(ms)
  <2>1. PICK i \in AssistantAt(next) : p \in {i} \X DOMAIN next[i].text.statements
    BY DEF StatementsIn
  <2>2. p[1] = i
    BY <2>1
  <2> QED
    BY <1>1, <1>3, <2>1, <2>2 DEF StatementsIn
<1>4. Subjects(ms) \subseteq Subjects(next)
  BY <1>2 DEF Subjects
<1>5. ASSUME NEW subject
      PROVE  Occurrences(ms, subject) =
                {p \in Occurrences(next, subject) : p[1] \in DOMAIN ms}
  BY <1>2, <1>3 DEF Occurrences
<1> QED
  BY <1>2, <1>4, <1>5

(* Where a statement was made.                                              *)
LEMMA OccurrenceAt ==
    ASSUME NEW ms, IsTranscript(ms), NEW subject, NEW p \in Occurrences(ms, subject)
    PROVE  /\ p \in StatementsIn(ms)
           /\ p[1] \in DOMAIN ms /\ p[1] \in AssistantAt(ms)
           /\ p[2] \in DOMAIN ms[p[1]].text.statements
           /\ p = <<p[1], p[2]>>
           /\ p[1] \in Nat /\ p[2] \in Nat
<1>1. p \in StatementsIn(ms)
  BY DEF Occurrences
<1>2. PICK i \in AssistantAt(ms) : p \in {i} \X DOMAIN ms[i].text.statements
  BY <1>1 DEF StatementsIn
<1>3. i \in DOMAIN ms
  BY DEF AssistantAt
<1>4. PICK k \in DOMAIN ms[i].text.statements : p = <<i, k>>
  BY <1>2
<1>5. Len(ms) \in Nat /\ DOMAIN ms = 1 .. Len(ms)
  BY SequenceOf DEF IsTranscript
<1>6. IsSequence(ms[i].text.statements)
  BY <1>3, DetectionAssumption DEF IsTranscript, IsText
<1>7. PICK n \in Nat : DOMAIN ms[i].text.statements = 1 .. n
  BY <1>6, SequenceOf
<1>8. i \in Nat /\ k \in Nat
  BY <1>3, <1>5, <1>7
<1>9. p[1] = i /\ p[2] = k
  BY <1>4
<1> QED
  BY <1>1, <1>3, <1>4, <1>8, <1>9

(* Two neighbouring statements of a subject remain neighbours.              *)
LEMMA ContradictionsStay ==
    ASSUME NEW ms, NEW next, Continues(next, ms)
    PROVE  Contradictions(ms) \subseteq Contradictions(next)
<1> DEFINE Found(m, subject, pair) ==
             Finding("contradiction", <<subject, pair[1], pair[2]>>,
                     {m[pair[1][1]].number, m[pair[2][1]].number},
                     ContradictionConfidence(ValueAt(m, pair[1]),
                                             ValueAt(m, pair[2])))
           Of(m, subject) ==
             {Found(m, subject, pair) :
                 pair \in ContradictedPairs(m, Occurrences(m, subject))}
<1>1. ASSUME NEW m
      PROVE  Contradictions(m) = UNION {Of(m, subject) : subject \in Subjects(m)}
  BY DEF Contradictions
<1> HIDE DEF Found
<1> SUFFICES ASSUME NEW f \in Contradictions(ms)
             PROVE  f \in Contradictions(next)
  OBVIOUS
<1>2. PICK subject \in Subjects(ms) :
        \E pair \in ContradictedPairs(ms, Occurrences(ms, subject)) :
           f = Found(ms, subject, pair)
  BY <1>1
<1>3. PICK pair \in ContradictedPairs(ms, Occurrences(ms, subject)) :
           f = Found(ms, subject, pair)
  BY <1>2
<1>4. PICK p, q : p = pair[1] /\ q = pair[2]
  OBVIOUS
<1>5. /\ pair \in Occurrences(ms, subject) \X Occurrences(ms, subject)
      /\ p \in Occurrences(ms, subject) /\ q \in Occurrences(ms, subject)
      /\ Consecutive(Occurrences(ms, subject), p, q)
      /\ ~UserSuppliedValue(ms, p, q)
      /\ Conflicts(ValueAt(ms, p), ValueAt(ms, q))
  BY <1>4 DEF ContradictedPairs
<1>6. /\ subject \in Subjects(next)
      /\ \A r \in StatementsIn(ms) : StatementAt(next, r) = StatementAt(ms, r)
      /\ Occurrences(ms, subject)
           = {r \in Occurrences(next, subject) : r[1] \in DOMAIN ms}
  BY StatementsStay
<1>7. IsTranscript(ms) /\ IsTranscript(next)
  BY DEF Continues
<1>8. /\ p \in StatementsIn(ms) /\ q \in StatementsIn(ms)
      /\ p[1] \in DOMAIN ms /\ q[1] \in DOMAIN ms
  BY <1>5, <1>7, OccurrenceAt
<1>9. /\ ValueAt(next, p) = ValueAt(ms, p) /\ ValueAt(next, q) = ValueAt(ms, q)
  BY <1>6, <1>8 DEF ValueAt
<1>10. /\ Len(ms) \in Nat /\ DOMAIN ms = 1 .. Len(ms)
       /\ AuthoredAt(ms) = AuthoredAt(next) \cap DOMAIN ms
       /\ \A j \in DOMAIN ms : /\ next[j].text = ms[j].text
                               /\ next[j].number = ms[j].number
  BY WhatWasSaid
<1>11. Consecutive(Occurrences(next, subject), p, q)
  <2> SUFFICES ASSUME NEW r \in Occurrences(next, subject),
                      Before(p, r), Before(r, q)
               PROVE  FALSE
    BY <1>5 DEF Consecutive
  <2>1. r[1] \in Nat /\ r[1] \in DOMAIN next
    BY <1>7, OccurrenceAt
  <2>2. PICK a, b : a = r[1] /\ b = q[1]
    OBVIOUS
  <2>3. a < b \/ a = b
    BY <2>2 DEF Before
  <2>4. a \in Nat /\ b \in Nat /\ b <= Len(ms)
    BY <1>8, <1>10, <2>1, <2>2
  <2>5. PICK n \in Nat : DOMAIN next = 1 .. n
    BY <1>7, SequenceOf DEF IsTranscript
  <2>6. a \in DOMAIN ms
    BY <1>10, <2>1, <2>2, <2>3, <2>4, <2>5
  <2>7. r \in Occurrences(ms, subject)
    BY <1>6, <2>2, <2>6
  <2> QED
    BY <1>5, <2>7 DEF Consecutive
<1>12. ~UserSuppliedValue(next, p, q)
  <2> SUFFICES ASSUME NEW i \in AuthoredAt(next),
                      next[p[1]].number < next[i].number,
                      next[i].number < next[q[1]].number,
                      Supplies(next[i].text, ValueAt(next, q))
               PROVE  FALSE
    BY DEF UserSuppliedValue
  <2>1. i \in DOMAIN ms
    <3> SUFFICES ASSUME i \notin DOMAIN ms PROVE FALSE
      OBVIOUS
    <3>1. i \in DOMAIN next \ DOMAIN ms
      BY DEF AuthoredAt
    <3>2. ms[q[1]].number < next[i].number
      BY <1>8, <3>1 DEF Continues
    <3>3. next[q[1]].number = ms[q[1]].number
      BY <1>8, <1>10
    <3>4. next[i].number \in Nat /\ next[q[1]].number \in Nat
      <4>1. q[1] \in DOMAIN next
        BY <1>8, WhatWasSaid
      <4> QED
        BY <1>7, <3>1, <4>1 DEF IsTranscript
    <3> QED
      BY <3>2, <3>3, <3>4
  <2> QED
    BY <1>5, <1>8, <1>9, <1>10, <2>1 DEF UserSuppliedValue
<1>13. pair \in ContradictedPairs(next, Occurrences(next, subject))
  BY <1>4, <1>5, <1>6, <1>9, <1>11, <1>12 DEF ContradictedPairs
<1>14. f = Found(next, subject, pair)
  <2>1. next[p[1]].number = ms[p[1]].number /\ next[q[1]].number = ms[q[1]].number
    BY <1>8, <1>10
  <2> QED
    BY <1>3, <1>4, <1>9, <2>1 DEF Found
<1> QED
  BY <1>1, <1>6, <1>13, <1>14

(* A fact that was established and then hedged about remains so.             *)
LEMMA FactLossStays ==
    ASSUME NEW ms, NEW next, Continues(next, ms)
    PROVE  FactLoss(ms) \subseteq FactLoss(next)
<1> DEFINE Found(m, subject, i) ==
             Finding("fact_loss", <<subject, i>>,
                     {m[Established(m, subject)].number, m[i].number},
                     IF AskedBetween(m, subject, Established(m, subject), i)
                     THEN 700 ELSE 550)
           Of(m, subject) == {Found(m, subject, i) : i \in HedgedAbout(m, subject)}
<1>1. ASSUME NEW m
      PROVE  FactLoss(m) = UNION {Of(m, subject) : subject \in Subjects(m)}
  BY DEF FactLoss
<1> HIDE DEF Found
<1> SUFFICES ASSUME NEW f \in FactLoss(ms)
             PROVE  f \in FactLoss(next)
  OBVIOUS
<1>2. PICK subject \in Subjects(ms) :
        \E i \in HedgedAbout(ms, subject) : f = Found(ms, subject, i)
  BY <1>1
<1>3. PICK i \in HedgedAbout(ms, subject) : f = Found(ms, subject, i)
  BY <1>2
<1>4. IsTranscript(ms) /\ IsTranscript(next)
  BY DEF Continues
<1>5. /\ subject \in Subjects(next)
      /\ Occurrences(ms, subject)
           = {r \in Occurrences(next, subject) : r[1] \in DOMAIN ms}
  BY StatementsStay
<1>6. /\ Len(ms) \in Nat /\ DOMAIN ms = 1 .. Len(ms)
      /\ Len(next) \in Nat /\ DOMAIN next = 1 .. Len(next)
      /\ AssistantAt(ms) = AssistantAt(next) \cap DOMAIN ms
      /\ \A j \in DOMAIN ms : /\ next[j].role = ms[j].role
                              /\ next[j].text = ms[j].text
                              /\ next[j].number = ms[j].number
  BY WhatWasSaid
<1>7. PICK first : first = Established(ms, subject)
  OBVIOUS
<1>8. first \in DOMAIN ms /\ Established(next, subject) = first
  <2>1. StatedAt(ms, subject) = StatedAt(next, subject) \cap DOMAIN ms
    BY <1>5 DEF StatedAt
  <2>2. StatedAt(ms, subject) # {}
    BY DEF Subjects, Occurrences, StatedAt
  <2>3. StatedAt(next, subject) \subseteq DOMAIN next
    BY <1>4, OccurrenceAt DEF StatedAt
  <2>4. /\ StatedAt(ms, subject) \in SUBSET Nat
        /\ StatedAt(next, subject) \in SUBSET Nat
    BY <1>6, <2>1, <2>3
  <2>5. first \in StatedAt(ms, subject)
    BY <1>7, <2>2, <2>4, MinIs DEF Established
  <2>6. PICK least : least = Min(StatedAt(next, subject))
    OBVIOUS
  <2>7. /\ least \in StatedAt(next, subject)
        /\ \A y \in StatedAt(next, subject) : least <= y
    BY <2>1, <2>2, <2>4, <2>6, MinIs
  <2>8. least <= first /\ first \in DOMAIN ms
    BY <2>1, <2>5, <2>7
  <2>9. least \in StatedAt(ms, subject)
    BY <1>6, <2>1, <2>3, <2>7, <2>8
  <2>10. first <= least
    BY <1>7, <2>2, <2>4, <2>9, MinIs DEF Established
  <2> QED
    BY <1>6, <2>3, <2>6, <2>7, <2>8, <2>10 DEF Established
<1>9. i \in DOMAIN ms
  BY <1>6, <1>3 DEF HedgedAbout
<1>10. i \in HedgedAbout(next, subject)
  BY <1>3, <1>6, <1>7, <1>8, <1>9 DEF HedgedAbout
<1>11. first + 1 .. i - 1 \subseteq DOMAIN ms
  BY <1>6, <1>8, <1>9
<1>12. AskedBetween(ms, subject, first, i) <=> AskedBetween(next, subject, first, i)
  BY <1>6, <1>11 DEF AskedBetween
<1>13. next[first].number = ms[first].number /\ next[i].number = ms[i].number
  BY <1>6, <1>8, <1>9
<1>14. f = Found(next, subject, i)
  BY <1>3, <1>7, <1>8, <1>12, <1>13 DEF Found
<1> QED
  BY <1>1, <1>5, <1>10, <1>14

(* Multiplication keeps the order of natural numbers.                       *)
LEMMA ProductMonotone ==
    ASSUME NEW a \in Nat, NEW b \in Nat, NEW k \in Nat, a <= b
    PROVE  a * k <= b * k
<1>1. PICK d \in Nat : b = a + d
  BY (b - a) \in Nat /\ b = a + (b - a)
<1>2. b * k = a * k + d * k
  BY <1>1
<1>3. d * k \in Nat /\ a * k \in Nat
  OBVIOUS
<1> QED
  BY <1>2, <1>3

(* What whole division computes.                                            *)
LEMMA QuotientBounds ==
    ASSUME NEW n \in Nat, NEW k \in Nat \ {0}
    PROVE  /\ n \div k \in Nat
           /\ (n \div k) * k <= n /\ n < (n \div k + 1) * k
OBVIOUS

(* Whole division keeps the order of natural numbers.                       *)
LEMMA QuotientMonotone ==
    ASSUME NEW m \in Nat, NEW n \in Nat, NEW k \in Nat \ {0}, m <= n
    PROVE  m \div k <= n \div k
<1>1. PICK a \in Nat, b \in Nat : a = m \div k /\ b = n \div k
  BY QuotientBounds
<1>2. a * k <= m /\ n < (b + 1) * k
  BY <1>1, QuotientBounds
<1> SUFFICES ASSUME b < a PROVE FALSE
  BY <1>1
<1>3. b + 1 \in Nat /\ b + 1 <= a
  BY <1>1
<1>4. (b + 1) * k <= a * k
  BY <1>3, ProductMonotone
<1>5. PICK p, q : p = (b + 1) * k /\ q = a * k
  OBVIOUS
<1>6. p \in Int /\ q \in Int
  BY <1>5
<1> QED
  BY <1>2, <1>4, <1>5, <1>6

(* The windows of a session lie inside it.                                  *)
LEMMA WindowInside ==
    ASSUME NEW ms, IsTranscript(ms), NEW w \in Windows(ms), NEW v \in 1 .. w
    PROVE  WindowOf(v) \subseteq DOMAIN ms
<1>1. PICK k \in Nat \ {0} : k = WINDOW_SIZE
  BY DetectionAssumption
<1>2. Len(ms) \in Nat /\ DOMAIN ms = 1 .. Len(ms)
  BY SequenceOf DEF IsTranscript
<1>3. PICK n \in Nat, q \in Nat : n = Len(ms) /\ q = n \div k
  BY <1>1, <1>2, QuotientBounds
<1>4. q * k <= n
  BY <1>3, QuotientBounds
<1>5. w \in 1 .. q
  BY <1>1, <1>3 DEF Windows
<1>6. v \in Nat /\ 1 <= v /\ v <= q
  BY <1>5
<1>7. v * k <= q * k
  BY <1>6, ProductMonotone
<1>8. PICK a \in Nat, b \in Nat, c \in Nat :
        a = (v - 1) * k /\ b = v * k /\ c = q * k
  BY <1>6
<1>9. b <= n
  BY <1>4, <1>7, <1>8
<1>10. WindowOf(v) = a + 1 .. b
  BY <1>1, <1>8 DEF WindowOf
<1> QED
  BY <1>2, <1>3, <1>8, <1>9, <1>10

(* Two windows that differ do so still: no window moves.                    *)
LEMMA TopicDriftStays ==
    ASSUME NEW ms, NEW next, Continues(next, ms)
    PROVE  TopicDrift(ms) \subseteq TopicDrift(next)
<1>1. IsTranscript(ms)
  BY DEF Continues
<1>2. /\ Len(ms) \in Nat /\ Len(next) \in Nat /\ Len(ms) <= Len(next)
      /\ \A j \in DOMAIN ms : /\ next[j].text = ms[j].text
                              /\ next[j].number = ms[j].number
  BY WhatWasSaid
<1> SUFFICES ASSUME NEW w \in DriftedWindows(ms)
             PROVE  /\ w \in DriftedWindows(next)
                    /\ {next[i].number : i \in WindowOf(w)}
                         = {ms[i].number : i \in WindowOf(w)}
                    /\ Continuity(next, w) = Continuity(ms, w)
  BY ZenonT(60) DEF TopicDrift
<1>3. w \in Windows(ms) /\ w # 1
  BY DEF DriftedWindows
<1>4. WINDOW_SIZE \in Nat \ {0}
  BY DetectionAssumption
<1>5. w \in Windows(next)
  <2>1. PICK a \in Nat, b \in Nat :
          a = Len(ms) \div WINDOW_SIZE /\ b = Len(next) \div WINDOW_SIZE
    BY <1>2, <1>4, QuotientBounds
  <2>2. a <= b
    BY <1>2, <1>4, <2>1, QuotientMonotone
  <2> QED
    BY <1>3, <2>1, <2>2 DEF Windows
<1>6. w \in Nat /\ 1 <= w
  BY <1>2, <1>3, <1>4, QuotientBounds DEF Windows
<1>7. ASSUME NEW v \in 1 .. w
      PROVE  WindowWords(next, v) = WindowWords(ms, v)
  <2>1. WindowOf(v) \subseteq DOMAIN ms
    BY <1>1, <1>3, WindowInside
  <2> QED
    BY <1>2, <2>1 DEF WindowWords
<1>8. EstablishedWords(next, w) = EstablishedWords(ms, w)
  <2>1. \A v \in 1 .. w - 1 : v \in 1 .. w
    BY <1>6
  <2> QED
    BY <1>7, <2>1 DEF EstablishedWords
<1>9. WindowWords(next, w) = WindowWords(ms, w)
  BY <1>6, <1>7
<1>10. Continuity(next, w) = Continuity(ms, w)
  BY <1>8, <1>9 DEF Continuity
<1>11. w \in DriftedWindows(next)
  BY <1>5, <1>3, <1>8, <1>9, <1>10 DEF DriftedWindows
<1>12. WindowOf(w) \subseteq DOMAIN ms
  BY <1>1, <1>3, <1>6, WindowInside
<1> QED
  BY <1>2, <1>10, <1>11, <1>12

(* The baseline of a message is what precedes it, which later messages      *)
(* leave alone.                                                             *)
LEMMA BehaviorShiftStays ==
    ASSUME NEW ms, NEW next, Continues(next, ms)
    PROVE  BehaviorShift(ms) \subseteq BehaviorShift(next)
<1>1. /\ Len(ms) \in Nat /\ DOMAIN ms = 1 .. Len(ms)
      /\ Len(next) \in Nat /\ DOMAIN next = 1 .. Len(next)
      /\ AssistantAt(ms) = AssistantAt(next) \cap DOMAIN ms
      /\ \A j \in DOMAIN ms : /\ next[j].text = ms[j].text
                              /\ next[j].number = ms[j].number
  BY WhatWasSaid
<1> SUFFICES ASSUME NEW i \in Shifted(ms)
             PROVE  /\ i \in Shifted(next) /\ next[i].number = ms[i].number
                    /\ ShiftConfidence(next, i) = ShiftConfidence(ms, i)
  BY DEF BehaviorShift
<1>2. i \in AssistantAt(ms) /\ i \in DOMAIN ms
  BY DEF Shifted, AssistantAt
<1>3. Baseline(next, i) = Baseline(ms, i) /\ Baseline(ms, i) \subseteq DOMAIN ms
  <2>1. Baseline(ms, i) \subseteq DOMAIN ms
    BY DEF Baseline, AssistantAt
  <2>2. \A j \in AssistantAt(next) : j < i => j \in DOMAIN ms
    BY <1>1, <1>2 DEF AssistantAt
  <2> QED
    BY <1>1, <2>1, <2>2 DEF Baseline
<1>4. PICK B : B = Baseline(ms, i) /\ B = Baseline(next, i) /\ B \subseteq DOMAIN ms
  BY <1>3
<1>5. SumOfSizes(next, B) = SumOfSizes(ms, B)
  <2>1. [j \in B |-> next[j].text.size] = [j \in B |-> ms[j].text.size]
    BY <1>1, <1>4
  <2> QED
    BY <2>1 DEF SumOfSizes
<1>6. SumOfSquares(next, B) = SumOfSquares(ms, B)
  <2>1. [j \in B |-> next[j].text.size * next[j].text.size]
          = [j \in B |-> ms[j].text.size * ms[j].text.size]
    BY <1>1, <1>4
  <2> QED
    BY <2>1 DEF SumOfSquares
<1>7. Spread(next, i) = Spread(ms, i)
  BY <1>4, <1>5, <1>6 DEF Spread
<1>8. Deviation(next, i) = Deviation(ms, i)
  BY <1>1, <1>2, <1>4, <1>5 DEF Deviation
<1>9. ShiftConfidence(next, i) = ShiftConfidence(ms, i)
  BY <1>7, <1>8 DEF ShiftConfidence
<1>10. i \in Shifted(next)
  BY <1>1, <1>2, <1>4, <1>7, <1>8 DEF Shifted
<1> QED
  BY <1>1, <1>2, <1>9, <1>10

(* A question that was passed over remains so, unless the detector raises.  *)
LEMMA OmissionsStay ==
    ASSUME NEW ms, NEW next, Continues(next, ms), ~OmissionRaises(next)
    PROVE  Omissions(ms) \subseteq Omissions(next)
<1> DEFINE Found(m, p) ==
             Finding("omission", p,
                     {m[p[1]].number, m[p[2]].number, m[Min(Replies(m, p[2]))].number},
                     IF Overlap(m, p[1], p[2]) >= STRONG_OVERLAP_THRESHOLD
                     THEN 700 ELSE 500)
<1>1. /\ Omissions(ms) \subseteq {Found(ms, p) : p \in Omitted(ms)}
      /\ Omissions(next) = {Found(next, p) : p \in Omitted(next)}
  BY DEF Omissions
<1> HIDE DEF Found
<1> SUFFICES ASSUME NEW p \in Omitted(ms)
             PROVE  p \in Omitted(next) /\ Found(next, p) = Found(ms, p)
  BY <1>1
<1>2. /\ Len(ms) \in Nat /\ DOMAIN ms = 1 .. Len(ms)
      /\ Len(next) \in Nat /\ DOMAIN next = 1 .. Len(next)
      /\ Len(ms) <= Len(next)
      /\ AssistantAt(ms) = AssistantAt(next) \cap DOMAIN ms
      /\ AuthoredAt(ms) = AuthoredAt(next) \cap DOMAIN ms
      /\ \A j \in DOMAIN ms : /\ next[j].role = ms[j].role
                              /\ next[j].text = ms[j].text
                              /\ next[j].number = ms[j].number
  BY WhatWasSaid
<1>3. PICK i, j : p = <<i, j>> /\ i \in MarkedAt(ms) /\ j \in DOMAIN ms
  BY DEF Omitted
<1>4. /\ j \in OnTopic(ms, i) /\ Replies(ms, j) # {}
      /\ ms[i].text.words \cap ms[Min(Replies(ms, j))].text.words = {}
  BY <1>3 DEF Omitted
<1>5. i \in DOMAIN ms
  BY <1>3 DEF MarkedAt, AuthoredAt
<1>6. i \in MarkedAt(next)
  BY <1>2, <1>3, <1>5 DEF MarkedAt
<1>7. Overlap(next, i, j) = Overlap(ms, i, j)
  BY <1>2, <1>3, <1>5 DEF Overlap
<1>8. j \in Following(next, i, OMISSION_LOOKAHEAD)
  <2>1. PICK last \in Int : last = i + OMISSION_LOOKAHEAD
    BY <1>2, <1>5, DetectionAssumption
  <2>2. last \in Int /\ Len(ms) \in Int /\ Len(next) \in Int
    BY <1>2
  <2>3. PICK a, b : a = Min({last, Len(ms)}) /\ b = Min({last, Len(next)})
    OBVIOUS
  <2>4. a <= last /\ a <= Len(ms) /\ a \in {last, Len(ms)}
    BY ONLY <2>2, <2>3, MinOfTwo
  <2>5. b \in {last, Len(next)}
    BY ONLY <2>2, <2>3, MinOfTwo
  <2>6. j \in i + 1 .. a
    BY <1>4, <2>1, <2>3 DEF OnTopic, Following
  <2>7. j \in i + 1 .. b
    <3>1. PICK short, long : short = Len(ms) /\ long = Len(next)
      OBVIOUS
    <3>2. short \in Int /\ long \in Int /\ short <= long /\ i \in Int
      BY <1>2, <1>5, <3>1
    <3> QED
      BY ONLY <2>2, <2>4, <2>5, <2>6, <3>1, <3>2
  <2> QED
    BY <2>1, <2>3, <2>7 DEF Following
<1>9. j \in OnTopic(next, i)
  BY <1>2, <1>3, <1>4, <1>7, <1>8 DEF OnTopic
<1>10. PICK reply : reply = Min(Replies(ms, j))
  OBVIOUS
<1>11. reply \in DOMAIN ms /\ Replies(next, j) # {} /\ Min(Replies(next, j)) = reply
  <2>1. Replies(ms, j) = Replies(next, j) \cap DOMAIN ms
    BY <1>2 DEF Replies
  <2>2. Replies(ms, j) \in SUBSET Nat /\ Replies(next, j) \in SUBSET Nat
    BY <1>2 DEF Replies, AssistantAt
  <2>3. reply \in Replies(ms, j) /\ \A y \in Replies(ms, j) : reply <= y
    BY <1>4, <1>10, <2>2, MinIs
  <2>4. Replies(next, j) # {}
    BY <2>1, <2>3
  <2>5. PICK least : least = Min(Replies(next, j))
    OBVIOUS
  <2>6. /\ least \in Replies(next, j) /\ \A y \in Replies(next, j) : least <= y
    BY <2>2, <2>4, <2>5, MinIs
  <2>7. least <= reply /\ least \in DOMAIN next /\ reply \in DOMAIN ms
    BY <2>1, <2>3, <2>6 DEF Replies, AssistantAt
  <2>8. least \in DOMAIN ms
    BY <1>2, <2>7
  <2>9. reply <= least
    BY <2>1, <2>3, <2>6, <2>8
  <2>10. reply \in Nat /\ least \in Nat
    BY <1>2, <2>7
  <2> QED
    BY <2>4, <2>5, <2>7, <2>9, <2>10
<1>12. p \in Omitted(next)
  BY <1>2, <1>3, <1>4, <1>5, <1>6, <1>9, <1>10, <1>11 DEF Omitted
<1>13. /\ next[i].number = ms[i].number /\ next[j].number = ms[j].number
       /\ next[reply].number = ms[reply].number
  BY <1>2, <1>3, <1>5, <1>11
<1>14. Found(next, p) = Found(ms, p)
  BY <1>3, <1>7, <1>10, <1>11, <1>13 DEF Found
<1> QED
  BY <1>12, <1>14

(* What a session's detectors report of its past, they go on reporting,     *)
(* unchanged, whatever is said next and whichever result comes late: for    *)
(* any sayings, windows and thresholds.                                     *)
THEOREM FindingsStay == Spec => FindingsPersist
<1>1. ASSUME IsTranscript(messages), [Next]_vars
      PROVE  [OnlyAppended =>
                /\ LastingFindings(messages) \subseteq LastingFindings(messages')
                /\ \/ OmissionRaises(messages')
                   \/ Omissions(messages) \subseteq Omissions(messages')]_messages
  <2> SUFFICES ASSUME OnlyAppended
               PROVE  /\ LastingFindings(messages) \subseteq LastingFindings(messages')
                      /\ \/ OmissionRaises(messages')
                         \/ Omissions(messages) \subseteq Omissions(messages')
    OBVIOUS
  <2>1. Continues(messages', messages)
    BY <1>1, SessionSteps, SessionGoesOn
  <2>2. /\ Repetitions(messages) \subseteq Repetitions(messages')
        /\ InstructionDrift(messages) \subseteq InstructionDrift(messages')
        /\ Contradictions(messages) \subseteq Contradictions(messages')
        /\ TopicDrift(messages) \subseteq TopicDrift(messages')
        /\ BehaviorShift(messages) \subseteq BehaviorShift(messages')
        /\ FactLoss(messages) \subseteq FactLoss(messages')
    BY <2>1, RepetitionsStay, InstructionDriftStays, ContradictionsStay,
       TopicDriftStays, BehaviorShiftStays, FactLossStays
  <2>3. LastingFindings(messages) \subseteq LastingFindings(messages')
    BY <2>2 DEF LastingFindings
  <2>4. OmissionRaises(messages') \/ Omissions(messages) \subseteq Omissions(messages')
    BY <2>1, OmissionsStay
  <2> QED
    BY <2>3, <2>4
<1> QED
  BY <1>1, SessionInv, PTL DEF Spec, FindingsPersist

(***************************************************************************)
(* Contradictions between numbers                                          *)
(***************************************************************************)
(* Of some statements one comes first and, if there is an end, one last.    *)
LEMMA EarliestStatement ==
    ASSUME NEW S, S # {}, \A p \in S : p[1] \in Nat /\ p[2] \in Nat
    PROVE  \E m \in S : \A r \in S : ~Before(r, m)
<1> DEFINE Firsts == {p[1] : p \in S}
<1>1. Firsts \in SUBSET Nat /\ Firsts # {}
  OBVIOUS
<1>2. PICK a \in Firsts : \A b \in Firsts : a <= b
  BY <1>1, LeastNatural
<1> DEFINE Seconds == {p[2] : p \in {p \in S : p[1] = a}}
<1>3. Seconds \in SUBSET Nat /\ Seconds # {}
  OBVIOUS
<1>4. PICK k \in Seconds : \A l \in Seconds : k <= l
  BY <1>3, LeastNatural
<1>5. PICK m \in S : m[1] = a /\ m[2] = k
  OBVIOUS
<1>6. ASSUME NEW r \in S, Before(r, m) PROVE FALSE
  <2>1. a <= r[1] /\ (r[1] = a => k <= r[2])
    BY <1>2, <1>4
  <2>2. r[1] \in Nat /\ r[2] \in Nat /\ a \in Nat /\ k \in Nat
    BY <1>1, <1>3
  <2> QED
    BY <1>5, <1>6, <2>1, <2>2 DEF Before
<1> QED
  BY <1>6

(* Of finitely many statements, one is the last.                            *)
LEMMA LatestStatement ==
    ASSUME NEW S, S # {}, NEW bound \in Nat, NEW limit,
           \A p \in S : /\ p[1] \in Nat /\ p[2] \in Nat /\ p[1] <= bound
                        /\ limit[p[1]] \in Nat /\ p[2] <= limit[p[1]]
    PROVE  \E m \in S : \A r \in S : ~Before(m, r)
<1> DEFINE Firsts == {p[1] : p \in S}
<1>1. Firsts \in SUBSET Int /\ Firsts # {} /\ \A a \in Firsts : a <= bound
  OBVIOUS
<1>2. PICK a \in Firsts : \A b \in Firsts : b <= a
  <2> HIDE DEF Firsts
  <2>1. bound \in Int
    OBVIOUS
  <2> QED
    BY <1>1, <2>1, MaxIs
<1> DEFINE Seconds == {p[2] : p \in {p \in S : p[1] = a}}
<1>3. /\ Seconds \in SUBSET Int /\ Seconds # {}
      /\ limit[a] \in Int /\ \A k \in Seconds : k <= limit[a]
  OBVIOUS
<1>4. PICK k \in Seconds : \A l \in Seconds : l <= k
  <2>1. PICK most \in Int : most = limit[a]
    BY <1>3
  <2> QED
    BY <1>3, <2>1, MaxIs
<1>5. PICK m \in S : m[1] = a /\ m[2] = k
  OBVIOUS
<1>6. ASSUME NEW r \in S, Before(m, r) PROVE FALSE
  <2>1. r[1] <= a /\ (r[1] = a => r[2] <= k)
    BY <1>2, <1>4
  <2>2. r[1] \in Nat /\ r[2] \in Nat /\ a \in Int /\ k \in Int
    BY <1>1, <1>3
  <2> QED
    BY <1>5, <1>6, <2>1, <2>2 DEF Before
<1> QED
  BY <1>6

(* Between two statements that differ in something, two neighbours do.      *)
LEMMA NeighboursDiffer ==
    ASSUME NEW ms, IsTranscript(ms), NEW subject, NEW shown,
           NEW a \in Occurrences(ms, subject), NEW b \in Occurrences(ms, subject),
           shown[a] # shown[b]
    PROVE  \E p, q \in Occurrences(ms, subject) :
              Consecutive(Occurrences(ms, subject), p, q) /\ shown[p] # shown[q]
<1>1. PICK said : said = Occurrences(ms, subject)
  OBVIOUS
<1>2. \A p \in said : /\ p = <<p[1], p[2]>>
                      /\ p[1] \in Nat /\ p[2] \in Nat
                      /\ p[1] \in DOMAIN ms
                      /\ p[2] \in DOMAIN ms[p[1]].text.statements
  BY <1>1, OccurrenceAt
<1>3. \A p, q \in said : p # q => Before(p, q) \/ Before(q, p)
  BY <1>2 DEF Before
<1>4. PICK first, second : /\ first \in said /\ second \in said
                           /\ Before(first, second)
                           /\ shown[first] # shown[second]
  BY <1>1, <1>3
<1> DEFINE Changed == {r \in said : Before(first, r) /\ shown[r] # shown[first]}
<1>5. PICK q \in Changed : \A r \in Changed : ~Before(r, q)
  <2>1. Changed # {} /\ \A r \in Changed : r[1] \in Nat /\ r[2] \in Nat
    BY <1>2, <1>4
  <2> HIDE DEF Changed
  <2> QED
    BY <2>1, EarliestStatement
<1> DEFINE Earlier == {r \in said : Before(r, q)}
<1>6. PICK p \in Earlier : \A r \in Earlier : ~Before(p, r)
  <2> DEFINE limit == [i \in DOMAIN ms |-> Len(ms[i].text.statements)]
  <2>1. Earlier # {}
    BY <1>4, <1>5
  <2>2. Len(ms) \in Nat /\ DOMAIN ms = 1 .. Len(ms)
    BY SequenceOf DEF IsTranscript
  <2>3. ASSUME NEW r \in Earlier
        PROVE  /\ r[1] \in Nat /\ r[2] \in Nat /\ r[1] <= Len(ms)
               /\ limit[r[1]] \in Nat /\ r[2] <= limit[r[1]]
    <3>1. r[1] \in Nat /\ r[2] \in Nat /\ r[1] \in DOMAIN ms
          /\ r[2] \in DOMAIN ms[r[1]].text.statements
      BY <1>2
    <3>2. IsSequence(ms[r[1]].text.statements)
      BY <3>1, DetectionAssumption DEF IsTranscript, IsText
    <3>3. PICK n \in Nat : /\ n = Len(ms[r[1]].text.statements)
                           /\ DOMAIN ms[r[1]].text.statements = 1 .. n
      BY <3>2, SequenceOf
    <3>4. limit[r[1]] = n
      BY <3>1, <3>3
    <3> QED
      BY <2>2, <3>1, <3>3, <3>4
  <2> HIDE DEF Earlier, limit
  <2>4. PICK bound \in Nat : bound = Len(ms)
    BY <2>2
  <2> QED
    BY <2>1, <2>3, <2>4, LatestStatement
<1>7. p \in said /\ q \in said /\ Before(p, q)
  OBVIOUS
<1>8. Consecutive(said, p, q)
  BY <1>6, <1>7 DEF Consecutive
<1>9. shown[p] = shown[first]
  <2>1. CASE p = first
    BY <2>1
  <2>2. CASE p # first
    <3>1. first \in Earlier
      BY <1>4, <1>5
    <3>2. Before(first, p)
      BY <1>3, <1>4, <1>6, <1>7, <2>2, <3>1
    <3> QED
      BY <1>5, <1>7, <3>2
  <2> QED
    BY <2>1, <2>2
<1> QED
  BY <1>1, <1>5, <1>7, <1>8, <1>9

(* A number that changes is reported, when no message of another author has *)
(* the numbers or the wording of a value anywhere in it: for any wording,   *)
(* any similarity and any number of statements in between.                  *)
THEOREM FlipsAreReported == Spec => []FlipNotHidden
<1>1. IsTranscript(messages) => FlipNotHidden
  <2> SUFFICES ASSUME IsTranscript(messages), NEW subject \in Subjects(messages),
                      \A p, q \in Occurrences(messages, subject) :
                         Comparable(ValueAt(messages, p), ValueAt(messages, q)),
                      NEW a \in Occurrences(messages, subject),
                      NEW b \in Occurrences(messages, subject),
                      NumbersDiffer(ValueAt(messages, a), ValueAt(messages, b)),
                      \A i \in AuthoredAt(messages) :
                         \A p \in Occurrences(messages, subject) :
                            ~Supplies(messages[i].text, ValueAt(messages, p))
               PROVE  \E f \in Contradictions(messages) : f.about[1] = subject
    BY DEF FlipNotHidden
  <2> DEFINE said == Occurrences(messages, subject)
             shown == [p \in said |-> ValueAt(messages, p).numbers]
  <2>1. /\ shown[a] # shown[b]
        /\ \A p \in said : shown[p] = ValueAt(messages, p).numbers
    BY DEF NumbersDiffer
  <2> HIDE DEF shown
  <2>2. PICK p, q \in said : Consecutive(said, p, q) /\ shown[p] # shown[q]
    BY <2>1, NeighboursDiffer
  <2>3. NumbersDiffer(ValueAt(messages, p), ValueAt(messages, q))
    BY <2>1, <2>2 DEF NumbersDiffer
  <2>4. ~UserSuppliedValue(messages, p, q)
    BY DEF UserSuppliedValue
  <2>5. PICK pair \in said \X said : pair[1] = p /\ pair[2] = q
    BY <<p, q>> \in said \X said
  <2>6. pair \in ContradictedPairs(messages, said)
    BY <2>2, <2>3, <2>4, <2>5 DEF ContradictedPairs, Conflicts
  <2> DEFINE Found(r) ==
               Finding("contradiction", <<subject, r[1], r[2]>>,
                       {messages[r[1][1]].number, messages[r[2][1]].number},
                       ContradictionConfidence(ValueAt(messages, r[1]),
                                               ValueAt(messages, r[2])))
             found == Found(pair)
  <2>7. found \in Contradictions(messages)
    <3>1. {Found(r) : r \in ContradictedPairs(messages, said)}
             \subseteq Contradictions(messages)
      BY DEF Contradictions
    <3> HIDE DEF Found
    <3> QED
      BY <2>6, <3>1
  <2>8. found.about[1] = subject
    BY DEF Finding
  <2> QED
    BY <2>7, <2>8
<1> QED
  BY <1>1, SessionInv, PTL

(***************************************************************************)
(* What the detectors report: finitely many findings, each of their own    *)
(* type and with a confidence that is a ratio.                             *)
(***************************************************************************)
Reports(F, type) ==
    /\ IsFiniteSet(F)
    /\ \A f \in F : f.type = type /\ f.confidence \in 0 .. 1000

(* One finding for each element of a set, of a detector's own type.         *)
Each(g, S) == {g[x] : x \in S}
Reporting(g, S, type) ==
    /\ IsFiniteSet(S)
    /\ \A x \in S : g[x].type = type /\ g[x].confidence \in 0 .. 1000

(* A detector that reports one finding for each element of a finite set     *)
(* reports its type only.                                                   *)
LEMMA ReportsOf ==
    \A g, S, type : Reporting(g, S, type) => Reports(Each(g, S), type)
<1> SUFFICES ASSUME NEW g, NEW S, NEW type, Reporting(g, S, type)
             PROVE  Reports(Each(g, S), type)
  OBVIOUS
<1>1. IsFiniteSet(Each(g, S))
  BY ONLY Reporting(g, S, type), ImageFinite DEF Reporting, Each
<1>2. \A f \in Each(g, S) : f.type = type /\ f.confidence \in 0 .. 1000
  BY ONLY Reporting(g, S, type) DEF Reporting, Each
<1> QED
  BY ONLY <1>1, <1>2 DEF Reports

(* A detector whose findings are those of finitely many parts.              *)
LEMMA ReportsUnited ==
    ASSUME NEW S, IsFiniteSet(S), NEW G, NEW type,
           \A x \in S : Reports(G[x], type)
    PROVE  Reports(UNION {G[x] : x \in S}, type)
<1>1. IsFiniteSet({G[x] : x \in S})
  BY ImageFinite
<1>2. \A F \in {G[x] : x \in S} : IsFiniteSet(F)
  BY DEF Reports
<1>3. IsFiniteSet(UNION {G[x] : x \in S})
  BY <1>1, <1>2, FS_UNION
<1> QED
  BY <1>3 DEF Reports

(* Rounding a quotient of natural numbers gives one.                        *)
LEMMA RoundedIsNatural ==
    ASSUME NEW n \in Nat, NEW d \in Nat \ {0}
    PROVE  Rounded(n, d) \in Nat
<1>1. 2 * n + d \in Nat /\ 2 * d \in Nat \ {0}
  OBVIOUS
<1> QED
  BY <1>1, QuotientBounds DEF Rounded

(* Any two texts are similar to some degree.                                *)
LEMMA TextsCompared == \A a, b \in Texts : Similarity(a, b) \in 0 .. 1000
  BY ONLY DetectionAssumption DEF DetectionAssumption

(* A capped number of thousandths is a ratio.                               *)
LEMMA CappedConfidence ==
    \A cap, n : cap \in 0 .. 1000 /\ n \in Nat => Min({cap, n}) \in 0 .. 1000
<1> SUFFICES ASSUME NEW cap, NEW n, cap \in 0 .. 1000 /\ n \in Nat
             PROVE  Min({cap, n}) \in 0 .. 1000
  OBVIOUS
<1>1. PICK least : least = Min({cap, n})
  OBVIOUS
<1>2. cap \in Int /\ n \in Int /\ 0 <= cap /\ cap <= 1000 /\ 0 <= n
  OBVIOUS
<1>3. least \in {cap, n} /\ least <= cap
  BY ONLY <1>1, <1>2, MinOfTwo
<1>4. least \in 0 .. 1000
  BY ONLY <1>2, <1>3
<1> QED
  BY ONLY <1>1, <1>4

(* The parts of a transcript are finite.                                    *)
LEMMA TranscriptParts ==
    ASSUME NEW ms, IsTranscript(ms)
    PROVE  /\ Len(ms) \in Nat /\ DOMAIN ms = 1 .. Len(ms)
           /\ IsFiniteSet(DOMAIN ms)
           /\ IsFiniteSet(AssistantAt(ms)) /\ AssistantAt(ms) \subseteq DOMAIN ms
           /\ IsFiniteSet(AuthoredAt(ms)) /\ AuthoredAt(ms) \subseteq DOMAIN ms
           /\ \A i \in DOMAIN ms :
                /\ ms[i].text \in Texts /\ ms[i].number \in Nat
                /\ IsText(ms[i].text)
                /\ IsFiniteSet(DOMAIN ms[i].calls)
<1>1. /\ Len(ms) \in Nat /\ DOMAIN ms = 1 .. Len(ms)
      /\ IsFiniteSet(DOMAIN ms)
  BY SequenceOf DEF IsTranscript
<1>2. /\ AssistantAt(ms) \in SUBSET DOMAIN ms /\ AuthoredAt(ms) \in SUBSET DOMAIN ms
  BY DEF AssistantAt, AuthoredAt
<1>3. IsFiniteSet(AssistantAt(ms)) /\ IsFiniteSet(AuthoredAt(ms))
  BY <1>1, <1>2, FS_Subset
<1>4. ASSUME NEW i \in DOMAIN ms
      PROVE  /\ ms[i].text \in Texts /\ ms[i].number \in Nat
             /\ IsText(ms[i].text)
             /\ IsFiniteSet(DOMAIN ms[i].calls)
  <2>1. ms[i].text \in Texts /\ ms[i].number \in Nat /\ IsSequence(ms[i].calls)
    BY DEF IsTranscript
  <2> QED
    BY <2>1, SequenceOf, DetectionAssumption
<1> QED
  BY <1>1, <1>2, <1>3, <1>4

(* A transcript has finitely many subjects and statements.                  *)
LEMMA StatementParts ==
    ASSUME NEW ms, IsTranscript(ms)
    PROVE  /\ IsFiniteSet(Subjects(ms))
           /\ \A subject : /\ IsFiniteSet(Occurrences(ms, subject))
                           /\ \A p \in Occurrences(ms, subject) :
                                ValueAt(ms, p) \in Values
<1> DEFINE In == [i \in AssistantAt(ms) |-> {i} \X DOMAIN ms[i].text.statements]
<1>1. IsFiniteSet(StatementsIn(ms))
  <2>1. ASSUME NEW i \in AssistantAt(ms) PROVE IsFiniteSet(In[i])
    <3>1. IsText(ms[i].text)
      BY TranscriptParts
    <3>2. IsFiniteSet(DOMAIN ms[i].text.statements)
      BY <3>1, SequenceOf DEF IsText
    <3>3. IsFiniteSet({i})
      BY FS_Singleton
    <3> QED
      BY <3>2, <3>3, FS_Product
  <2>2. StatementsIn(ms) = UNION {In[i] : i \in AssistantAt(ms)}
    BY DEF StatementsIn
  <2> HIDE DEF In
  <2>3. IsFiniteSet({In[i] : i \in AssistantAt(ms)})
    BY TranscriptParts, ImageFinite
  <2>4. \A T \in {In[i] : i \in AssistantAt(ms)} : IsFiniteSet(T)
    BY <2>1
  <2> QED
    BY <2>2, <2>3, <2>4, FS_UNION
<1>2. IsFiniteSet(Subjects(ms))
  <2> DEFINE g == [p \in StatementsIn(ms) |-> StatementAt(ms, p).subject]
  <2>1. Subjects(ms) = {g[p] : p \in StatementsIn(ms)}
    BY DEF Subjects
  <2> HIDE DEF g
  <2> QED
    BY <1>1, <2>1, ImageFinite
<1>3. ASSUME NEW subject
      PROVE  IsFiniteSet(Occurrences(ms, subject))
  <2>1. Occurrences(ms, subject) \in SUBSET StatementsIn(ms)
    BY DEF Occurrences
  <2> QED
    BY <1>1, <2>1, FS_Subset
<1>4. ASSUME NEW subject, NEW p \in Occurrences(ms, subject)
      PROVE  ValueAt(ms, p) \in Values
  <2>1. p[1] \in DOMAIN ms /\ p[2] \in DOMAIN ms[p[1]].text.statements
    BY OccurrenceAt
  <2>2. ms[p[1]].text \in Texts
    BY <2>1, TranscriptParts
  <2>3. StatementAt(ms, p) \in ToSet(ms[p[1]].text.statements)
    BY <2>1 DEF StatementAt, ToSet
  <2>4. ValueAt(ms, p) \in ValuesIn(ms[p[1]].text)
    BY <2>3 DEF ValueAt, ValuesIn
  <2> QED
    BY <2>2, <2>4 DEF Values
<1> QED
  BY <1>2, <1>3, <1>4

(* The findings of the contradiction detector are well formed.              *)
LEMMA ContradictionReports ==
    ASSUME NEW ms, IsTranscript(ms)
    PROVE  Reports(Contradictions(ms), "contradiction")
<1> DEFINE Pairs(subject) == ContradictedPairs(ms, Occurrences(ms, subject))
           Confidence(pair) == ContradictionConfidence(ValueAt(ms, pair[1]),
                                                       ValueAt(ms, pair[2]))
           Found(subject) ==
             [pair \in Pairs(subject) |->
                Finding("contradiction", <<subject, pair[1], pair[2]>>,
                        {ms[pair[1][1]].number, ms[pair[2][1]].number},
                        Confidence(pair))]
           Of == [subject \in Subjects(ms) |->
                    {Found(subject)[pair] : pair \in Pairs(subject)}]
<1>1. Contradictions(ms) = UNION {Of[subject] : subject \in Subjects(ms)}
  BY DEF Contradictions
<1>2. ASSUME NEW v \in Values, NEW w \in Values
      PROVE  ContradictionConfidence(v, w) \in 0 .. 1000
  <2>1. PICK d \in Nat : d = Difference(v, w)
    <3>1. Similarity(v, w) \in 0 .. 1000
      BY DetectionAssumption
    <3> QED
      BY <3>1 DEF Difference
  <2>2. PICK base \in Nat, one \in Nat \ {0}, cap \in 0 .. 1000 :
          base = 500000 /\ one = 1000 /\ cap = 850
    BY SMT
  <2>3. PICK n \in Nat : n = base + 350 * d
    BY SMT
  <2>4. PICK r \in Nat : r = Rounded(n, one)
    <3>1. Rounded(n, one) \in Nat
      BY RoundedIsNatural
    <3> QED
      BY <3>1
  <2>5. Min({cap, r}) \in 0 .. 1000
    BY ONLY cap \in 0 .. 1000 /\ r \in Nat, CappedConfidence, ZenonT(60)
  <2> QED
    BY <2>1, <2>2, <2>3, <2>4, <2>5, SMT DEF ContradictionConfidence
<1>3. ASSUME NEW subject \in Subjects(ms)
      PROVE  Reports(Of[subject], "contradiction")
  <2>1. IsFiniteSet(Pairs(subject))
    <3>1. Pairs(subject) \in SUBSET (Occurrences(ms, subject)
                                       \X Occurrences(ms, subject))
      BY DEF ContradictedPairs
    <3>2. IsFiniteSet(Occurrences(ms, subject) \X Occurrences(ms, subject))
      BY StatementParts, FS_Product
    <3> QED
      BY <3>1, <3>2, FS_Subset
  <2>2. ASSUME NEW pair \in Pairs(subject)
        PROVE  /\ Found(subject)[pair].type = "contradiction"
               /\ Found(subject)[pair].confidence \in 0 .. 1000
    <3>1. /\ pair[1] \in Occurrences(ms, subject)
          /\ pair[2] \in Occurrences(ms, subject)
      BY DEF ContradictedPairs
    <3>2. ValueAt(ms, pair[1]) \in Values /\ ValueAt(ms, pair[2]) \in Values
      BY <3>1, StatementParts
    <3>3. Confidence(pair) \in 0 .. 1000
      BY <1>2, <3>2
    <3> HIDE DEF Confidence, Pairs
    <3> QED
      BY <3>3 DEF Finding
  <2> HIDE DEF Pairs, Found
  <2>3. Reports({Found(subject)[pair] : pair \in Pairs(subject)}, "contradiction")
    <3>1. Reporting(Found(subject), Pairs(subject), "contradiction")
      BY ONLY <2>1, <2>2 DEF Reporting
    <3>2. Reports(Each(Found(subject), Pairs(subject)), "contradiction")
      BY ONLY <3>1, ReportsOf
    <3> QED
      BY ONLY <3>2 DEF Each
  <2> QED
    BY <2>3
<1> HIDE DEF Of
<1>4. IsFiniteSet(Subjects(ms))
  BY StatementParts
<1>5. Reports(UNION {Of[subject] : subject \in Subjects(ms)}, "contradiction")
  BY <1>3, <1>4, ReportsUnited
<1> QED
  BY <1>1, <1>5

(* The findings of the stale-context detector are well formed.              *)
LEMMA StaleContextReports ==
    ASSUME NEW ms, IsTranscript(ms)
    PROVE  Reports(StaleContext(ms), "stale_context")
<1> DEFINE S == {s \in Subjects(ms) : TurnsSince(ms, s) >= STALENESS_TURN_THRESHOLD}
           Confidence(s) == Min({700, Rounded(700 * TurnsSince(ms, s),
                                              2 * STALENESS_TURN_THRESHOLD)})
           Found == [s \in S |-> Finding("stale_context", s, {LastStated(ms, s)},
                                         Confidence(s))]
<1>1. IsFiniteSet(S)
  <2>1. S \in SUBSET Subjects(ms)
    OBVIOUS
  <2> QED
    BY <2>1, StatementParts, FS_Subset
<1>2. ASSUME NEW s \in S
      PROVE  Found[s].type = "stale_context" /\ Found[s].confidence \in 0 .. 1000
  <2>1. PICK limit \in Nat \ {0} : limit = STALENESS_TURN_THRESHOLD
    BY DetectionAssumption
  <2>2. PICK turns \in Nat : turns = TurnsSince(ms, s)
    <3>1. s \in Subjects(ms) /\ TurnsSince(ms, s) >= STALENESS_TURN_THRESHOLD
      OBVIOUS
    <3>2. PICK p \in Occurrences(ms, s) : TRUE
      BY <3>1 DEF Subjects, Occurrences
    <3>3. /\ StatedAt(ms, s) \subseteq DOMAIN ms /\ StatedAt(ms, s) # {}
          /\ AssistantAt(ms) # {}
      BY <3>2, OccurrenceAt DEF StatedAt
    <3>4. PICK last \in Int : last = Len(ms) /\ DOMAIN ms = 1 .. last
      BY TranscriptParts
    <3>5. /\ StatedAt(ms, s) \in SUBSET Int
          /\ \A y \in StatedAt(ms, s) : y <= last
      BY <3>3, <3>4
    <3>6. AssistantAt(ms) \in SUBSET Int /\ \A y \in AssistantAt(ms) : y <= last
      BY <3>4 DEF AssistantAt
    <3>7. Max(StatedAt(ms, s)) \in DOMAIN ms
      BY <3>3, <3>5, MaxIs
    <3>8. Max(AssistantAt(ms)) \in DOMAIN ms
      BY <3>3, <3>6, MaxIs DEF AssistantAt
    <3>9. /\ ms[Max(StatedAt(ms, s))].number \in Nat
          /\ ms[Max(AssistantAt(ms))].number \in Nat
      BY <3>7, <3>8, TranscriptParts
    <3>10. TurnsSince(ms, s) \in Int
      BY <3>9 DEF TurnsSince, LastStated
    <3>11. PICK t \in Int : t = TurnsSince(ms, s)
      BY <3>10
    <3> QED
      BY <2>1, <3>1, <3>11
  <2>3. PICK n \in Nat, d \in Nat \ {0}, cap \in 0 .. 1000 :
          n = 700 * turns /\ d = 2 * limit /\ cap = 700
    BY SMT
  <2>4. Rounded(n, d) \in Nat
    BY RoundedIsNatural
  <2>5. Min({cap, Rounded(n, d)}) \in 0 .. 1000
    BY <2>4, CappedConfidence, ZenonT(60)
  <2>6. Confidence(s) \in 0 .. 1000
    BY <2>1, <2>2, <2>3, <2>5
  <2> HIDE DEF Confidence, S
  <2> QED
    BY <2>6 DEF Finding
<1>3. StaleContext(ms) = {} \/ StaleContext(ms) = {Found[s] : s \in S}
  BY DEF StaleContext
<1> HIDE DEF S, Found
<1>4. Reports({Found[s] : s \in S}, "stale_context")
  <2>1. Reporting(Found, S, "stale_context")
    BY ONLY <1>1, <1>2 DEF Reporting
  <2>2. Reports(Each(Found, S), "stale_context")
    BY ONLY <2>1, ReportsOf
  <2> QED
    BY ONLY <2>2 DEF Each
<1>5. Reports({}, "stale_context")
  BY FS_EmptySet DEF Reports
<1> QED
  BY <1>3, <1>4, <1>5

(* The findings of the fact-loss detector are well formed.                  *)
LEMMA FactLossReports ==
    ASSUME NEW ms, IsTranscript(ms)
    PROVE  Reports(FactLoss(ms), "fact_loss")
<1> DEFINE Confidence(s, i) ==
             IF AskedBetween(ms, s, Established(ms, s), i) THEN 700 ELSE 550
           Found(s) ==
             [i \in HedgedAbout(ms, s) |->
                Finding("fact_loss", <<s, i>>,
                        {ms[Established(ms, s)].number, ms[i].number},
                        Confidence(s, i))]
           Of == [s \in Subjects(ms) |-> {Found(s)[i] : i \in HedgedAbout(ms, s)}]
<1>1. FactLoss(ms) = UNION {Of[s] : s \in Subjects(ms)}
  BY DEF FactLoss
<1>2. ASSUME NEW s \in Subjects(ms)
      PROVE  Reports(Of[s], "fact_loss")
  <2>1. IsFiniteSet(HedgedAbout(ms, s))
    <3>1. HedgedAbout(ms, s) \in SUBSET AssistantAt(ms)
      BY DEF HedgedAbout
    <3> QED
      BY <3>1, TranscriptParts, FS_Subset
  <2>2. ASSUME NEW i \in HedgedAbout(ms, s)
        PROVE  /\ Found(s)[i].type = "fact_loss"
               /\ Found(s)[i].confidence \in 0 .. 1000
    <3>1. Confidence(s, i) \in 0 .. 1000
      OBVIOUS
    <3> HIDE DEF Confidence
    <3> QED
      BY <3>1 DEF Finding
  <2> HIDE DEF Found
  <2>3. Reports({Found(s)[i] : i \in HedgedAbout(ms, s)}, "fact_loss")
    <3>1. Reporting(Found(s), HedgedAbout(ms, s), "fact_loss")
      BY ONLY <2>1, <2>2 DEF Reporting
    <3>2. Reports(Each(Found(s), HedgedAbout(ms, s)), "fact_loss")
      BY ONLY <3>1, ReportsOf
    <3> QED
      BY ONLY <3>2 DEF Each
  <2> QED
    BY <2>3
<1> HIDE DEF Of
<1>3. IsFiniteSet(Subjects(ms))
  BY StatementParts
<1>4. Reports(UNION {Of[s] : s \in Subjects(ms)}, "fact_loss")
  BY <1>2, <1>3, ReportsUnited
<1> QED
  BY <1>1, <1>4

(* The findings of the omission detector are well formed.                   *)
LEMMA OmissionReports ==
    ASSUME NEW ms, IsTranscript(ms)
    PROVE  Reports(Omissions(ms), "omission")
<1> DEFINE Confidence(p) ==
             IF Overlap(ms, p[1], p[2]) >= STRONG_OVERLAP_THRESHOLD
             THEN 700 ELSE 500
           Found == [p \in Omitted(ms) |->
                       Finding("omission", p,
                               {ms[p[1]].number, ms[p[2]].number,
                                ms[Min(Replies(ms, p[2]))].number},
                               Confidence(p))]
<1>1. IsFiniteSet(Omitted(ms))
  <2>1. Omitted(ms) \in SUBSET (MarkedAt(ms) \X DOMAIN ms)
    BY DEF Omitted
  <2>2. MarkedAt(ms) \in SUBSET AuthoredAt(ms)
    BY DEF MarkedAt
  <2>3. IsFiniteSet(MarkedAt(ms)) /\ IsFiniteSet(DOMAIN ms)
    BY <2>2, TranscriptParts, FS_Subset
  <2>4. IsFiniteSet(MarkedAt(ms) \X DOMAIN ms)
    BY <2>3, FS_Product
  <2> QED
    BY <2>1, <2>4, FS_Subset
<1>2. ASSUME NEW p \in Omitted(ms)
      PROVE  Found[p].type = "omission" /\ Found[p].confidence \in 0 .. 1000
  <2>1. Confidence(p) \in 0 .. 1000
    OBVIOUS
  <2> HIDE DEF Confidence
  <2> QED
    BY <2>1 DEF Finding
<1>3. Omissions(ms) = {} \/ Omissions(ms) = {Found[p] : p \in Omitted(ms)}
  BY DEF Omissions
<1> HIDE DEF Found
<1>4. Reports({Found[p] : p \in Omitted(ms)}, "omission")
  <2>1. Reporting(Found, Omitted(ms), "omission")
    BY ONLY <1>1, <1>2 DEF Reporting
  <2>2. Reports(Each(Found, Omitted(ms)), "omission")
    BY ONLY <2>1, ReportsOf
  <2> QED
    BY ONLY <2>2 DEF Each
<1>5. Reports({}, "omission")
  BY FS_EmptySet DEF Reports
<1> QED
  BY <1>3, <1>4, <1>5

(* The findings of the instruction-drift detector are well formed.          *)
LEMMA InstructionDriftReports ==
    ASSUME NEW ms, IsTranscript(ms)
    PROVE  Reports(InstructionDrift(ms), "instruction_drift")
<1> DEFINE Term(d) == ms[d[1]].text.forbids[d[2]]
           Confidence(d, j) == Min({900, 500 + 100 * TimesSaid(ms[j].text, Term(d))})
           Found(d) ==
             [j \in Violations(ms, d[1], Term(d)) |->
                Finding("instruction_drift", <<d[1], d[2], j>>,
                        {ms[d[1]].number, ms[j].number}, Confidence(d, j))]
           Of == [d \in Directives(ms) |->
                    {Found(d)[j] : j \in Violations(ms, d[1], Term(d))}]
           In == [i \in AuthoredAt(ms) |-> {<<i, k>> : k \in DOMAIN ms[i].text.forbids}]
<1>1. InstructionDrift(ms) = UNION {Of[d] : d \in Directives(ms)}
  BY DEF InstructionDrift
<1>2. IsFiniteSet(Directives(ms))
  <2>1. ASSUME NEW i \in AuthoredAt(ms) PROVE IsFiniteSet(In[i])
    <3>1. IsFiniteSet(DOMAIN ms[i].text.forbids)
      BY TranscriptParts, SequenceOf DEF IsText
    <3>2. IsFiniteSet({i})
      BY FS_Singleton
    <3>3. IsFiniteSet({i} \X DOMAIN ms[i].text.forbids)
      BY <3>1, <3>2, FS_Product
    <3>4. In[i] \in SUBSET ({i} \X DOMAIN ms[i].text.forbids)
      OBVIOUS
    <3> QED
      BY <3>3, <3>4, FS_Subset
  <2>2. Directives(ms) = UNION {In[i] : i \in AuthoredAt(ms)}
    BY DEF Directives
  <2> HIDE DEF In
  <2>3. IsFiniteSet({In[i] : i \in AuthoredAt(ms)})
    BY TranscriptParts, ImageFinite
  <2>4. \A T \in {In[i] : i \in AuthoredAt(ms)} : IsFiniteSet(T)
    BY <2>1
  <2> QED
    BY <2>2, <2>3, <2>4, FS_UNION
<1> HIDE DEF In
<1>3. ASSUME NEW d \in Directives(ms)
      PROVE  Reports(Of[d], "instruction_drift")
  <2> DEFINE V == Violations(ms, d[1], Term(d))
  <2>1. V \in SUBSET AssistantAt(ms)
    BY DEF Violations
  <2>2. IsFiniteSet(V)
    BY <2>1, TranscriptParts, FS_Subset
  <2>3. ASSUME NEW j \in V
        PROVE  /\ Found(d)[j].type = "instruction_drift"
               /\ Found(d)[j].confidence \in 0 .. 1000
    <3> DEFINE said == TimesSaid(ms[j].text, Term(d))
               grown == 500 + 100 * said
               cap == 900
    <3>1. said \in Nat
      <4> DEFINE T == {k \in DOMAIN ms[j].text.terms : ms[j].text.terms[k] = Term(d)}
      <4>1. IsFiniteSet(DOMAIN ms[j].text.terms)
        BY <2>1, TranscriptParts, SequenceOf DEF IsText
      <4>2. T \in SUBSET DOMAIN ms[j].text.terms
        OBVIOUS
      <4>3. IsFiniteSet(T)
        BY <4>1, <4>2, FS_Subset
      <4>4. Cardinality(T) \in Nat
        BY <4>3, FS_CardinalityType
      <4> QED
        BY <4>4 DEF TimesSaid
    <3> HIDE DEF Term, said
    <3>2. cap \in 0 .. 1000 /\ grown \in Nat
      BY ONLY <3>1
    <3> HIDE DEF grown, cap
    <3>3. Min({cap, grown}) \in 0 .. 1000
      BY ONLY <3>2, CappedConfidence, ZenonT(60)
    <3>4. Confidence(d, j) \in 0 .. 1000
      BY ONLY <3>3 DEF Confidence, grown, said, cap
    <3> HIDE DEF Confidence, V
    <3>5. Found(d)[j] = Finding("instruction_drift", <<d[1], d[2], j>>,
                                {ms[d[1]].number, ms[j].number}, Confidence(d, j))
      BY DEF V
    <3> HIDE DEF Found
    <3> QED
      BY <3>4, <3>5 DEF Finding
  <2>4. Of[d] = {Found(d)[j] : j \in V}
    OBVIOUS
  <2> HIDE DEF V, Found, Of
  <2> QED
    <3>1. Reporting(Found(d), V, "instruction_drift")
      BY ONLY <2>2, <2>3 DEF Reporting
    <3>2. Reports(Each(Found(d), V), "instruction_drift")
      BY ONLY <3>1, ReportsOf
    <3> QED
      BY ONLY <3>2, <2>4 DEF Each
<1> HIDE DEF Of
<1>4. Reports(UNION {Of[d] : d \in Directives(ms)}, "instruction_drift")
  BY <1>2, <1>3, ReportsUnited
<1> QED
  BY <1>1, <1>4

(* The findings of the tool-result detector are well formed.                *)
LEMMA NeglectReports ==
    ASSUME NEW ms, IsTranscript(ms)
    PROVE  Reports(ToolResultNeglect(ms), "tool_result_misuse")
<1> DEFINE Of == [i \in DOMAIN ms |-> NeglectedBy(ms, i)]
<1>1. ToolResultNeglect(ms) = UNION {Of[i] : i \in DOMAIN ms}
  BY DEF ToolResultNeglect
<1>2. ASSUME NEW i \in DOMAIN ms
      PROVE  Reports(Of[i], "tool_result_misuse")
  <2> DEFINE S == {c \in AnsweredCalls(ms[i]) : Neglected(ms, i, ms[i].calls[c])}
             Confidence(c) == IF ms[i].calls[c].is_error THEN 700 ELSE 500
             Found == [c \in S |->
                         Finding("tool_result_misuse", <<i, c>>,
                                 {ms[i].number, ms[Min(FollowUps(ms, i))].number},
                                 Confidence(c))]
  <2>1. S \in SUBSET DOMAIN ms[i].calls
    BY DEF AnsweredCalls
  <2>2. IsFiniteSet(S)
    BY <2>1, TranscriptParts, FS_Subset
  <2>3. Of[i] = {Found[c] : c \in S}
    BY DEF NeglectedBy
  <2> HIDE DEF S
  <2>4. ASSUME NEW c \in S
        PROVE  /\ Found[c].type = "tool_result_misuse"
               /\ Found[c].confidence \in 0 .. 1000
    <3>1. Confidence(c) \in 0 .. 1000
      OBVIOUS
    <3> HIDE DEF Confidence
    <3> QED
      BY <3>1 DEF Finding
  <2> HIDE DEF Found, Of
  <2> QED
    <3>1. Reporting(Found, S, "tool_result_misuse")
      BY ONLY <2>2, <2>4 DEF Reporting
    <3>2. Reports(Each(Found, S), "tool_result_misuse")
      BY ONLY <3>1, ReportsOf
    <3> QED
      BY ONLY <3>2, <2>3 DEF Each
<1> HIDE DEF Of
<1>3. Reports(UNION {Of[i] : i \in DOMAIN ms}, "tool_result_misuse")
  <2>1. IsFiniteSet(DOMAIN ms)
    BY TranscriptParts
  <2> QED
    BY <1>2, <2>1, ReportsUnited
<1> QED
  BY <1>1, <1>3

(* The findings of the repetition detector are well formed.                 *)
LEMMA RepetitionReports ==
    ASSUME NEW ms, IsTranscript(ms)
    PROVE  Reports(Repetitions(ms), "repetition")
<1> DEFINE Prior(i) == Min(Priors(ms, i))
           Confidence(i) == Similarity(ms[Prior(i)].text, ms[i].text)
           Found == [i \in RepeatedAt(ms) |->
                       Finding("repetition", i, {ms[Prior(i)].number, ms[i].number},
                               Confidence(i))]
<1>1. RepeatedAt(ms) \in SUBSET DOMAIN ms
  BY DEF RepeatedAt
<1>2. IsFiniteSet(RepeatedAt(ms))
  BY <1>1, TranscriptParts, FS_Subset
<1>3. ASSUME NEW i \in RepeatedAt(ms)
      PROVE  Found[i].type = "repetition" /\ Found[i].confidence \in 0 .. 1000
  <2>1. PICK last \in Nat : last = Len(ms) /\ DOMAIN ms = 1 .. last
    BY TranscriptParts
  <2>2. i \in 1 .. last /\ LOOKBACK_WINDOW \in Nat
    BY <1>1, <2>1, DetectionAssumption
  <2>3. 1 \in Int /\ i - LOOKBACK_WINDOW \in Int
    BY <2>2
  <2>4. PICK first : first = Max({1, i - LOOKBACK_WINDOW})
    OBVIOUS
  <2>5. first \in {1, i - LOOKBACK_WINDOW} /\ 1 <= first
    BY ONLY <2>3, <2>4, MaxOfTwo
  <2>6. Priors(ms, i) \subseteq first .. i - 1
    BY <2>4 DEF Priors
  <2>7. Priors(ms, i) \subseteq DOMAIN ms
    BY <2>1, <2>2, <2>3, <2>5, <2>6
  <2>8. Priors(ms, i) \in SUBSET Nat /\ Priors(ms, i) # {}
    BY <2>1, <2>7 DEF RepeatedAt
  <2>9. Prior(i) \in DOMAIN ms
    BY <2>7, <2>8, MinIs
  <2>10. ms[Prior(i)].text \in Texts /\ ms[i].text \in Texts
    BY <1>1, <2>9, TranscriptParts
  <2>11. Confidence(i) \in 0 .. 1000
    <3>1. PICK a, b : a = ms[Prior(i)].text /\ b = ms[i].text
      OBVIOUS
    <3>2. a \in Texts /\ b \in Texts
      BY ONLY <2>10, <3>1
    <3>3. Similarity(a, b) \in 0 .. 1000
      BY ONLY <3>2, TextsCompared
    <3> QED
      BY ONLY <3>1, <3>3 DEF Confidence
  <2> HIDE DEF Confidence
  <2> QED
    BY <2>11 DEF Finding
<1>4. Repetitions(ms) = {Found[i] : i \in RepeatedAt(ms)}
  BY DEF Repetitions
<1> HIDE DEF Found
<1> QED
  <2>1. Reporting(Found, RepeatedAt(ms), "repetition")
    BY ONLY <1>2, <1>3 DEF Reporting
  <2>2. Reports(Each(Found, RepeatedAt(ms)), "repetition")
    BY ONLY <2>1, ReportsOf
  <2> QED
    BY ONLY <2>2, <1>4 DEF Each

(* The words of a window, and of all windows before it, are finitely many.  *)
LEMMA WindowParts ==
    ASSUME NEW ms, IsTranscript(ms), NEW w \in Windows(ms)
    PROVE  /\ \A v \in 1 .. w : IsFiniteSet(WindowWords(ms, v))
           /\ IsFiniteSet(EstablishedWords(ms, w))
           /\ w \in Nat
<1>1. w \in Nat /\ 1 <= w
  <2>1. Len(ms) \div WINDOW_SIZE \in Nat
    <3>1. Len(ms) \in Nat /\ WINDOW_SIZE \in Nat \ {0}
      BY TranscriptParts, DetectionAssumption
    <3> QED
      BY <3>1, QuotientBounds
  <2> QED
    BY <2>1 DEF Windows
<1>2. ASSUME NEW v \in 1 .. w
      PROVE  IsFiniteSet(WindowWords(ms, v))
  <2> DEFINE words == [i \in WindowOf(v) |-> ms[i].text.words]
  <2>1. WindowOf(v) \in SUBSET DOMAIN ms
    BY WindowInside
  <2>2. IsFiniteSet(WindowOf(v))
    BY <2>1, TranscriptParts, FS_Subset
  <2>3. ASSUME NEW i \in WindowOf(v) PROVE IsFiniteSet(words[i])
    <3>1. IsText(ms[i].text)
      BY <2>1, TranscriptParts
    <3> QED
      BY <3>1 DEF IsText
  <2>4. WindowWords(ms, v) = UNION {words[i] : i \in WindowOf(v)}
    BY DEF WindowWords
  <2> HIDE DEF words
  <2>5. IsFiniteSet({words[i] : i \in WindowOf(v)})
    BY <2>2, ImageFinite
  <2>6. \A T \in {words[i] : i \in WindowOf(v)} : IsFiniteSet(T)
    BY <2>3
  <2> QED
    BY <2>4, <2>5, <2>6, FS_UNION
<1>3. IsFiniteSet(EstablishedWords(ms, w))
  <2> DEFINE words == [v \in 1 .. w - 1 |-> WindowWords(ms, v)]
  <2>1. PICK last \in Int : last = w - 1
    BY <1>1
  <2>2. 1 \in Int /\ last \in Int
    OBVIOUS
  <2>3. IsFiniteSet(1 .. last)
    BY ONLY <2>2, FS_Interval, Zenon
  <2>4. \A v \in 1 .. last : IsFiniteSet(words[v])
    BY <1>1, <1>2, <2>1
  <2>5. EstablishedWords(ms, w) = UNION {words[v] : v \in 1 .. last}
    BY <2>1 DEF EstablishedWords
  <2> HIDE DEF words
  <2>6. IsFiniteSet({words[v] : v \in 1 .. last})
    BY <2>3, ImageFinite
  <2>7. \A T \in {words[v] : v \in 1 .. last} : IsFiniteSet(T)
    BY <2>4
  <2> QED
    BY <2>5, <2>6, <2>7, FS_UNION
<1> QED
  BY <1>1, <1>2, <1>3

(* The findings of the topic-drift detector are well formed.                *)
LEMMA TopicDriftReports ==
    ASSUME NEW ms, IsTranscript(ms)
    PROVE  Reports(TopicDrift(ms), "topic_drift")
<1> DEFINE Confidence(w) == 600 - 3 * Continuity(ms, w)
           Found == [w \in DriftedWindows(ms) |->
                       Finding("topic_drift", w, {ms[i].number : i \in WindowOf(w)},
                               Confidence(w))]
<1>1. IsFiniteSet(DriftedWindows(ms))
  <2>1. PICK last \in Int : last = Len(ms) \div WINDOW_SIZE
    <3>1. Len(ms) \in Nat /\ WINDOW_SIZE \in Nat \ {0}
      BY TranscriptParts, DetectionAssumption
    <3> QED
      BY <3>1, QuotientBounds
  <2>2. 1 \in Int /\ last \in Int
    OBVIOUS
  <2>3. IsFiniteSet(1 .. last)
    BY ONLY <2>2, FS_Interval, Zenon
  <2>4. DriftedWindows(ms) \in SUBSET (1 .. last)
    BY <2>1 DEF DriftedWindows, Windows
  <2> QED
    BY <2>3, <2>4, FS_Subset
<1>2. ASSUME NEW w \in DriftedWindows(ms)
      PROVE  Found[w].type = "topic_drift" /\ Found[w].confidence \in 0 .. 1000
  <2>1. w \in Windows(ms) /\ Continuity(ms, w) < MIN_CONTINUITY_RATIO
    BY DEF DriftedWindows
  <2>2. PICK said, known : /\ said = WindowWords(ms, w)
                           /\ known = EstablishedWords(ms, w)
    OBVIOUS
  <2>3. IsFiniteSet(said) /\ IsFiniteSet(said \cap known)
    <3>1. w \in Nat /\ w \in 1 .. w
      BY <2>1, WindowParts DEF Windows
    <3>2. IsFiniteSet(said)
      BY <2>1, <2>2, <3>1, WindowParts
    <3> QED
      BY <3>2, FS_Intersection
  <2>4. Containment(said, known) \in Nat
    <3>1. CASE said = {}
      BY <3>1, SMT DEF Containment
    <3>2. CASE said # {}
      <4>1. Cardinality(said) \in Nat \ {0}
        BY <2>3, <3>2, FS_CardinalityType, FS_EmptySet
      <4>2. Cardinality(said \cap known) \in Nat
        BY <2>3, FS_CardinalityType
      <4>3. PICK n \in Nat : n = 1000 * Cardinality(said \cap known)
        BY <4>2, SMT
      <4>4. n \div Cardinality(said) \in Nat
        BY <4>1, QuotientBounds
      <4> QED
        BY <3>2, <4>3, <4>4, SMT DEF Containment
    <3> QED
      BY <3>1, <3>2
  <2>5. PICK c \in Nat : c = Continuity(ms, w) /\ c < 200
    BY <2>1, <2>2, <2>4 DEF Continuity, MIN_CONTINUITY_RATIO
  <2>6. 600 - 3 * c \in 0 .. 1000
    BY <2>5, SMT
  <2>7. Confidence(w) \in 0 .. 1000
    BY <2>5, <2>6
  <2> HIDE DEF Confidence
  <2> QED
    BY <2>7 DEF Finding
<1>3. TopicDrift(ms) = {Found[w] : w \in DriftedWindows(ms)}
  BY DEF TopicDrift
<1> HIDE DEF Found
<1> QED
  <2>1. Reporting(Found, DriftedWindows(ms), "topic_drift")
    BY ONLY <1>1, <1>2 DEF Reporting
  <2>2. Reports(Each(Found, DriftedWindows(ms)), "topic_drift")
    BY ONLY <2>1, ReportsOf
  <2> QED
    BY ONLY <2>2, <1>3 DEF Each

(* The sums of sizes and of their squares are natural numbers.              *)
LEMMA SizesAreNatural ==
    ASSUME NEW ms, IsTranscript(ms), NEW S \in SUBSET DOMAIN ms
    PROVE  SumOfSizes(ms, S) \in Nat /\ SumOfSquares(ms, S) \in Nat
<1> DEFINE f == [i \in S |-> ms[i].text.size]
           g == [i \in S |-> ms[i].text.size * ms[i].text.size]
<1>1. IsFiniteSet(S)
  BY TranscriptParts, FS_Subset
<1>2. ASSUME NEW i \in S PROVE f[i] \in Nat /\ g[i] \in Nat
  <2>1. IsText(ms[i].text)
    BY TranscriptParts
  <2>2. PICK size \in Nat : size = ms[i].text.size
    BY <2>1 DEF IsText
  <2>3. size * size \in Nat
    OBVIOUS
  <2> QED
    BY <2>2, <2>3
<1>3. /\ SumOfSizes(ms, S) = SumFunctionOnSet(f, S)
      /\ SumOfSquares(ms, S) = SumFunctionOnSet(g, S)
  BY DEF SumOfSizes, SumOfSquares, SumFunction
<1> HIDE DEF f, g
<1> QED
  BY <1>1, <1>2, <1>3, SumNatural

(* The findings of the behaviour-shift detector are well formed.            *)
LEMMA BehaviorShiftReports ==
    ASSUME NEW ms, IsTranscript(ms)
    PROVE  Reports(BehaviorShift(ms), "behavior_shift")
<1> DEFINE Found == [i \in Shifted(ms) |->
                       Finding("behavior_shift", i, {ms[i].number},
                               ShiftConfidence(ms, i))]
<1>1. IsFiniteSet(Shifted(ms))
  <2>1. Shifted(ms) \in SUBSET AssistantAt(ms)
    BY DEF Shifted
  <2> QED
    BY <2>1, TranscriptParts, FS_Subset
<1>2. ASSUME NEW i \in Shifted(ms)
      PROVE  Found[i].type = "behavior_shift" /\ Found[i].confidence \in 0 .. 1000
  <2>1. /\ i \in DOMAIN ms
        /\ 4 * (Deviation(ms, i) * Deviation(ms, i)) >= 25 * Spread(ms, i)
    BY DEF Shifted, AssistantAt
  <2>2. /\ Baseline(ms, i) \in SUBSET DOMAIN ms
        /\ IsFiniteSet(Baseline(ms, i))
    <3>1. Baseline(ms, i) \in SUBSET DOMAIN ms
      BY DEF Baseline, AssistantAt
    <3> QED
      BY <3>1, TranscriptParts, FS_Subset
  <2>3. PICK count \in Nat, sum \in Nat, squares \in Nat, size \in Nat :
          /\ count = Cardinality(Baseline(ms, i))
          /\ sum = SumOfSizes(ms, Baseline(ms, i))
          /\ squares = SumOfSquares(ms, Baseline(ms, i))
          /\ size = ms[i].text.size
    <3>1. ms[i].text.size \in Nat
      BY <2>1, TranscriptParts DEF IsText
    <3>2. Cardinality(Baseline(ms, i)) \in Nat
      BY <2>2, FS_CardinalityType
    <3> QED
      BY <2>2, <3>1, <3>2, SizesAreNatural
  <2>4. PICK d \in Int : d = Deviation(ms, i)
    BY <2>3 DEF Deviation
  <2>5. PICK s \in Int : s = Spread(ms, i)
    BY <2>3 DEF Spread
  <2>6. PICK dd \in Int, low \in Int, high \in Int, scale \in Int :
          dd = d * d /\ low = 500 /\ high = 750 /\ scale = 40000
    BY SMT
  <2>7. 4 * dd >= 25 * s
    BY <2>1, <2>4, <2>5, <2>6, SMT
  <2> DEFINE T == {n \in low .. high : (n * n) * s <= scale * dd}
  <2>8. low \in T
    BY <2>6, <2>7, SMT
  <2>9. \A y \in T : y \in Int /\ low <= y /\ y <= high
    OBVIOUS
  <2>10. ShiftConfidence(ms, i) = Max(T)
    BY <2>4, <2>5, <2>6, SMT DEF ShiftConfidence
  <2> HIDE DEF T
  <2>11. T \in SUBSET Int /\ T # {} /\ \A y \in T : y <= high
    BY <2>8, <2>9
  <2>12. Max(T) \in T
    BY <2>11, MaxIs
  <2>13. PICK most \in Int : most = Max(T) /\ low <= most /\ most <= high
    BY <2>9, <2>12
  <2>14. ShiftConfidence(ms, i) \in 0 .. 1000
    BY <2>6, <2>10, <2>13, SMT
  <2> QED
    BY <2>14 DEF Finding
<1>3. BehaviorShift(ms) = {Found[i] : i \in Shifted(ms)}
  BY DEF BehaviorShift
<1> HIDE DEF Found
<1> QED
  <2>1. Reporting(Found, Shifted(ms), "behavior_shift")
    BY ONLY <1>1, <1>2 DEF Reporting
  <2>2. Reports(Each(Found, Shifted(ms)), "behavior_shift")
    BY ONLY <2>1, ReportsOf
  <2> QED
    BY ONLY <2>2, <1>3 DEF Each

(* The findings of the context-growth detector are well formed.             *)
LEMMA ContextGrowthReports ==
    ASSUME NEW ms, IsTranscript(ms)
    PROVE  Reports(ContextGrowth(ms), "context_growth")
<1>1. Reports({}, "context_growth")
  BY FS_EmptySet DEF Reports
<1>2. CASE ContextGrowth(ms) # {}
  <2>1. PICK len \in Nat, window \in Nat, least \in Nat :
          /\ len = Len(ms) /\ DOMAIN ms = 1 .. len
          /\ window = RECENT_WINDOW /\ least = MIN_MESSAGES /\ window <= least
    BY TranscriptParts, DetectionAssumption
  <2> DEFINE history == Len(ms) - RECENT_WINDOW
             recent == SumOfSizes(ms, history + 1 .. Len(ms)) * history
             expected == 2 * SumOfSizes(ms, 1 .. history) * RECENT_WINDOW
             Confidence == Min({1000, Rounded(1000 * (recent - expected), expected)})
             found == Finding("context_growth", "session",
                              {ms[i].number : i \in history + 1 .. Len(ms)},
                              Confidence)
  <2>2. /\ ContextGrowth(ms) = {found}
        /\ Len(ms) >= MIN_MESSAGES /\ expected > 0 /\ recent > expected
    <3>1. ContextGrowth(ms) =
            IF Len(ms) >= MIN_MESSAGES /\ expected > 0 /\ recent > expected
            THEN {found} ELSE {}
      BY SMT DEF ContextGrowth
    <3> HIDE DEF recent, expected, found
    <3> QED
      BY <1>2, <3>1
  <2>3. PICK h \in Nat : h = history
    BY <2>1, <2>2
  <2>4. /\ (history + 1 .. Len(ms)) \subseteq DOMAIN ms
        /\ (1 .. history) \subseteq DOMAIN ms
    BY <2>1, <2>3
  <2>5. PICK late \in Nat, early \in Nat :
          /\ late = SumOfSizes(ms, history + 1 .. Len(ms))
          /\ early = SumOfSizes(ms, 1 .. history)
    BY <2>4, SizesAreNatural
  <2>6. PICK r \in Nat, e \in Nat : r = recent /\ e = expected
    BY <2>1, <2>3, <2>5
  <2> HIDE DEF recent, expected
  <2>7. PICK n \in Nat, one \in 0 .. 1000 : n = 1000 * (r - e) /\ one = 1000
    BY <2>2, <2>6, SMT
  <2>8. e \in Nat \ {0}
    BY <2>2, <2>6
  <2>9. PICK q \in Nat : q = Rounded(n, e)
    <3>1. Rounded(n, e) \in Nat
      BY <2>8, RoundedIsNatural
    <3> QED
      BY <3>1
  <2>10. Min({one, q}) \in 0 .. 1000
    <3>1. one \in 0 .. 1000 /\ q \in Nat
      OBVIOUS
    <3> QED
      BY ONLY <3>1, CappedConfidence, ZenonT(60)
  <2>11. Confidence \in 0 .. 1000
    BY <2>6, <2>7, <2>9, <2>10
  <2> HIDE DEF Confidence
  <2>12. found.type = "context_growth" /\ found.confidence \in 0 .. 1000
    BY <2>11 DEF Finding
  <2> HIDE DEF found
  <2>13. IsFiniteSet({found})
    BY FS_Singleton
  <2>14. Reports({found}, "context_growth")
    BY <2>12, <2>13 DEF Reports
  <2> QED
    BY <2>2, <2>14
<1> QED
  BY <1>1, <1>2

(* A finding's type is one of the types there are, and its confidence is a  *)
(* ratio in thousandths, whatever the session.                              *)
LEMMA FindingsReports ==
    ASSUME NEW ms, IsTranscript(ms)
    PROVE  /\ IsFiniteSet(AllFindings(ms))
           /\ \A f \in AllFindings(ms) : /\ f.type \in DetectionTypes
                                         /\ f.confidence \in 0 .. 1000
<1> DEFINE All == {ContextGrowth(ms), Repetitions(ms), Omissions(ms),
                   InstructionDrift(ms), Contradictions(ms), StaleContext(ms),
                   ToolResultNeglect(ms), TopicDrift(ms), BehaviorShift(ms),
                   FactLoss(ms)}
<1>1. \A F \in All : \E type \in DetectionTypes : Reports(F, type)
  BY ContextGrowthReports, RepetitionReports, OmissionReports,
     InstructionDriftReports, ContradictionReports, StaleContextReports,
     NeglectReports, TopicDriftReports, BehaviorShiftReports, FactLossReports,
     EvaluationAssumption
<1>2. IsFiniteSet(All)
  <2>1. IsFiniteSet({})
    BY FS_EmptySet
  <2>2. \A S, x : IsFiniteSet(S) => IsFiniteSet(S \cup {x})
    BY FS_AddElement
  <2>3. PICK a, b, c, d, e : /\ a = ContextGrowth(ms) /\ b = Repetitions(ms)
                             /\ c = Omissions(ms) /\ d = InstructionDrift(ms)
                             /\ e = Contradictions(ms)
    OBVIOUS
  <2>4. PICK k, l, m, n, o : /\ k = StaleContext(ms) /\ l = ToolResultNeglect(ms)
                             /\ m = TopicDrift(ms) /\ n = BehaviorShift(ms)
                             /\ o = FactLoss(ms)
    OBVIOUS
  <2>5. IsFiniteSet({a, b, c, d, e})
    <3>1. IsFiniteSet(((({} \cup {a}) \cup {b}) \cup {c}) \cup {d})
      BY <2>1, <2>2
    <3>2. IsFiniteSet((((({} \cup {a}) \cup {b}) \cup {c}) \cup {d}) \cup {e})
      BY <2>2, <3>1
    <3>3. (((({} \cup {a}) \cup {b}) \cup {c}) \cup {d}) \cup {e} = {a, b, c, d, e}
      OBVIOUS
    <3> QED
      BY <3>2, <3>3
  <2>6. IsFiniteSet({k, l, m, n, o})
    <3>1. IsFiniteSet(((({} \cup {k}) \cup {l}) \cup {m}) \cup {n})
      BY <2>1, <2>2
    <3>2. IsFiniteSet((((({} \cup {k}) \cup {l}) \cup {m}) \cup {n}) \cup {o})
      BY <2>2, <3>1
    <3>3. (((({} \cup {k}) \cup {l}) \cup {m}) \cup {n}) \cup {o} = {k, l, m, n, o}
      OBVIOUS
    <3> QED
      BY <3>2, <3>3
  <2>7. IsFiniteSet({a, b, c, d, e} \cup {k, l, m, n, o})
    BY <2>5, <2>6, FS_Union
  <2>8. All = {a, b, c, d, e} \cup {k, l, m, n, o}
    BY <2>3, <2>4
  <2> QED
    BY <2>7, <2>8
<1>3. AllFindings(ms) = UNION All
  BY DEF AllFindings
<1> HIDE DEF All
<1>4. \A F \in All : IsFiniteSet(F)
  BY <1>1 DEF Reports
<1>5. IsFiniteSet(UNION All)
  BY <1>2, <1>4, FS_UNION
<1>6. \A f \in UNION All : f.type \in DetectionTypes /\ f.confidence \in 0 .. 1000
  BY <1>1 DEF Reports
<1> QED
  BY <1>3, <1>5, <1>6

(***************************************************************************)
(* The harness                                                             *)
(***************************************************************************)
SoundScenario(s) == IsTranscript(s.messages) /\ s.expected \subseteq DetectionTypes

SoundResult(r) ==
    /\ r.scenario.expected \subseteq DetectionTypes
    /\ IsFiniteSet(r.signals)
    /\ EmittedTypes(r.signals) \subseteq DetectionTypes

(* What the report is made from.                                            *)
HarnessInv ==
    /\ IsSequence(scenarios) /\ IsSequence(results)
    /\ \A k \in DOMAIN scenarios : SoundScenario(scenarios[k])
    /\ \A k \in DOMAIN results : SoundResult(results[k])
    /\ metrics \in [DetectionTypes -> [Verdicts -> Nat]]
    /\ calibration \in [Buckets -> [signals : Nat, correct : Nat]]

ReportInv == HarnessInv /\ TotalsAddUp /\ EverySignalCalibrated

(* The edges of the calibration table, written out.                         *)
LEMMA EdgesAre ==
    /\ Buckets = {1, 2, 3, 4, 5, 6}
    /\ Edges[1] = 0 /\ Edges[2] = 500 /\ Edges[3] = 600 /\ Edges[4] = 700
    /\ Edges[5] = 800 /\ Edges[6] = 900 /\ Edges[7] = 1000
<1>1. Len(Edges) = 7
  BY SMT DEF Edges
<1>2. Buckets = 1 .. 6
  BY <1>1, SMT DEF Buckets
<1>3. 1 .. 6 = {1, 2, 3, 4, 5, 6}
  BY SMT
<1>4. /\ Edges[1] = 0 /\ Edges[2] = 500 /\ Edges[3] = 600 /\ Edges[4] = 700
      /\ Edges[5] = 800 /\ Edges[6] = 900 /\ Edges[7] = 1000
  BY SMT DEF Edges
<1> QED
  BY <1>2, <1>3, <1>4, SMT

(* Every ratio is in one bucket, the ratio 1 in the last one, and in no     *)
(* other.                                                                   *)
LEMMA OneBucket ==
    ASSUME NEW c \in 0 .. 1000
    PROVE  \E b \in Buckets : /\ InBucket(b, c)
                              /\ \A d \in Buckets : InBucket(d, c) => d = b
<1> DEFINE In(b) == InBucket(b, c)
<1>1. c \in Int /\ 0 <= c /\ c <= 1000
  BY SMT
<1>2. /\ In(1) <=> c < 500
      /\ In(2) <=> 500 <= c /\ c < 600
      /\ In(3) <=> 600 <= c /\ c < 700
      /\ In(4) <=> 700 <= c /\ c < 800
      /\ In(5) <=> 800 <= c /\ c < 900
      /\ In(6) <=> 900 <= c
  BY <1>1, EdgesAre, SMT DEF InBucket
<1> HIDE DEF In
<1>3. \E b \in {1, 2, 3, 4, 5, 6} : In(b) /\ \A d \in {1, 2, 3, 4, 5, 6} : In(d) => d = b
  BY <1>1, <1>2, SMT
<1> QED
  BY <1>3, EdgesAre, SMT DEF In

(* The verdicts on one scenario and the lists of its mismatches: the false  *)
(* positives are the spurious types, the false negatives the missed ones,   *)
(* and with the true positives these are the expected types.                *)
LEMMA VerdictSets ==
    ASSUME NEW r, r.scenario.expected \subseteq DetectionTypes,
           EmittedTypes(r.signals) \subseteq DetectionTypes
    PROVE  LET Judged(types, c) ==
                 {t \in types : Verdict(r.scenario, EmittedTypes(r.signals), t) = c}
           IN  /\ Judged(ScoredTypes, "fp") = Spurious(r)
               /\ \A types \in SUBSET DetectionTypes :
                    /\ Judged(types, "fn") = Missed(r) \cap types
                    /\ Judged(types, "tp") \cup Judged(types, "fn")
                         = r.scenario.expected \cap types
                    /\ Judged(types, "tp") \cap Judged(types, "fn") = {}
               /\ \A t \in DetectionTypes :
                    Verdict(r.scenario, EmittedTypes(r.signals), t) \in Verdicts
<1> DEFINE s == r.scenario
           E == EmittedTypes(r.signals)
           V(t) == Verdict(s, E, t)
<1>1. ASSUME NEW t
      PROVE  /\ V(t) = "fp" <=> t \notin s.expected /\ t \in E /\ t \notin s.tolerated
             /\ V(t) = "fn" <=> t \in s.expected /\ t \notin E
             /\ V(t) = "tp" <=> t \in s.expected /\ t \in E
             /\ V(t) \in Verdicts
  <2> HIDE DEF s, E
  <2>1. CASE t \in s.expected /\ t \in E
    BY <2>1 DEF Verdict, Verdicts
  <2>2. CASE t \in s.expected /\ t \notin E
    BY <2>2 DEF Verdict, Verdicts
  <2>3. CASE t \notin s.expected /\ t \notin E
    BY <2>3 DEF Verdict, Verdicts
  <2>4. CASE t \notin s.expected /\ t \in E
    BY <2>4 DEF Verdict, Verdicts
  <2> QED
    BY <2>1, <2>2, <2>3, <2>4
<1>2. /\ s.expected \subseteq DetectionTypes /\ E \subseteq DetectionTypes
      /\ Spurious(r) = E \ (s.expected \cup s.tolerated \cup INFORMATIONAL_TYPES)
      /\ Missed(r) = s.expected \ E
      /\ ScoredTypes = DetectionTypes \ INFORMATIONAL_TYPES
  BY DEF Spurious, Missed, ScoredTypes
<1> HIDE DEF s, E, V
<1> DEFINE Judged(types, c) == {t \in types : V(t) = c}
<1>3. Judged(ScoredTypes, "fp") = Spurious(r)
  BY <1>1, <1>2
<1>4. ASSUME NEW types \in SUBSET DetectionTypes
      PROVE  /\ Judged(types, "fn") = Missed(r) \cap types
             /\ Judged(types, "tp") \cup Judged(types, "fn") = s.expected \cap types
             /\ Judged(types, "tp") \cap Judged(types, "fn") = {}
  BY <1>1, <1>2
<1> QED
  BY <1>1, <1>3, <1>4 DEF s, E, V

(* A total of the report grows by the types it was given.                   *)
LEMMA TotalGrows ==
    ASSUME metrics \in [DetectionTypes -> [Verdicts -> Nat]],
           NEW judged, \A t \in DetectionTypes : judged[t] \in Verdicts,
           metrics' = [t \in DetectionTypes |->
                         [metrics[t] EXCEPT ![judged[t]] = @ + 1]]
    PROVE  \A types \in SUBSET DetectionTypes, c \in Verdicts :
              /\ TotalOf(types, c) \in Int
              /\ Cardinality({t \in types : judged[t] = c}) \in Nat
              /\ TotalOf(types, c)'
                   = TotalOf(types, c) + Cardinality({t \in types : judged[t] = c})
<1> SUFFICES ASSUME NEW types \in SUBSET DetectionTypes, NEW c \in Verdicts
             PROVE  /\ TotalOf(types, c) \in Int
                    /\ Cardinality({t \in types : judged[t] = c}) \in Nat
                    /\ TotalOf(types, c)' = TotalOf(types, c)
                                     + Cardinality({t \in types : judged[t] = c})
  OBVIOUS
<1> DEFINE f == [t \in types |-> metrics[t][c]]
           g == [t \in types |-> metrics'[t][c]]
           T == {t \in types : judged[t] = c}
<1>1. IsFiniteSet(types) /\ types \subseteq DetectionTypes
  BY EvaluationAssumption, FS_Subset
<1>2. \A t \in types : f[t] \in Int /\ g[t] = f[t] + (IF t \in T THEN 1 ELSE 0)
  <2> SUFFICES ASSUME NEW t \in types
               PROVE  /\ metrics[t][c] \in Int
                      /\ metrics'[t][c] = metrics[t][c] + (IF judged[t] = c THEN 1 ELSE 0)
    OBVIOUS
  <2>1. PICK m \in [Verdicts -> Nat] : m = metrics[t] /\ m[c] \in Nat
    BY <1>1
  <2>2. metrics'[t] = [m EXCEPT ![judged[t]] = @ + 1] /\ judged[t] \in Verdicts
    BY <1>1, <2>1
  <2> QED
    BY <2>1, <2>2
<1>3. /\ TotalOf(types, c) = SumFunctionOnSet(f, types)
      /\ TotalOf(types, c)' = SumFunctionOnSet(g, types)
  BY DEF TotalOf, SumFunction
<1>4. T \in SUBSET types
  OBVIOUS
<1> HIDE DEF f, g, T
<1>5. /\ SumFunctionOnSet(f, types) \in Int
      /\ Cardinality(T) \in Nat
      /\ SumFunctionOnSet(g, types)
           = SumFunctionOnSet(f, types) + Cardinality(T)
  <2>1. PICK S : S = types /\ IsFiniteSet(S)
    BY <1>1
  <2>2. \A x \in S : f[x] \in Int /\ g[x] = f[x] + (IF x \in T THEN 1 ELSE 0)
    BY <1>2, <2>1
  <2>3. T \in SUBSET S
    BY <1>4, <2>1
  <2>4. /\ SumFunctionOnSet(f, S) \in Int
        /\ Cardinality(T) \in Nat
        /\ SumFunctionOnSet(g, S) = SumFunctionOnSet(f, S) + Cardinality(T)
    BY ONLY <2>1, <2>2, <2>3, SumGrows
  <2> QED
    BY <2>1, <2>4
<1> QED
  BY <1>3, <1>5 DEF T

(* What is summed over the results grows by what the new one adds.          *)
LEMMA ResultsGrow ==
    ASSUME IsSequence(results), NEW r, results' = Append(results, r),
           NEW f, f = [k \in DOMAIN results |-> f[k]],
           NEW g, g = [k \in DOMAIN results' |-> g[k]],
           \A k \in DOMAIN results : f[k] \in Int /\ g[k] = f[k],
           NEW new \in Int, g[Len(results) + 1] = new
    PROVE  SumFunction(f) \in Int /\ SumFunction(g) = SumFunction(f) + new
<1>1. Len(results) \in Nat /\ DOMAIN results = 1 .. Len(results)
  BY SequenceOf
<1>2. PICK n \in Nat : n = Len(results) /\ DOMAIN results = 1 .. n
  BY <1>1
<1>3. DOMAIN results' = 1 .. n + 1
  BY <1>2
<1>4. /\ SumFunction(f) = SumFunctionOnSet(f, 1 .. n)
      /\ SumFunction(g) = SumFunctionOnSet(g, 1 .. n + 1)
  <2>1. DOMAIN f = 1 .. n /\ DOMAIN g = 1 .. n + 1
    BY <1>2, <1>3
  <2> QED
    BY <2>1 DEF SumFunction
<1>5. /\ \A k \in 1 .. n : f[k] \in Int /\ g[k] = f[k]
      /\ g[n + 1] = new /\ g[n + 1] \in Int
  BY <1>2
<1>6. /\ SumFunctionOnSet(f, 1 .. n) \in Int
      /\ SumFunctionOnSet(g, 1 .. n + 1) = SumFunctionOnSet(f, 1 .. n) + g[n + 1]
  BY <1>5, SumOneMore
<1> QED
  BY <1>4, <1>5, <1>6

(* The table has finitely many buckets.                                     *)
LEMMA BucketsAreFinite == IsFiniteSet(Buckets)
<1>1. PICK n \in Int : n = Len(Edges) - 1
  BY DEF Edges
<1>2. 1 \in Int
  OBVIOUS
<1> QED
  BY <1>1, <1>2, FS_Interval DEF Buckets

(* The signals in the calibration table.                                    *)
Tabled == SumFunction([b \in Buckets |-> calibration[b].signals])

(* Scoring a scenario adds its measured signals to the table, each once.    *)
LEMMA CalibrationGrows ==
    ASSUME calibration \in [Buckets -> [signals : Nat, correct : Nat]],
           NEW s, NEW signals, IsFiniteSet(signals),
           \A f \in signals : f.confidence \in 0 .. 1000,
           calibration' = Calibrated(s, signals)
    PROVE  /\ calibration' \in [Buckets -> [signals : Nat, correct : Nat]]
           /\ Tabled \in Int /\ Cardinality(Measured(signals)) \in Nat
           /\ Tabled' = Tabled + Cardinality(Measured(signals))
<1> DEFINE M == Measured(signals)
           Fallen(b) == {f \in M : InBucket(b, f.confidence)}
           Correct(b) == {f \in Fallen(b) : f.type \in s.expected}
           old == [b \in Buckets |-> calibration[b].signals]
           new == [b \in Buckets |-> calibration'[b].signals]
           count == [b \in Buckets |-> Cardinality(Fallen(b))]
           class == [b \in Buckets |-> Fallen(b)]
<1>1. IsFiniteSet(M) /\ M \subseteq signals
  BY FS_Subset DEF Measured
<1>2. \A b : /\ IsFiniteSet(Fallen(b)) /\ Cardinality(Fallen(b)) \in Nat
             /\ Cardinality(Correct(b)) \in Nat
  <2>1. \A b : Fallen(b) \in SUBSET M /\ Correct(b) \in SUBSET Fallen(b)
    OBVIOUS
  <2> HIDE DEF M, Fallen, Correct
  <2> QED
    BY <1>1, <2>1, FS_Subset, FS_CardinalityType
<1>3. calibration' = [b \in Buckets |->
                        [signals |-> calibration[b].signals + Cardinality(Fallen(b)),
                         correct |-> calibration[b].correct + Cardinality(Correct(b))]]
  BY Zenon DEF Calibrated
<1>4. /\ \A b \in Buckets : class[b] \in SUBSET M
      /\ \A f \in M : \E b \in Buckets :
           f \in class[b] /\ \A d \in Buckets : f \in class[d] => d = b
  <2>1. \A b \in Buckets : class[b] \in SUBSET M
    OBVIOUS
  <2>2. ASSUME NEW f \in M
        PROVE  \E b \in Buckets : /\ f \in class[b]
                                  /\ \A d \in Buckets : f \in class[d] => d = b
    <3>1. PICK c \in 0 .. 1000 : c = f.confidence
      BY <1>1
    <3>2. PICK b \in Buckets : /\ InBucket(b, c)
                              /\ \A d \in Buckets : InBucket(d, c) => d = b
      BY OneBucket, ZenonT(60)
    <3>3. \A d \in Buckets : f \in class[d] <=> InBucket(d, c)
      BY <3>1
    <3> HIDE DEF class
    <3> QED
      BY <3>2, <3>3
  <2> QED
    BY <2>1, <2>2
<1>5. \A b \in Buckets : class[b] = Fallen(b)
  OBVIOUS
<1>6. IsFiniteSet(Buckets)
  BY BucketsAreFinite
<1>7. \A b \in Buckets : count[b] = Cardinality(class[b])
  BY <1>5
<1> HIDE DEF Fallen, Correct
<1>8. /\ calibration' \in [Buckets -> [signals : Nat, correct : Nat]]
      /\ \A b \in Buckets : /\ old[b] \in Int /\ count[b] \in Int
                            /\ new[b] = old[b] + count[b]
  <2> HIDE DEF M
  <2>1. \A b \in Buckets : calibration[b].signals \in Nat /\ calibration[b].correct \in Nat
    OBVIOUS
  <2> QED
    BY <1>2, <1>3, <2>1
<1>9. /\ SumFunction(old) = SumFunctionOnSet(old, Buckets)
      /\ SumFunction(new) = SumFunctionOnSet(new, Buckets)
  BY DEF SumFunction
<1> HIDE DEF old, new, count, class, M
<1>10. SumFunctionOnSet(new, Buckets)
         = SumFunctionOnSet(old, Buckets) + SumFunctionOnSet(count, Buckets)
  BY <1>6, <1>8, SumPlus
<1>11. SumFunctionOnSet(count, Buckets) = Cardinality(M)
  <2>1. IsFiniteSet(M)
    BY <1>1
  <2> QED
    BY ONLY <1>4, <1>6, <1>7, <2>1, CountedOnce
<1>12. SumFunctionOnSet(old, Buckets) \in Int
  BY <1>6, <1>8, SumInteger
<1>13. Cardinality(M) \in Nat
  BY <1>1, FS_CardinalityType
<1> QED
  <2>1. Tabled = SumFunction(old) /\ Tabled' = SumFunction(new)
    BY DEF Tabled, old, new
  <2> QED
    BY <1>8, <1>9, <1>10, <1>11, <1>12, <1>13, <2>1 DEF M

(* Nothing is counted before the first scenario.                            *)
LEMMA ReportStarts == Init => ReportInv
<1> SUFFICES ASSUME Init PROVE ReportInv
  OBVIOUS
<1>1. HarnessInv
  <2>1. IsSequence(<< >>) /\ DOMAIN << >> = {}
    BY DEF IsSequence
  <2>2. NoCounts \in [Verdicts -> Nat]
    BY DEF NoCounts
  <2>3. metrics \in [DetectionTypes -> [Verdicts -> Nat]]
    BY <2>2 DEF Init
  <2>4. calibration \in [Buckets -> [signals : Nat, correct : Nat]]
    BY DEF Init
  <2> QED
    BY <2>1, <2>3, <2>4 DEF Init, HarnessInv
<1>2. PICK zero \in Int : zero = 0
  OBVIOUS
<1>3. \A types \in SUBSET DetectionTypes, c \in Verdicts : TotalOf(types, c) = 0
  <2> SUFFICES ASSUME NEW types \in SUBSET DetectionTypes, NEW c \in Verdicts
               PROVE  TotalOf(types, c) = 0
    OBVIOUS
  <2> DEFINE f == [t \in types |-> metrics[t][c]]
  <2>1. \A t \in types : f[t] = zero
    BY <1>2 DEF Init, NoCounts
  <2>2. TotalOf(types, c) = SumFunctionOnSet(f, types)
    BY DEF TotalOf, SumFunction
  <2>3. IsFiniteSet(types)
    BY EvaluationAssumption, FS_Subset
  <2> HIDE DEF f
  <2>4. SumFunctionOnSet(f, types) = zero * Cardinality(types)
    BY <2>1, <2>3, SumConstant
  <2> QED
    BY <1>2, <2>2, <2>3, <2>4, FS_CardinalityType
<1>4. SumFunction([b \in Buckets |-> calibration[b].signals]) = 0
  <2> DEFINE f == [b \in Buckets |-> calibration[b].signals]
  <2>1. \A b \in Buckets : f[b] = zero
    BY <1>2 DEF Init
  <2>2. SumFunction(f) = SumFunctionOnSet(f, Buckets)
    BY DEF SumFunction
  <2> HIDE DEF f
  <2>3. SumFunctionOnSet(f, Buckets) = zero * Cardinality(Buckets)
    BY <2>1, BucketsAreFinite, SumConstant
  <2> QED
    BY <1>2, <2>2, <2>3, BucketsAreFinite, FS_CardinalityType DEF f
<1>5. \A f : DOMAIN f = {} => SumFunction(f) = 0
  BY SumOfNone DEF SumFunction
<1>6. DOMAIN results = {}
  BY DEF Init
<1>7. TotalsAddUp
  <2>1. {"tp", "fp", "fn"} \subseteq Verdicts
    BY DEF Verdicts
  <2>2. {ScoredTypes, DetectionTypes} \subseteq SUBSET DetectionTypes
    BY DEF ScoredTypes
  <2>3. \A types \in {ScoredTypes, DetectionTypes} :
          /\ TotalOf(types, "tp") = 0 /\ TotalOf(types, "fn") = 0
          /\ TotalOf(types, "fp") = 0
    BY <1>3, <2>1, <2>2
  <2> QED
    BY <1>5, <1>6, <2>3 DEF TotalsAddUp
<1>8. EverySignalCalibrated
  BY <1>4, <1>5, <1>6 DEF EverySignalCalibrated
<1> QED
  BY <1>1, <1>7, <1>8 DEF ReportInv

(* Growing a session, loading the corpus and raising report nothing.        *)
LEMMA ReportKept ==
    ASSUME ReportInv, UNCHANGED <<results, metrics, calibration>>
    PROVE  (TotalsAddUp /\ EverySignalCalibrated)'
<1> DEFINE Matches(rs, ms) ==
        LET Sum(types, c) == SumFunction([t \in types |-> ms[t][c]])
        IN  /\ Sum(ScoredTypes, "fp") =
                 SumFunction([k \in DOMAIN rs |-> Cardinality(Spurious(rs[k]))])
            /\ Sum(DetectionTypes, "fn") =
                 SumFunction([k \in DOMAIN rs |-> Cardinality(Missed(rs[k]))])
            /\ Sum(ScoredTypes, "fn") =
                 SumFunction([k \in DOMAIN rs |->
                     Cardinality(Missed(rs[k]) \cap ScoredTypes)])
            /\ \A types \in {ScoredTypes, DetectionTypes} :
                 Sum(types, "tp") + Sum(types, "fn") =
                     SumFunction([k \in DOMAIN rs |->
                         Cardinality(rs[k].scenario.expected \cap types)])
           Fallen(rs, cs) ==
             SumFunction([b \in Buckets |-> cs[b].signals])
               = SumFunction([k \in DOMAIN rs |-> Cardinality(Measured(rs[k].signals))])
<1>1. /\ TotalsAddUp <=> Matches(results, metrics)
      /\ TotalsAddUp' <=> Matches(results', metrics')
  BY DEF TotalsAddUp, TotalOf
<1>2. /\ EverySignalCalibrated <=> Fallen(results, calibration)
      /\ EverySignalCalibrated' <=> Fallen(results', calibration')
  BY DEF EverySignalCalibrated
<1> HIDE DEF Matches, Fallen
<1> QED
  BY <1>1, <1>2 DEF ReportInv

(* The next scenario is one of those loaded.                                *)
LEMMA CurrentIsSound ==
    ASSUME HarnessInv, Len(results) < Len(scenarios)
    PROVE  SoundScenario(Current)
<1>1. /\ Len(results) \in Nat /\ Len(scenarios) \in Nat
      /\ DOMAIN scenarios = 1 .. Len(scenarios)
  BY SequenceOf DEF HarnessInv
<1>2. Len(results) + 1 \in DOMAIN scenarios
  BY <1>1
<1> QED
  BY <1>2 DEF HarnessInv, Current

(* What a result adds to the totals.                                        *)
SpuriousIn(r) == Cardinality(Spurious(r))
MissedIn(r) == Cardinality(Missed(r))
ScoredMissedIn(r) == Cardinality(Missed(r) \cap ScoredTypes)
SupportIn(types, r) == Cardinality(r.scenario.expected \cap types)
MeasuredIn(r) == Cardinality(Measured(r.signals))

(* What a result adds to the totals are natural numbers.                    *)
LEMMA CountsOfResult ==
    ASSUME NEW r, SoundResult(r)
    PROVE  /\ SpuriousIn(r) \in Nat /\ MissedIn(r) \in Nat
           /\ ScoredMissedIn(r) \in Nat /\ MeasuredIn(r) \in Nat
           /\ \A types : SupportIn(types, r) \in Nat
<1>1. /\ Spurious(r) \in SUBSET DetectionTypes
      /\ Missed(r) \in SUBSET DetectionTypes
      /\ Missed(r) \cap ScoredTypes \in SUBSET DetectionTypes
      /\ Measured(r.signals) \in SUBSET r.signals
      /\ IsFiniteSet(r.signals)
  BY DEF SoundResult, Spurious, Missed, Measured
<1>2. \A types : r.scenario.expected \cap types \in SUBSET DetectionTypes
  BY DEF SoundResult
<1>3. \A S \in SUBSET DetectionTypes : Cardinality(S) \in Nat
  BY EvaluationAssumption, FS_Subset, FS_CardinalityType
<1> QED
  BY <1>1, <1>2, <1>3, FS_Subset, FS_CardinalityType
  DEF SpuriousIn, MissedIn, ScoredMissedIn, SupportIn, MeasuredIn

(* One scenario more: the totals and the list of mismatches grow alike.     *)
LEMMA ReportScores ==
    ASSUME ReportInv, Score
    PROVE  ReportInv'
<1> DEFINE signals == AllFindings(Current.messages)
           emitted == EmittedTypes(signals)
<1>1. PICK r : r = [scenario |-> Current, signals |-> signals]
  OBVIOUS
<1>2. PICK judged : judged = [t \in DetectionTypes |-> Verdict(Current, emitted, t)]
  OBVIOUS
<1>3. /\ IsSequence(scenarios) /\ IsSequence(results)
      /\ \A k \in DOMAIN scenarios : SoundScenario(scenarios[k])
      /\ \A k \in DOMAIN results : SoundResult(results[k])
      /\ metrics \in [DetectionTypes -> [Verdicts -> Nat]]
      /\ calibration \in [Buckets -> [signals : Nat, correct : Nat]]
  BY DEF ReportInv, HarnessInv
<1>4. SoundScenario(Current)
  BY CurrentIsSound DEF ReportInv, Score
<1>5. /\ r.scenario = Current /\ r.signals = signals
      /\ r.scenario.expected \subseteq DetectionTypes
      /\ IsFiniteSet(signals)
      /\ \A f \in signals : f.type \in DetectionTypes /\ f.confidence \in 0 .. 1000
      /\ emitted \subseteq DetectionTypes
  <2>1. /\ IsFiniteSet(signals)
        /\ \A f \in signals : f.type \in DetectionTypes /\ f.confidence \in 0 .. 1000
    BY <1>4, FindingsReports DEF SoundScenario
  <2>2. emitted \subseteq DetectionTypes
    <3> HIDE DEF signals
    <3> QED
      BY <2>1 DEF EmittedTypes
  <2> HIDE DEF signals
  <2> QED
    BY <1>1, <1>4, <2>1, <2>2 DEF SoundScenario
<1>6. /\ results' = Append(results, r)
      /\ scenarios' = scenarios
      /\ calibration' = Calibrated(Current, signals)
  BY <1>1 DEF Score
<1>7. metrics' = [t \in DetectionTypes |-> [metrics[t] EXCEPT ![judged[t]] = @ + 1]]
  <2>1. metrics' = [t \in DetectionTypes |->
                      [metrics[t] EXCEPT ![Verdict(Current, emitted, t)] = @ + 1]]
    BY Zenon DEF Score
  <2> HIDE DEF emitted
  <2> QED
    BY <1>2, <2>1
<1> HIDE DEF signals
<1>8. SoundResult(r)
  BY <1>5 DEF SoundResult
<1>9. \A t \in DetectionTypes : judged[t] = Verdict(r.scenario, EmittedTypes(r.signals), t)
  BY <1>2, <1>5
<1>10. \A t \in DetectionTypes : judged[t] \in Verdicts
  BY <1>5, <1>9, VerdictSets
<1>11. /\ Len(results) \in Nat /\ DOMAIN results = 1 .. Len(results)
       /\ DOMAIN results' = 1 .. Len(results) + 1
       /\ IsSequence(results')
       /\ \A k \in DOMAIN results : k \in DOMAIN results' /\ results'[k] = results[k]
       /\ results'[Len(results) + 1] = r
       /\ Len(results) + 1 \in DOMAIN results'
       /\ \A k \in DOMAIN results' : results'[k] = r \/ \E i \in DOMAIN results : i = k
  <2>1. PICK S : results \in Seq(S)
    BY <1>3 DEF IsSequence
  <2>2. results \in Seq(S \cup {r}) /\ results' \in Seq(S \cup {r})
    BY <1>6, <2>1
  <2>3. IsSequence(results')
    BY <2>2, SequenceIn
  <2>4. Len(results) \in Nat /\ Len(results') = Len(results) + 1
    BY <1>6, <2>2
  <2>5. PICK n \in Nat : n = Len(results) /\ n + 1 = Len(results')
    BY <2>4
  <2> QED
    BY <1>6, <2>2, <2>3, <2>5
<1>12. HarnessInv'
  <2>1. \A k \in DOMAIN results' : SoundResult(results'[k])
    BY <1>3, <1>8, <1>11
  <2>2. metrics' \in [DetectionTypes -> [Verdicts -> Nat]]
    BY <1>3, <1>7, <1>10
  <2>3. calibration' \in [Buckets -> [signals : Nat, correct : Nat]]
    BY <1>3, <1>5, <1>6, CalibrationGrows, ZenonT(60)
  <2> QED
    BY <1>3, <1>6, <1>11, <2>1, <2>2, <2>3 DEF HarnessInv
<1> DEFINE Judged(types, c) == {t \in types : judged[t] = c}
<1>13. \A types \in SUBSET DetectionTypes, c \in {"tp", "fp", "fn"} :
          /\ TotalOf(types, c) \in Int
          /\ Cardinality(Judged(types, c)) \in Nat
          /\ TotalOf(types, c)' = TotalOf(types, c) + Cardinality(Judged(types, c))
  <2>1. {"tp", "fp", "fn"} \subseteq Verdicts
    BY DEF Verdicts
  <2>2. metrics \in [DetectionTypes -> [Verdicts -> Nat]]
    BY <1>3
  <2>3. \A types \in SUBSET DetectionTypes, c \in Verdicts :
          /\ TotalOf(types, c) \in Int
          /\ Cardinality(Judged(types, c)) \in Nat
          /\ TotalOf(types, c)' = TotalOf(types, c) + Cardinality(Judged(types, c))
    BY ONLY <1>7, <1>10, <2>2, TotalGrows
  <2> QED
    BY <2>1, <2>3
<1>14. /\ Judged(ScoredTypes, "fp") = Spurious(r)
       /\ \A types \in SUBSET DetectionTypes :
            /\ Judged(types, "fn") = Missed(r) \cap types
            /\ Judged(types, "tp") \cup Judged(types, "fn")
                 = r.scenario.expected \cap types
            /\ Judged(types, "tp") \cap Judged(types, "fn") = {}
  <2>1. \A types \in SUBSET DetectionTypes : \A c :
          Judged(types, c)
            = {t \in types : Verdict(r.scenario, EmittedTypes(r.signals), t) = c}
    BY <1>9
  <2>2. ScoredTypes \in SUBSET DetectionTypes
    BY DEF ScoredTypes
  <2>3. PICK E : E = EmittedTypes(r.signals) /\ E \subseteq DetectionTypes
    BY <1>5
  <2> DEFINE Given(types, c) == {t \in types : Verdict(r.scenario, E, t) = c}
  <2>4. /\ Given(ScoredTypes, "fp") = Spurious(r)
        /\ \A types \in SUBSET DetectionTypes :
             /\ Given(types, "fn") = Missed(r) \cap types
             /\ Given(types, "tp") \cup Given(types, "fn")
                  = r.scenario.expected \cap types
             /\ Given(types, "tp") \cap Given(types, "fn") = {}
    BY ONLY <1>5, <2>3, VerdictSets
  <2>5. \A types \in SUBSET DetectionTypes :
          \A c : Judged(types, c) = Given(types, c)
    BY <2>1, <2>3
  <2> HIDE DEF Judged, Given
  <2> QED
    BY <2>2, <2>4, <2>5
<1> HIDE DEF Judged
<1> DEFINE SpuriousAt(rs) == [k \in DOMAIN rs |-> SpuriousIn(rs[k])]
           MissedAt(rs) == [k \in DOMAIN rs |-> MissedIn(rs[k])]
           ScoredMissedAt(rs) == [k \in DOMAIN rs |-> ScoredMissedIn(rs[k])]
           SupportAt(types, rs) == [k \in DOMAIN rs |-> SupportIn(types, rs[k])]
           MeasuredAt(rs) == [k \in DOMAIN rs |-> MeasuredIn(rs[k])]
<1>15. /\ SpuriousIn(r) \in Nat /\ MissedIn(r) \in Nat
       /\ ScoredMissedIn(r) \in Nat /\ MeasuredIn(r) \in Nat
       /\ \A types : SupportIn(types, r) \in Nat
  BY <1>8, CountsOfResult
<1>16. \A k \in DOMAIN results :
         /\ SpuriousIn(results[k]) \in Nat
         /\ MissedIn(results[k]) \in Nat
         /\ ScoredMissedIn(results[k]) \in Nat
         /\ MeasuredIn(results[k]) \in Nat
         /\ \A types : SupportIn(types, results[k]) \in Nat
  BY <1>3, CountsOfResult
<1>17. /\ SumFunction(SpuriousAt(results)) \in Int
       /\ SumFunction(SpuriousAt(results'))
            = SumFunction(SpuriousAt(results)) + SpuriousIn(r)
  <2>1. PICK f, g, n : /\ f = SpuriousAt(results) /\ g = SpuriousAt(results')
                       /\ n = SpuriousIn(r)
    OBVIOUS
  <2>2. f = [k \in DOMAIN results |-> f[k]] /\ g = [k \in DOMAIN results' |-> g[k]]
    BY <2>1
  <2>3. \A k \in DOMAIN results : f[k] \in Int /\ g[k] = f[k]
    BY <1>11, <1>16, <2>1
  <2>4. n \in Int /\ g[Len(results) + 1] = n
    BY <1>11, <1>15, <2>1
  <2>5. SumFunction(f) \in Int /\ SumFunction(g) = SumFunction(f) + n
    BY ONLY <1>3, <1>6, <2>2, <2>3, <2>4, ResultsGrow
  <2> HIDE DEF SpuriousAt
  <2> QED
    BY <1>15, <2>1, <2>5
<1>18. /\ SumFunction(MissedAt(results)) \in Int
       /\ SumFunction(MissedAt(results'))
            = SumFunction(MissedAt(results)) + MissedIn(r)
  <2>1. PICK f, g, n : /\ f = MissedAt(results) /\ g = MissedAt(results')
                       /\ n = MissedIn(r)
    OBVIOUS
  <2>2. f = [k \in DOMAIN results |-> f[k]] /\ g = [k \in DOMAIN results' |-> g[k]]
    BY <2>1
  <2>3. \A k \in DOMAIN results : f[k] \in Int /\ g[k] = f[k]
    BY <1>11, <1>16, <2>1
  <2>4. n \in Int /\ g[Len(results) + 1] = n
    BY <1>11, <1>15, <2>1
  <2>5. SumFunction(f) \in Int /\ SumFunction(g) = SumFunction(f) + n
    BY ONLY <1>3, <1>6, <2>2, <2>3, <2>4, ResultsGrow
  <2> HIDE DEF MissedAt
  <2> QED
    BY <1>15, <2>1, <2>5
<1>19. ASSUME NEW types
       PROVE  /\ SumFunction(SupportAt(types, results)) \in Int
              /\ SumFunction(SupportAt(types, results'))
                   = SumFunction(SupportAt(types, results)) + SupportIn(types, r)
  <2>1. PICK f, g, n : /\ f = SupportAt(types, results) /\ g = SupportAt(types, results')
                       /\ n = SupportIn(types, r)
    OBVIOUS
  <2>2. f = [k \in DOMAIN results |-> f[k]] /\ g = [k \in DOMAIN results' |-> g[k]]
    BY <2>1
  <2>3. \A k \in DOMAIN results : f[k] \in Int /\ g[k] = f[k]
    BY <1>11, <1>16, <2>1
  <2>4. n \in Int /\ g[Len(results) + 1] = n
    BY <1>11, <1>15, <2>1
  <2>5. SumFunction(f) \in Int /\ SumFunction(g) = SumFunction(f) + n
    BY ONLY <1>3, <1>6, <2>2, <2>3, <2>4, ResultsGrow
  <2> HIDE DEF SupportAt
  <2> QED
    BY <1>15, <2>1, <2>5
<1>20. /\ SumFunction(ScoredMissedAt(results)) \in Int
       /\ SumFunction(ScoredMissedAt(results'))
            = SumFunction(ScoredMissedAt(results)) + ScoredMissedIn(r)
  <2>1. PICK f, g, n : /\ f = ScoredMissedAt(results) /\ g = ScoredMissedAt(results')
                       /\ n = ScoredMissedIn(r)
    OBVIOUS
  <2>2. f = [k \in DOMAIN results |-> f[k]] /\ g = [k \in DOMAIN results' |-> g[k]]
    BY <2>1
  <2>3. \A k \in DOMAIN results : f[k] \in Int /\ g[k] = f[k]
    BY <1>11, <1>16, <2>1
  <2>4. n \in Int /\ g[Len(results) + 1] = n
    BY <1>11, <1>15, <2>1
  <2>5. SumFunction(f) \in Int /\ SumFunction(g) = SumFunction(f) + n
    BY ONLY <1>3, <1>6, <2>2, <2>3, <2>4, ResultsGrow
  <2> HIDE DEF ScoredMissedAt
  <2> QED
    BY <1>15, <2>1, <2>5
<1>21. /\ SumFunction(MeasuredAt(results)) \in Int
       /\ SumFunction(MeasuredAt(results'))
            = SumFunction(MeasuredAt(results)) + MeasuredIn(r)
  <2>1. PICK f, g, n : /\ f = MeasuredAt(results) /\ g = MeasuredAt(results')
                       /\ n = MeasuredIn(r)
    OBVIOUS
  <2>2. f = [k \in DOMAIN results |-> f[k]] /\ g = [k \in DOMAIN results' |-> g[k]]
    BY <2>1
  <2>3. \A k \in DOMAIN results : f[k] \in Int /\ g[k] = f[k]
    BY <1>11, <1>16, <2>1
  <2>4. n \in Int /\ g[Len(results) + 1] = n
    BY <1>11, <1>15, <2>1
  <2>5. SumFunction(f) \in Int /\ SumFunction(g) = SumFunction(f) + n
    BY ONLY <1>3, <1>6, <2>2, <2>3, <2>4, ResultsGrow
  <2> HIDE DEF MeasuredAt
  <2> QED
    BY <1>15, <2>1, <2>5
<1>22. ASSUME NEW types \in SUBSET DetectionTypes
       PROVE  Cardinality(Judged(types, "tp")) + Cardinality(Judged(types, "fn"))
                = SupportIn(types, r)
  <2>1. IsFiniteSet(Judged(types, "tp")) /\ IsFiniteSet(Judged(types, "fn"))
    <3>1. \A c : Judged(types, c) \in SUBSET DetectionTypes
      BY DEF Judged
    <3> QED
      BY <3>1, EvaluationAssumption, FS_Subset
  <2>2. Cardinality(Judged(types, "tp") \cup Judged(types, "fn"))
          = Cardinality(Judged(types, "tp")) + Cardinality(Judged(types, "fn"))
              - Cardinality(Judged(types, "tp") \cap Judged(types, "fn"))
    BY <2>1, FS_Union
  <2>3. Cardinality(Judged(types, "tp") \cap Judged(types, "fn")) = 0
    BY <1>14, FS_EmptySet
  <2>4. Cardinality(Judged(types, "tp") \cup Judged(types, "fn")) = SupportIn(types, r)
    BY <1>14, Zenon DEF SupportIn
  <2>5. PICK a, b \in Nat : /\ a = Cardinality(Judged(types, "tp"))
                            /\ b = Cardinality(Judged(types, "fn"))
    BY <1>13
  <2> QED
    BY <2>2, <2>3, <2>4, <2>5
<1>23. /\ TotalOf(ScoredTypes, "fp") = SumFunction(SpuriousAt(results))
       /\ TotalOf(DetectionTypes, "fn") = SumFunction(MissedAt(results))
       /\ TotalOf(ScoredTypes, "fn") = SumFunction(ScoredMissedAt(results))
       /\ \A types \in {ScoredTypes, DetectionTypes} :
            TotalOf(types, "tp") + TotalOf(types, "fn")
              = SumFunction(SupportAt(types, results))
       /\ Tabled = SumFunction(MeasuredAt(results))
  BY DEF ReportInv, TotalsAddUp, EverySignalCalibrated, Tabled,
         SpuriousIn, MissedIn, ScoredMissedIn, SupportIn, MeasuredIn
<1>24. /\ {ScoredTypes, DetectionTypes} \subseteq SUBSET DetectionTypes
       /\ Cardinality(Judged(ScoredTypes, "fp")) = SpuriousIn(r)
       /\ Cardinality(Judged(ScoredTypes, "fn")) = ScoredMissedIn(r)
       /\ Cardinality(Judged(DetectionTypes, "fn")) = MissedIn(r)
  <2>1. {ScoredTypes, DetectionTypes} \subseteq SUBSET DetectionTypes
    BY DEF ScoredTypes
  <2>2. Missed(r) \cap DetectionTypes = Missed(r)
    BY <1>5 DEF Missed
  <2> QED
    BY <1>14, <2>1, <2>2 DEF SpuriousIn, ScoredMissedIn, MissedIn
<1>25. Tabled \in Int /\ Tabled' = Tabled + MeasuredIn(r)
  <2>1. MeasuredIn(r) = Cardinality(Measured(signals))
    BY <1>5 DEF MeasuredIn
  <2>2. /\ calibration \in [Buckets -> [signals : Nat, correct : Nat]]
        /\ IsFiniteSet(signals)
        /\ \A f \in signals : f.confidence \in 0 .. 1000
        /\ calibration' = Calibrated(Current, signals)
    BY <1>3, <1>5, <1>6
  <2>3. Tabled \in Int /\ Tabled' = Tabled + Cardinality(Measured(signals))
    BY ONLY <2>2, CalibrationGrows
  <2> QED
    BY <2>1, <2>3
<1>26. TotalsAddUp'
  <2> HIDE DEF SpuriousAt, MissedAt, ScoredMissedAt, SupportAt
  <2>1. TotalOf(ScoredTypes, "fp")' = SumFunction(SpuriousAt(results'))
    BY <1>13, <1>17, <1>23, <1>24
  <2>2. TotalOf(DetectionTypes, "fn")' = SumFunction(MissedAt(results'))
    BY <1>13, <1>18, <1>23, <1>24
  <2>3. TotalOf(ScoredTypes, "fn")' = SumFunction(ScoredMissedAt(results'))
    BY <1>13, <1>20, <1>23, <1>24
  <2>4. ASSUME NEW types \in {ScoredTypes, DetectionTypes}
        PROVE  TotalOf(types, "tp")' + TotalOf(types, "fn")'
                 = SumFunction(SupportAt(types, results'))
    <3>1. types \in SUBSET DetectionTypes
      BY <1>24
    <3> QED
      BY <1>13, <1>19, <1>22, <1>23, <3>1
  <2> QED
    BY <2>1, <2>2, <2>3, <2>4
    DEF TotalsAddUp, SpuriousAt, MissedAt, ScoredMissedAt, SupportAt,
        SpuriousIn, MissedIn, ScoredMissedIn, SupportIn
<1>27. EverySignalCalibrated'
  <2> HIDE DEF MeasuredAt
  <2>1. Tabled' = SumFunction(MeasuredAt(results'))
    BY <1>21, <1>23, <1>25
  <2> QED
    BY <2>1 DEF EverySignalCalibrated, Tabled, MeasuredAt, MeasuredIn
<1> QED
  BY <1>12, <1>26, <1>27 DEF ReportInv

(* Loading puts the grown scenario before those on disk, all sound.         *)
LEMMA CorpusIsSound ==
    ASSUME HarnessInv, IsTranscript(messages), NEW label \in Labels,
           LoadCorpus(label)
    PROVE  HarnessInv'
<1>1. PICK s : s = [messages |-> messages, expected |-> label.expected,
                    tolerated |-> label.tolerated]
  OBVIOUS
<1>2. SoundScenario(s)
  BY <1>1, EvaluationAssumption DEF SoundScenario
<1>3. PICK S : Corpus \in Seq(S) /\ S = ToSet(Corpus)
  BY EvaluationAssumption DEF IsSequence
<1>4. \A x \in S : SoundScenario(x)
  BY <1>3, EvaluationAssumption DEF SoundScenario
<1>5. PICK T : T = S \cup {s}
  OBVIOUS
<1>6. <<s>> \in Seq(T) /\ Corpus \in Seq(T)
  BY <1>3, <1>5
<1>7. scenarios' = <<s>> \o Corpus
  BY <1>1 DEF LoadCorpus
<1>8. scenarios' \in Seq(T)
  BY <1>6, <1>7
<1>9. \A k \in DOMAIN scenarios' : SoundScenario(scenarios'[k])
  BY <1>2, <1>4, <1>5, <1>8
<1>10. IsSequence(scenarios')
  BY <1>8, SequenceIn
<1> QED
  BY <1>9, <1>10 DEF HarnessInv, LoadCorpus

(* The report tells one story at every step.                                *)
LEMMA ReportSteps ==
    ASSUME ReportInv, IsTranscript(messages), [Next]_vars
    PROVE  ReportInv'
<1>1. CASE Score
  BY <1>1, ReportScores
<1>2. ASSUME UNCHANGED <<results, metrics, calibration>>, HarnessInv'
      PROVE  ReportInv'
  BY <1>2, ReportKept DEF ReportInv
<1>3. ASSUME UNCHANGED <<scenarios, results, metrics, calibration>>
      PROVE  ReportInv'
  <2>1. HarnessInv'
    BY <1>3 DEF ReportInv, HarnessInv
  <2> QED
    BY <1>2, <1>3, <2>1
<1>4. CASE Write
  BY <1>3, <1>4 DEF Write, harness
<1>5. ASSUME NEW label \in Labels, LoadCorpus(label)
      PROVE  ReportInv'
  <2>1. HarnessInv'
    BY <1>5, CorpusIsSound DEF ReportInv
  <2> QED
    BY <1>2, <1>5, <2>1 DEF LoadCorpus
<1>6. CASE ScoreRaises
  BY <1>3, <1>6 DEF ScoreRaises
<1>7. CASE UNCHANGED vars
  BY <1>3, <1>7 DEF vars, harness
<1> QED
  BY <1>1, <1>4, <1>5, <1>6, <1>7 DEF Next

(* The report is consistent at every step.                                  *)
LEMMA ReportHolds == Spec => []ReportInv
<1>1. Init => ReportInv
  BY ReportStarts
<1>2. ReportInv /\ IsTranscript(messages) /\ [Next]_vars => ReportInv'
  BY ReportSteps
<1> QED
  BY <1>1, <1>2, SessionInv, PTL DEF Spec

(* Where the sums agree, so do the headline and the list of mismatches.     *)
LEMMA MismatchesBearOut == ReportInv => TotalsMatchScenarios
<1> SUFFICES ASSUME ReportInv PROVE TotalsMatchScenarios
  OBVIOUS
<1> DEFINE fps == [k \in DOMAIN results |-> Cardinality(Spurious(results[k]))]
           fns == [k \in DOMAIN results |->
                     Cardinality(Missed(results[k]) \cap ScoredTypes)]
<1>1. \A k \in DOMAIN results :
        /\ IsFiniteSet(Missed(results[k])) /\ IsFiniteSet(Spurious(results[k]))
        /\ Missed(results[k]) \subseteq DetectionTypes
  <2> SUFFICES ASSUME NEW k \in DOMAIN results
               PROVE  /\ IsFiniteSet(Missed(results[k]))
                      /\ IsFiniteSet(Spurious(results[k]))
                      /\ Missed(results[k]) \subseteq DetectionTypes
    OBVIOUS
  <2>1. SoundResult(results[k])
    BY DEF ReportInv, HarnessInv
  <2>2. /\ Missed(results[k]) \in SUBSET DetectionTypes
        /\ Spurious(results[k]) \in SUBSET DetectionTypes
    BY <2>1 DEF SoundResult, Missed, Spurious
  <2> QED
    BY <2>2, EvaluationAssumption, FS_Subset
<1>2. IsFiniteSet(DOMAIN results)
  <2>1. PICK n \in Nat : DOMAIN results = 1 .. n
    BY SequenceOf DEF ReportInv, HarnessInv
  <2>2. 1 \in Int /\ n \in Int
    OBVIOUS
  <2> QED
    BY <2>1, <2>2, FS_Interval
<1>3. \A k \in DOMAIN results :
        /\ fps[k] \in Nat /\ (fps[k] = 0 <=> Spurious(results[k]) = {})
        /\ fns[k] \in Nat
        /\ fns[k] = 0 <=> Missed(results[k]) \cap ScoredTypes = {}
  <2> SUFFICES ASSUME NEW k \in DOMAIN results
               PROVE  /\ fps[k] \in Nat /\ (fps[k] = 0 <=> Spurious(results[k]) = {})
                      /\ fns[k] \in Nat
                      /\ fns[k] = 0 <=> Missed(results[k]) \cap ScoredTypes = {}
    OBVIOUS
  <2>1. /\ IsFiniteSet(Spurious(results[k]))
        /\ IsFiniteSet(Missed(results[k]) \cap ScoredTypes)
    BY <1>1, FS_Subset
  <2> QED
    BY <2>1, FS_CardinalityType, FS_EmptySet
<1>4. /\ TotalOf(ScoredTypes, "fp") = SumFunctionOnSet(fps, DOMAIN results)
      /\ TotalOf(ScoredTypes, "fn") = SumFunctionOnSet(fns, DOMAIN results)
  BY DEF ReportInv, TotalsAddUp, SumFunction
<1> DEFINE false == SumFunctionOnSet(fps, DOMAIN results)
           missing == SumFunctionOnSet(fns, DOMAIN results)
<1>5. HeadlineErrors = false + missing
  BY <1>4 DEF HeadlineErrors
<1> HIDE DEF fps, fns
<1>6. false \in Nat /\ missing \in Nat
  BY <1>2, <1>3, SumNatural
<1>7. \A k \in DOMAIN results : false >= fps[k] /\ missing >= fns[k]
  BY <1>2, <1>3, SumIncludes
<1>8. (\A k \in DOMAIN results : ExactMatch(results[k]))
        => false = 0 /\ missing = 0
  <2> SUFFICES ASSUME \A k \in DOMAIN results : ExactMatch(results[k])
               PROVE  false = 0 /\ missing = 0
    OBVIOUS
  <2>1. PICK zero \in Int : zero = 0
    OBVIOUS
  <2>2. \A k \in DOMAIN results : fps[k] = zero /\ fns[k] = zero
    BY <1>3, <2>1 DEF ExactMatch
  <2>3. /\ false = zero * Cardinality(DOMAIN results)
        /\ missing = zero * Cardinality(DOMAIN results)
    BY <1>2, <2>2, SumConstant
  <2> QED
    BY <1>2, <2>1, <2>3, FS_CardinalityType
<1> HIDE DEF false, missing
<1>9. HeadlineErrors > 0 => \E k \in DOMAIN results : ~ExactMatch(results[k])
  BY <1>5, <1>8
<1>10. ASSUME HeadlineErrors = 0, NEW k \in DOMAIN results,
              ~ExactMatch(results[k])
       PROVE  Missed(results[k]) \cap INFORMATIONAL_TYPES # {}
  <2>1. false = 0 /\ missing = 0
    BY <1>5, <1>6, <1>10
  <2>2. fps[k] = 0 /\ fns[k] = 0
    BY <1>3, <1>7, <2>1
  <2>3. Spurious(results[k]) = {} /\ Missed(results[k]) \cap ScoredTypes = {}
    BY <1>3, <2>2
  <2> QED
    BY <1>1, <1>10, <2>3 DEF ExactMatch, ScoredTypes
<1> QED
  BY <1>9, <1>10 DEF ReportInv, TotalsMatchScenarios

(* The tables of the report add up to the missed and spurious types of its  *)
(* scenarios: the headline without the missed informational ones, both      *)
(* tables together with them. A headline with errors comes with a           *)
(* mismatching scenario; beside one without errors, a mismatching scenario  *)
(* misses an informational type.                                            *)
THEOREM TotalsAreBorneOut == Spec => []TotalsMatchScenarios
BY MismatchesBearOut, ReportHolds, PTL

(* Every signal that counts is in exactly one bucket of the table.          *)
THEOREM SignalsAreCalibrated == Spec => []EverySignalCalibrated
<1>1. ReportInv => EverySignalCalibrated
  BY DEF ReportInv
<1> QED
  BY <1>1, ReportHolds, PTL
=============================================================================
