------------------------------ MODULE Detection ------------------------------
(* A session that grows while its detectors look at it again and again.     *)
(* Messages come with their sequence numbers, usually at the end, sometimes *)
(* between messages already there (module Analysis: it chose its number in  *)
(* time, below one a client chose, and was committed late); the result of a *)
(* tool call may come later than the call. Findings are recomputed from the *)
(* session in every state, as each analysis does.                           *)
EXTENDS StatementDetectors, DirectiveDetectors, PatternDetectors,
        SemanticDetectors

CONSTANTS
    Sayings,        \* what is said: [role, text, calls]
    ResultSet,      \* what tools return: [is_error, words]
    Providers,      \* who answers the semantic detectors
    MaxNumber       \* bound on sequence numbers

Texts == {s.text : s \in Sayings}
Values == UNION {ValuesIn(text) : text \in Texts}

IsConfidence(c) == c \in Int \cup {None, NotANumber}

(* Ratios and sizes are numbers, and what a model answers is a sequence of  *)
(* facts and a confidence, if it gives one.                                 *)
ASSUME DetectionAssumption ==
    /\ \A text \in Texts : IsText(text)
    /\ \A s \in Sayings : IsSequence(s.calls) /\ ToSet(s.calls) \subseteq {None}
    /\ \A a, b \in Texts : Similarity(a, b) \in 0 .. 1000
    /\ \A v, w \in Values : Similarity(v, w) \in 0 .. 1000
    /\ \A provider \in Providers, text \in Texts :
         /\ IsSequence(FactsIn(provider, text))
         /\ \A fact \in Range(FactsOf(provider, text)),
               evidence \in SUBSET ResultSet :
              IsConfidence(Support(provider, fact, evidence).confidence)
    /\ {STALENESS_TURN_THRESHOLD, WINDOW_SIZE, MIN_HISTORY, RECENT_WINDOW}
         \subseteq Nat \ {0}
    /\ {OMISSION_LOOKAHEAD, NEGLECT_LOOKAHEAD, LOOKBACK_WINDOW,
        MIN_WINDOW_WORDS, MIN_MESSAGES, CLAIM_SUPPORT_LOOKBACK_MESSAGES}
         \subseteq Nat
    /\ RECENT_WINDOW < MIN_MESSAGES

(* A transcript of such messages.                                           *)
IsTranscript(ms) ==
    /\ IsSequence(ms)
    /\ \A i \in DOMAIN ms :
         /\ ms[i] = [number |-> ms[i].number, role |-> ms[i].role,
                     text |-> ms[i].text, calls |-> ms[i].calls]
         /\ ms[i].text \in Texts /\ ms[i].number \in Nat
         /\ IsSequence(ms[i].calls)
         /\ ToSet(ms[i].calls) \subseteq ResultSet \cup {None}

VARIABLE messages

Numbers == {messages[i].number : i \in DOMAIN messages}
Below(n) == {k \in Numbers : k < n}

AddMessage(n, saying) ==
    /\ n \notin Numbers
    /\ messages' = InsertAt(messages, Cardinality(Below(n)) + 1,
                            [number |-> n, role |-> saying.role,
                             text |-> saying.text, calls |-> saying.calls])

AddToolResult(i, c, result) ==
    /\ messages[i].calls[c] = None
    /\ messages' = [messages EXCEPT ![i].calls[c] = result]

SessionInit == messages = << >>

SessionNext ==
    \/ \E n \in 1 .. MaxNumber, saying \in Sayings : AddMessage(n, saying)
    \/ \E i \in DOMAIN messages, result \in ResultSet :
         \E c \in DOMAIN messages[i].calls : AddToolResult(i, c, result)

(***************************************************************************)
(* What the ten deterministic detectors report.                               *)
(***************************************************************************)
AllFindings(ms) ==
    UNION {ContextGrowth(ms), Repetitions(ms), Omissions(ms),
           InstructionDrift(ms), Contradictions(ms), StaleContext(ms),
           ToolResultNeglect(ms), TopicDrift(ms), BehaviorShift(ms),
           FactLoss(ms)}

(***************************************************************************)
(* Properties                                                              *)
(***************************************************************************)
(* Reports about things said that later messages cannot undo.               *)
LastingFindings(ms) ==
    UNION {Repetitions(ms), InstructionDrift(ms), Contradictions(ms),
           TopicDrift(ms), BehaviorShift(ms), FactLoss(ms)}

(* The messages there are keep their places: what comes, comes at the end.  *)
OnlyAppended ==
    \A i \in DOMAIN messages : messages'[i].number = messages[i].number

(* What is said next, or returned late, retracts no contradiction, fact     *)
(* loss, repetition, instruction drift, topic drift or behaviour shift, nor *)
(* changes its confidence; nor an omission, unless the omission detector    *)
(* now raises. Two analyses of a growing session agree on its past.         *)
FindingsPersist ==
    [][OnlyAppended =>
         /\ LastingFindings(messages) \subseteq LastingFindings(messages')
         /\ \/ OmissionRaises(messages')
            \/ Omissions(messages) \subseteq Omissions(messages')]_messages

(* Whether a tool result was neglected is settled once the look-ahead       *)
(* window after its call is full: nothing said later accuses or acquits.    *)
NeglectSettles ==
    [][\A i \in DOMAIN messages :
         /\ OnlyAppended
         /\ i + NEGLECT_LOOKAHEAD <= Len(messages)
         /\ messages'[i].calls = messages[i].calls
         => NeglectedBy(messages', i) = NeglectedBy(messages, i)]_messages

(* If the assistant gave a subject two different numbers, always as many of *)
(* them, and nobody else ever said one of its values, a contradiction about *)
(* that subject is reported: comparing neighbours only, behind the wording  *)
(* filter, hides no change of a number.                                     *)
FlipNotHidden ==
    \A subject \in Subjects(messages) :
        LET said == Occurrences(messages, subject)
            values == {ValueAt(messages, p) : p \in said}
        IN  /\ \A v, w \in values : Comparable(v, w)
            /\ \E v, w \in values : NumbersDiffer(v, w)
            /\ \A i \in AuthoredAt(messages) :
                 \A v \in values : ~Supplies(messages[i].text, v)
            => \E f \in Contradictions(messages) : f.about[1] = subject

(* A session whose last word is the assistant's is analyzed for omissions:  *)
(* the look-up of the reply stays inside the list.                          *)
AnsweredSessionAnalyzed ==
    /\ messages # << >>
    /\ Last(messages).role = "assistant"
    => ~OmissionRaises(messages)

(* Without a model the semantic detectors report nothing, whatever is said: *)
(* no default of the null provider reads as an answer anywhere.             *)
SilentWithoutProvider == SemanticFindings("unavailable", messages) = {}

(* One fact that the model calls contradicted by a nearby result is enough: *)
(* the message is reported with high severity, or critical if the model is  *)
(* sure, however many of its other facts are supported.                     *)
RefutedClaimsShow ==
    \A provider \in Providers, i \in CheckedClaims(messages) :
        \A k \in DOMAIN FactsOf(provider, messages[i].text) :
            LET answer == Answers(provider, messages, i)[k]
                sure == answer.confidence >= HIGH_CONFIDENCE_CONTRADICTION_THRESHOLD
            IN  answer.class = "contradicted" =>
                  \E f \in ClaimSupport(provider, messages) :
                     /\ f.about = i
                     /\ f.severity \in {"critical"} \cup IF sure THEN {} ELSE {"high"}

(* Only results whose confidence clears MIN_EMIT_CONFIDENCE become signals. *)
EmittedClearsFloor ==
    \A provider \in Providers :
        \A f \in SemanticFindings(provider, messages) :
            f.confidence >= MIN_EMIT_CONFIDENCE
=============================================================================
