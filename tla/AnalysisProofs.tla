-------------------------- MODULE AnalysisProofs ---------------------------
(***************************************************************************)
(* Proofs about Analysis, for every set of requests, analyses and readers: *)
(* a run is stored whole or not at all, what it cites lies in its input,   *)
(* and all of it is one step of AnalysisStore. The answers of status       *)
(* requests never go back behind a stored run, and where the server        *)
(* numbers all messages a status that is not stale covers every message    *)
(* stored before it was asked for.                                         *)
(***************************************************************************)
EXTENDS Analysis, IngestionProofs, FiniteSetTheorems

USE ConstantsAssumption, OutcomesAssumption

-----------------------------------------------------------------------------
(* The ingestion half of the system is Ingestion: its invariants hold.      *)
LEMMA SystemIngests == SystemSpec => Spec
<1>1. AnalysisInit => Init
  BY DEF AnalysisInit
<1>2. [SystemNext]_allVars => [Next]_vars
  BY DEF SystemNext, allVars, vars
<1> QED
  BY <1>1, <1>2, PTL DEF SystemSpec, Spec

(* So rows only grow, and an id names one row.                              *)
LEMMA RowsGrow ==
    ASSUME StoreInv, [SystemNext]_allVars
    PROVE  /\ rows \subseteq rows' /\ rows \subseteq Row
           /\ sessions \subseteq sessions'
           /\ \A x, y \in rows : x.id = y.id => x = y
<1>1. [Next]_vars
  BY DEF SystemNext, allVars, vars
<1>2. TypeInv
  BY DEF StoreInv
<1> QED
  BY <1>1, <1>2, Growth DEF StoreInv, RowOrigin, TypeInv, TypeOK

-----------------------------------------------------------------------------
Stages ==
    {"idle", "not_found", "messages", "tool_calls", "tool_results", "engine",
     "create_run", "score", "commit", "stored", "analyzed", "failed"}

Draft ==
    [status: Statuses \cup {None}, cited: Row \cup {None}, created_at: Nat,
     measured_at: Nat]

StagesTyped ==
    /\ apc \in [Analyses -> Stages]
    /\ target \in [Analyses -> Sessions \cup {None}]
    /\ read \in [Analyses -> SUBSET rows]
    /\ draft \in [Analyses -> Draft]
    /\ now \in Nat \ {0}

(* What an analysis has read is of its session; what its draft cites is in  *)
(* the context built from that.                                             *)
Grounded(a) ==
    /\ \A x \in read[a] : x.session = target[a]
    /\ apc[a] = "idle" => read[a] = {}
    /\ apc[a] \in {"create_run", "score", "commit"} =>
         /\ draft[a].status \in Statuses
         /\ draft[a].cited \in Context(read[a]) \cup {None}

Scoring(a) == apc[a] = "commit" /\ draft[a].status # "failed"

(* Time stamps of drafts are past, and nobody else's.                       *)
Dated(a) ==
    /\ apc[a] \in {"score", "commit"} =>
         /\ draft[a].created_at \in 1 .. now - 1
         /\ \A run \in runs : run.created_at # draft[a].created_at
         /\ \A b \in Analyses :
              /\ apc[b] \in {"score", "commit"}
              /\ draft[b].created_at = draft[a].created_at
              => a = b
    /\ Scoring(a) =>
         /\ draft[a].measured_at \in 1 .. now - 1
         /\ draft[a].measured_at > draft[a].created_at
         /\ \A x \in scores : x.measured_at # draft[a].measured_at
         /\ \A b \in Analyses :
              Scoring(b) /\ draft[b].measured_at = draft[a].measured_at => a = b

(* What is stored belongs to analyses that have committed, each to one.     *)
Committed ==
    /\ \A run \in runs :
         /\ run.id \in Analyses
         /\ apc[run.id] \in {"stored", "analyzed", "failed"}
         /\ run.status \in Statuses
         /\ run.created_at \in 1 .. now - 1
         /\ (run.start = None) = (run.end = None)
    /\ \A x \in scores : x.measured_at \in 1 .. now - 1
    /\ \A a \in Analyses :
         apc[a] = "stored" => \E run \in runs : run.id = a

AnalysisInv ==
    /\ StagesTyped
    /\ \A a \in Analyses : Grounded(a)
    /\ \A a \in Analyses : Dated(a)
    /\ Committed
    /\ RunsAtomic
    /\ EvidenceInInput

(* No analysis has begun: AnalysisInv holds.                                *)
LEMMA AnalysisInvInit == AnalysisInit => AnalysisInv
BY DEF AnalysisInit, Init, AnalysisInv, StagesTyped, Stages, Draft, NoDraft,
   Grounded, Dated, Scoring, Committed, RunsAtomic, EvidenceInInput, MessagesIn

(* The context of a set of rows consists of rows of that set.               *)
LEMMA ContextRead == \A S : Context(S) \subseteq S
BY DEF Context, MessagesIn

(* While others write, what an analysis has read and stored stays as it is. *)
LEMMA OthersKeep ==
    ASSUME StoreInv, AnalysisInv, [SystemNext]_allVars, UNCHANGED analysisVars
    PROVE  AnalysisInv'
<1>1. rows \subseteq rows'
  BY RowsGrow
<1> USE DEF analysisVars, AnalysisInv
<1>2. StagesTyped'
  BY <1>1 DEF StagesTyped
<1>3. (\A a \in Analyses : Grounded(a))'
  BY DEF Grounded
<1>4. (\A a \in Analyses : Dated(a))'
  BY DEF Dated, Scoring
<1>5. Committed' /\ RunsAtomic'
  BY DEF Committed, RunsAtomic
<1>6. EvidenceInInput'
  BY <1>1 DEF EvidenceInInput, MessagesIn
<1> QED
  BY <1>2, <1>3, <1>4, <1>5, <1>6
(* Past time stamps stay past.                                              *)
LEMMA PastStaysPast ==
    ASSUME NEW m \in Nat, NEW n \in Nat, m <= n, NEW k \in 1 .. m - 1
    PROVE  k \in 1 .. n - 1
OBVIOUS

(* A step of one analysis that stores nothing has only its own part of the  *)
(* invariant to answer for.                                                 *)
LEMMA QuietAnalysisStep ==
    ASSUME AnalysisInv, StagesTyped', NEW a \in Analyses,
           UNCHANGED <<rows, runs, scores, events>>, now' >= now,
           \A b \in Analyses \ {a} : /\ apc'[b] = apc[b]
                                      /\ target'[b] = target[b]
                                      /\ read'[b] = read[b]
                                      /\ draft'[b] = draft[b],
           Grounded(a)', Dated(a)',
           (\E run \in runs : run.id = a) =>
              apc'[a] \in {"stored", "analyzed", "failed"},
           apc'[a] \in {"stored", "analyzed"} => \E run \in runs : run.id = a
    PROVE  AnalysisInv'
<1> USE DEF AnalysisInv
<1>n. now \in Nat \ {0} /\ now' \in Nat \ {0}
  BY DEF StagesTyped
<1>1. ASSUME NEW b \in Analyses PROVE Grounded(b)'
  BY DEF Grounded
<1>2. ASSUME NEW b \in Analyses PROVE Dated(b)'
  <2>1. CASE b = a
    BY <2>1
  <2>2. CASE b # a
    <3>1. Dated(b)
      OBVIOUS
    <3>2. \A k \in 1 .. now - 1 : k \in 1 .. now' - 1
      BY <1>n, PastStaysPast
    <3>3. ASSUME NEW c \in Analyses, c # b,
                 apc'[b] \in {"score", "commit"},
                 apc'[c] \in {"score", "commit"}
          PROVE  draft'[c].created_at # draft'[b].created_at
      BY <2>2, <3>1, <3>3 DEF Dated
    <3>4. ASSUME NEW c \in Analyses, c # b, Scoring(b)', Scoring(c)'
          PROVE  draft'[c].measured_at # draft'[b].measured_at
      BY <2>2, <3>1, <3>4 DEF Dated, Scoring
    <3> QED
      BY <2>2, <3>1, <3>2, <3>3, <3>4 DEF Dated, Scoring
  <2> QED
    BY <2>1, <2>2
<1>3. Committed'
  <2>1. \A k \in 1 .. now - 1 : k \in 1 .. now' - 1
    BY <1>n, PastStaysPast
  <2>2. \A run \in runs : run.id \in Analyses
    BY DEF Committed
  <2>3. \A run \in runs : apc'[run.id] \in {"stored", "analyzed", "failed"}
    BY <2>2 DEF Committed
  <2> QED
    BY <2>1, <2>2, <2>3 DEF Committed
<1>4. RunsAtomic'
  BY DEF RunsAtomic
<1>5. EvidenceInInput'
  BY DEF EvidenceInInput, MessagesIn
<1> QED
  BY <1>1, <1>2, <1>3, <1>4, <1>5

(* Every stage before the commit, and every stop, preserves AnalysisInv:    *)
(* what is drafted is nobody else's affair.                                 *)
LEMMA DraftingStep ==
    ASSUME StoreInv, AnalysisInv, NEW a \in Analyses, AnalysisNext(a),
           ~CommitAnalysis(a), UNCHANGED <<vars, statusVars>>
    PROVE  AnalysisInv'
<1>t. /\ StagesTyped /\ Grounded(a) /\ Dated(a) /\ Committed
      /\ rows' = rows /\ sessions' = sessions /\ rows \subseteq Row
  BY DEF AnalysisInv, vars, StoreInv, TypeInv, TypeOK
<1>s. /\ apc[a] = "stored" => \E run \in runs : run.id = a
      /\ \A run \in runs : run.id = a => apc[a] \in {"stored", "analyzed", "failed"}
  BY <1>t DEF Committed
<1> USE DEF StagesTyped
<1>1. ASSUME NEW s \in Sessions, StartAnalysis(a, s) PROVE AnalysisInv'
  <2>1. StagesTyped'
    BY <1>1, <1>t DEF StartAnalysis, Stages
  <2>2. Grounded(a)'
    BY <1>1, <1>t DEF StartAnalysis, Grounded
  <2>3. Dated(a)'
    BY <1>1, <1>t DEF StartAnalysis, Dated, Scoring
  <2> QED
    BY <1>1, <1>t, <1>s, <2>1, <2>2, <2>3, QuietAnalysisStep DEF StartAnalysis
<1>2. CASE ReadMessages(a) \/ ReadToolCalls(a) \/ ReadToolResults(a)
  <2> PICK table, here, next :
        /\ ReadTable(a, table, here, next)
        /\ here \in {"messages", "tool_calls", "tool_results"}
        /\ next \in {"tool_calls", "tool_results", "engine"}
    BY <1>2 DEF ReadMessages, ReadToolCalls, ReadToolResults
  <2>1. StagesTyped'
    BY <1>t DEF ReadTable, Stages
  <2>2. Grounded(a)'
    BY <1>t DEF ReadTable, Grounded
  <2>3. Dated(a)'
    BY <1>t DEF ReadTable, Dated, Scoring
  <2> QED
    BY <1>t, <1>s, <2>1, <2>2, <2>3, QuietAnalysisStep DEF ReadTable
<1>3. CASE RunEngine(a)
  <2> PICK outcome \in Outcomes, cited \in Context(read[a]) \cup {None} :
        draft' = [draft EXCEPT ![a] = [@ EXCEPT !.status = outcome,
                                                !.cited = cited]]
    BY <1>3 DEF RunEngine
  <2>c. cited \in Row \cup {None}
    BY <1>t, ContextRead
  <2>d. [draft[a] EXCEPT !.status = outcome, !.cited = cited] \in Draft
    BY <1>t, <2>c DEF Draft
  <2>1. StagesTyped'
    BY <1>3, <1>t, <2>c, <2>d DEF RunEngine, Stages, Draft
  <2>2. Grounded(a)'
    BY <1>3, <1>t DEF RunEngine, Grounded, Draft
  <2>3. Dated(a)'
    BY <1>3, <1>t DEF RunEngine, Dated, Scoring
  <2> QED
    BY <1>3, <1>t, <1>s, <2>1, <2>2, <2>3, QuietAnalysisStep DEF RunEngine
<1>4. CASE CreateRun(a)
  <2>1. StagesTyped'
    BY <1>4, <1>t DEF CreateRun, Stages, Draft
  <2>2. Grounded(a)'
    BY <1>4, <1>t DEF CreateRun, Grounded, Draft
  <2>3. Dated(a)'
    <3>1. /\ draft'[a].created_at = now
          /\ draft'[a].status = draft[a].status
          /\ now' = now + 1
          /\ ~Scoring(a)'
      BY <1>4, <1>t DEF CreateRun, Draft, Scoring
    <3>2. \A run \in runs : run.created_at # now
      BY <1>t DEF Committed
    <3>3. ASSUME NEW b \in Analyses, b # a, apc'[b] \in {"score", "commit"}
          PROVE  draft'[b].created_at # now
      BY <1>4, <1>t, <3>3 DEF CreateRun, AnalysisInv, Dated
    <3> QED
      BY <1>4, <1>t, <3>1, <3>2, <3>3 DEF CreateRun, Dated
  <2> QED
    BY <1>4, <1>t, <1>s, <2>1, <2>2, <2>3, QuietAnalysisStep DEF CreateRun
<1>5. CASE CreateScore(a)
  <2>1. StagesTyped'
    BY <1>5, <1>t DEF CreateScore, Stages, Draft
  <2>2. Grounded(a)'
    BY <1>5, <1>t DEF CreateScore, Grounded, Draft
  <2>3. Dated(a)'
    <3>1. /\ draft'[a].measured_at = now
          /\ draft'[a].created_at = draft[a].created_at
          /\ now' = now + 1
          /\ apc[a] = "score"
          /\ runs' = runs /\ scores' = scores
      BY <1>5, <1>t DEF CreateScore, Draft
    <3>2. /\ draft[a].created_at \in 1 .. now - 1
          /\ \A x \in scores : x.measured_at # now
          /\ \A run \in runs : run.created_at # draft[a].created_at
      BY <1>t, <3>1 DEF Committed, Dated
    <3>3. ASSUME NEW b \in Analyses, b # a
          PROVE  /\ apc'[b] = apc[b]
                 /\ draft'[b] = draft[b]
                 /\ Scoring(b) => draft[b].measured_at # now
      BY <1>5, <1>t, <3>3 DEF CreateScore, AnalysisInv, Dated
    <3>4. \A b \in Analyses :
            /\ apc[b] \in {"score", "commit"}
            /\ draft[b].created_at = draft[a].created_at
            => a = b
      BY <1>t, <3>1 DEF Dated
    <3> QED
      BY <1>t, <3>1, <3>2, <3>3, <3>4 DEF Dated, Scoring
  <2> QED
    BY <1>5, <1>t, <1>s, <2>1, <2>2, <2>3, QuietAnalysisStep DEF CreateScore
<1>6. CASE RespondRun(a) \/ FailAnalysis(a)
  <2>1. /\ apc' = [apc EXCEPT ![a] = apc'[a]]
        /\ apc'[a] \in {"analyzed", "failed"}
        /\ apc'[a] = "analyzed" => apc[a] = "stored"
        /\ Forget(a)
        /\ UNCHANGED <<runs, scores, events, now>>
    BY <1>6, <1>t DEF RespondRun, FailAnalysis
  <2>2. StagesTyped'
    BY <1>t, <2>1 DEF Forget, NoDraft, Draft, Stages
  <2>3. Grounded(a)' /\ Dated(a)'
    BY <1>t, <2>1 DEF Forget, Grounded, Dated, Scoring
  <2> QED
    BY <1>t, <1>s, <2>1, <2>2, <2>3, QuietAnalysisStep DEF Forget
<1> QED
  BY <1>1, <1>2, <1>3, <1>4, <1>5, <1>6 DEF AnalysisNext
(* What the commit stores: a range that spans the messages read, and a      *)
(* citation below one of them.                                              *)
StoredRun(a, start, end) ==
    [id |-> a, session |-> target[a], status |-> draft[a].status,
     start |-> start, end |-> end, created_at |-> draft[a].created_at,
     messages |-> {m.id : m \in MessagesIn(read[a])}]

CitedBelow(x, m) ==
    \/ x = m
    \/ x.table = "tool_call" /\ x.owner = m.id
    \/ \E c \in rows : /\ c.table = "tool_call"
                       /\ c.owner = m.id
                       /\ x.table = "tool_result"
                       /\ x.owner = c.id

(* A row of a context is a message that was read or hangs below one.        *)
LEMMA ContextBelow ==
    ASSUME NEW S, S \subseteq rows, NEW x \in Context(S)
    PROVE  \E m \in MessagesIn(S) : CitedBelow(x, m)
BY DEF Context, MessagesIn, CitedBelow

(* The range of a set of messages holds every one of them.                  *)
LEMMA RangeHolds ==
    ASSUME NEW S, S \subseteq Row, NEW start, NEW end, InputRange(S, start, end)
    PROVE  \A m \in MessagesIn(S) : start <= m.position /\ m.position <= end
<1>1. \A m \in MessagesIn(S) : m.position \in Nat
  BY DEF MessagesIn, Row
<1> QED
  BY <1>1 DEF InputRange, IsHighest

(* The commit preserves AnalysisInv: run, score and event appear together,  *)
(* under an id and time stamps that nothing else stored has.                *)
LEMMA CommitAnalysisStep ==
    ASSUME StoreInv, AnalysisInv, NEW a \in Analyses, CommitAnalysis(a),
           UNCHANGED <<vars, statusVars>>
    PROVE  AnalysisInv'
<1>t. /\ StagesTyped /\ Grounded(a) /\ Dated(a) /\ Committed
      /\ RunsAtomic /\ EvidenceInInput
      /\ rows' = rows /\ rows \subseteq Row /\ read[a] \subseteq rows
      /\ apc[a] = "commit" /\ apc' = [apc EXCEPT ![a] = "stored"]
      /\ UNCHANGED <<target, read, draft, now>>
      /\ draft[a].status \in Statuses
  BY DEF AnalysisInv, vars, StoreInv, TypeInv, TypeOK, CommitAnalysis,
     StagesTyped, Grounded
<1> PICK start, end : /\ InputRange(read[a], start, end)
                      /\ runs' = runs \cup {StoredRun(a, start, end)}
  BY DEF CommitAnalysis, StoredRun
<1> DEFINE run == StoredRun(a, start, end)
<1>r. /\ run.id = a /\ run.status = draft[a].status
      /\ run.start = start /\ run.end = end
      /\ run.created_at = draft[a].created_at
      /\ run.messages = {m.id : m \in MessagesIn(read[a])}
  BY DEF StoredRun
<1> HIDE DEF run
<1>c. /\ scores' = IF draft[a].status = "failed" THEN scores
                   ELSE scores \cup {ScoreRow(a, draft[a].measured_at)}
      /\ events' = IF draft[a].cited = None THEN events
                   ELSE events \cup {[run |-> a, cited |-> draft[a].cited]}
  BY DEF CommitAnalysis
<1>s. /\ ScoreRow(a, draft[a].measured_at).run = a
      /\ ScoreRow(a, draft[a].measured_at).measured_at = draft[a].measured_at
  BY DEF ScoreRow
<1>f. /\ \A x \in runs : x.id # a
      /\ \A x \in scores : x.run # a
      /\ \A x \in events : x.run # a
  BY <1>t DEF Committed, RunsAtomic
<1>u. runs' = runs \cup {run}
  BY DEF run
<1>1. StagesTyped'
  BY <1>t DEF StagesTyped, Stages
<1>2. ASSUME NEW b \in Analyses PROVE Grounded(b)'
  BY <1>t DEF Grounded, StagesTyped, AnalysisInv
<1>3. ASSUME NEW b \in Analyses PROVE Dated(b)'
  <2>1. CASE b = a
    BY <1>t, <2>1 DEF Dated, Scoring, StagesTyped
  <2>2. CASE b # a
    <3>1. Dated(b) /\ apc'[b] = apc[b]
      BY <1>t, <2>2 DEF AnalysisInv, StagesTyped
    <3>2. \A c \in Analyses :
            apc'[c] \in {"score", "commit"} => apc[c] = apc'[c]
      BY <1>t DEF StagesTyped
    <3>3. apc[b] \in {"score", "commit"} =>
            \A x \in runs' : x.created_at # draft[b].created_at
      BY <1>t, <1>r, <1>u, <2>2, <3>1 DEF Dated
    <3>4. Scoring(b) => \A x \in scores' : x.measured_at # draft[b].measured_at
      BY <1>t, <1>c, <1>s, <2>2, <3>1 DEF Dated, Scoring
    <3> QED
      BY <1>t, <3>1, <3>2, <3>3, <3>4 DEF Dated, Scoring
  <2> QED
    BY <2>1, <2>2
<1>4. Committed'
  <2>1. (start = None) = (end = None)
    <3>1. \A m \in MessagesIn(read[a]) : m.position \in Nat
      BY <1>t DEF MessagesIn, Row
    <3> QED
      BY <3>1 DEF InputRange, IsHighest
  <2>2. draft[a].created_at \in 1 .. now - 1
    BY <1>t DEF Dated
  <2>3. ASSUME NEW x \in runs'
        PROVE  /\ x.id \in Analyses
               /\ apc'[x.id] \in {"stored", "analyzed", "failed"}
               /\ x.status \in Statuses
               /\ x.created_at \in 1 .. now - 1
               /\ (x.start = None) = (x.end = None)
    BY <1>t, <1>r, <1>u, <2>1, <2>2 DEF Committed, StagesTyped
  <2>4. \A x \in scores' : x.measured_at \in 1 .. now - 1
    BY <1>t, <1>c, <1>s DEF Committed, Dated, Scoring
  <2>5. ASSUME NEW b \in Analyses, apc'[b] = "stored"
        PROVE  \E x \in runs' : x.id = b
    BY <1>t, <1>r, <1>u, <2>5 DEF Committed, StagesTyped
  <2> QED
    BY <1>t, <2>3, <2>4, <2>5 DEF Committed
<1>5. RunsAtomic'
  <2>1. \A x \in scores' : \E y \in runs' : y.id = x.run
    BY <1>t, <1>r, <1>u, <1>c, <1>s DEF RunsAtomic
  <2>2. \A x \in events' : \E y \in runs' : y.id = x.run
    BY <1>t, <1>r, <1>u, <1>c DEF RunsAtomic
  <2>3. ASSUME NEW y \in runs'
        PROVE  (y.status # "failed") = (\E x \in scores' : x.run = y.id)
    <3>1. CASE y = run
      BY <1>r, <1>c, <1>s, <1>f, <3>1
    <3>2. CASE y \in runs
      BY <1>t, <1>c, <1>s, <1>f, <3>2 DEF RunsAtomic
    <3> QED
      BY <1>u, <3>1, <3>2
  <2>4. \A b \in Analyses : apc'[b] = "analyzed" => \E y \in runs' : y.id = b
    BY <1>t, <1>u DEF RunsAtomic, StagesTyped
  <2> QED
    BY <2>1, <2>2, <2>3, <2>4 DEF RunsAtomic
<1>6. EvidenceInInput'
  <2> SUFFICES ASSUME NEW x \in events', NEW y \in runs', x.run = y.id
               PROVE  \E m \in MessagesIn(rows) :
                        /\ m.id \in y.messages
                        /\ y.start <= m.position /\ m.position <= y.end
                        /\ CitedBelow(x.cited, m)
    BY <1>t DEF EvidenceInInput, CitedBelow, MessagesIn
  <2>1. CASE x \in events
    <3>1. y \in runs
      BY <1>f, <1>r, <1>u, <2>1
    <3> QED
      BY <1>t, <2>1, <3>1 DEF EvidenceInInput, CitedBelow
  <2>2. CASE x \notin events
    <3>1. x.cited \in Context(read[a]) /\ y = run
      BY <1>t, <1>c, <1>f, <1>r, <1>u, <2>2 DEF Grounded
    <3>2. PICK m \in MessagesIn(read[a]) : CitedBelow(x.cited, m)
      BY <1>t, <3>1, ContextBelow
    <3>3. start <= m.position /\ m.position <= end
      BY <1>t, RangeHolds
    <3> QED
      BY <1>t, <1>r, <3>1, <3>2, <3>3 DEF MessagesIn
  <2> QED
    BY <2>1, <2>2
<1> QED
  BY <1>1, <1>2, <1>3, <1>4, <1>5, <1>6 DEF AnalysisInv

(* AnalysisInv is an invariant of the composed system.                      *)
LEMMA AnalysisInvariant == SystemSpec => [](StoreInv /\ AnalysisInv)
<1>1. SystemSpec => []StoreInv
  BY SystemIngests, StoreInvariant, PTL
<1>2. StoreInv /\ AnalysisInv /\ [SystemNext]_allVars => AnalysisInv'
  BY OthersKeep, DraftingStep, CommitAnalysisStep DEF SystemNext, allVars
<1> QED
  BY <1>1, <1>2, AnalysisInvInit, PTL DEF SystemSpec

(* Every variable of an analysis keeps its type; what it has read stays     *)
(* stored, and time stamps lie in the past.                                 *)
THEOREM AnalysisTypeCorrect == SystemSpec => []AnalysisTypeOK
<1>1. AnalysisInv => AnalysisTypeOK
  BY DEF AnalysisInv, StagesTyped, Stages, Committed, AnalysisTypeOK
<1> QED
  BY <1>1, AnalysisInvariant, PTL

(* A run, its score and its events are stored together or not at all,       *)
(* however many analyses overlap and wherever they stop.                    *)
THEOREM RunsStoredWhole == SystemSpec => []RunsAtomic
<1>1. AnalysisInv => RunsAtomic
  BY DEF AnalysisInv
<1> QED
  BY <1>1, AnalysisInvariant, PTL

(* Whatever is ingested between the three reads, a detection cites only     *)
(* what hangs below a message within its run's input range.                 *)
THEOREM EvidenceCovered == SystemSpec => []EvidenceInInput
<1>1. AnalysisInv => EvidenceInInput
  BY DEF AnalysisInv
<1> QED
  BY <1>1, AnalysisInvariant, PTL
-----------------------------------------------------------------------------
(* The range of a run is that of the messages it has read, and of no other  *)
(* message of the session: ids are unique.                                  *)
LEMMA CommitRanged ==
    ASSUME NEW S, NEW run, NEW start, NEW end,
           S \subseteq rows, InputRange(S, start, end), rows \subseteq Row,
           \A x, y \in rows : x.id = y.id => x = y,
           \A x \in S : x.session = run.session,
           run.messages = {m.id : m \in MessagesIn(S)},
           run.start = start, run.end = end
    PROVE  /\ run.messages \subseteq {m.id : m \in Results!Messages(run.session)}
           /\ Results!Ranged(run)
<1> DEFINE read_numbers == {m.position : m \in MessagesIn(S)}
           numbers == {m.position : m \in {x \in Results!Messages(run.session) :
                                             x.id \in run.messages}}
<1>1. {x \in Results!Messages(run.session) : x.id \in run.messages} = MessagesIn(S)
  BY DEF Results!Messages, MessagesIn
<1>2. numbers = read_numbers
  BY <1>1
<1>3. read_numbers \subseteq Nat
  BY DEF MessagesIn, Row
<1>4. run.messages = {} <=> read_numbers = {}
  <2>1. run.messages = {} <=> MessagesIn(S) = {}
    <3>1. \A m \in MessagesIn(S) : m.id \in run.messages
      OBVIOUS
    <3>2. \A i \in run.messages : \E m \in MessagesIn(S) : i = m.id
      OBVIOUS
    <3> QED
      BY <3>1, <3>2
  <2>2. read_numbers = {} <=> MessagesIn(S) = {}
    BY SMTT(30)
  <2> QED
    BY <2>1, <2>2
<1>5. CASE read_numbers = {}
  BY <1>1, <1>4, <1>5 DEF Results!Ranged, InputRange
<1>6. CASE read_numbers # {}
  <2>1. /\ start \in read_numbers /\ end \in read_numbers
        /\ \A n \in read_numbers : start <= n /\ n <= end
    BY <1>6 DEF InputRange, IsHighest
  <2>2. {run.start, run.end} \subseteq numbers
    BY <1>2, <2>1
  <2>3. \A n \in numbers : run.start <= n /\ n <= run.end
    BY <1>2, <2>1
  <2> QED
    BY <1>1, <1>4, <1>6, <2>2, <2>3 DEF Results!Ranged
<1> QED
  BY <1>1, <1>5, <1>6 DEF Results!Messages

(* CommitAnalysis is the one step at which the store changes.               *)
LEMMA CommitMaps ==
    ASSUME StoreInv, AnalysisInv, NEW a \in Analyses, CommitAnalysis(a),
           UNCHANGED <<vars, statusVars>>
    PROVE  Results!Next
<1>t. /\ StagesTyped /\ Grounded(a) /\ Dated(a) /\ Committed /\ RunsAtomic
      /\ rows' = rows /\ rows \subseteq Row /\ read[a] \subseteq rows
      /\ apc[a] = "commit"
      /\ \A x, y \in rows : x.id = y.id => x = y
      /\ \A x \in read[a] : x.session = target[a]
      /\ draft[a].cited \in Context(read[a]) \cup {None}
  BY DEF AnalysisInv, vars, StoreInv, TypeInv, TypeOK, RowOrigin, CommitAnalysis,
     StagesTyped, Grounded
<1> PICK start, end : /\ InputRange(read[a], start, end)
                      /\ runs' = runs \cup {StoredRun(a, start, end)}
  BY DEF CommitAnalysis, StoredRun
<1> DEFINE run == StoredRun(a, start, end)
           score == ScoreRow(a, draft[a].measured_at)
           event == [run |-> a, cited |-> draft[a].cited]
<1>r. /\ run.id = a /\ run.status = draft[a].status
      /\ run.session = target[a]
      /\ run.start = start /\ run.end = end
      /\ run.created_at = draft[a].created_at
      /\ run.messages = {m.id : m \in MessagesIn(read[a])}
  BY DEF StoredRun
<1>s. /\ score.run = a /\ score.session = target[a]
      /\ score.measured_at = draft[a].measured_at
  BY DEF ScoreRow
<1>e. event.run = a /\ event.cited = draft[a].cited
  OBVIOUS
<1>f. /\ \A x \in runs : x.id # a
      /\ \A x \in scores : x.run # a
      /\ \A x \in events : x.run # a
  BY <1>t DEF Committed, RunsAtomic
<1>c. /\ runs' = runs \cup {run}
      /\ scores' = IF draft[a].status = "failed" THEN scores
                   ELSE scores \cup {score}
      /\ events' = IF draft[a].cited = None THEN events
                   ELSE events \cup {event}
  BY DEF CommitAnalysis
<1> HIDE DEF run, score, event
<1>1. \A old \in runs : old.id # run.id /\ old.created_at # run.created_at
  BY <1>t, <1>r, <1>f DEF Dated
<1>2. /\ run.messages \subseteq {m.id : m \in Results!Messages(run.session)}
      /\ Results!Ranged(run)
  BY <1>t, <1>r, CommitRanged
<1>3. \/ run.status = "failed" /\ UNCHANGED scores
      \/ /\ run.status # "failed"
         /\ \E x \in scores' \ scores :
              /\ x.run = run.id
              /\ x.session = run.session
              /\ x.measured_at > run.created_at
              /\ \A old \in scores : old.measured_at # x.measured_at
              /\ scores' = scores \cup {x}
  BY <1>t, <1>r, <1>s, <1>f, <1>c DEF Dated, Scoring
<1>4. \/ UNCHANGED events
      \/ \E x \in events' \ events :
           /\ x.run = run.id
           /\ Results!Cited(run, x.cited)
           /\ events' = events \cup {x}
  <2>1. CASE draft[a].cited = None
    BY <1>c, <2>1
  <2>2. CASE draft[a].cited # None
    <3>1. draft[a].cited \in Context(read[a])
      BY <1>t, <2>2
    <3>2. PICK m \in MessagesIn(read[a]) : CitedBelow(draft[a].cited, m)
      BY <1>t, <3>1, ContextBelow
    <3>3. Results!Cited(run, draft[a].cited)
      BY <1>t, <1>r, <3>1, <3>2, ContextRead DEF Results!Cited
    <3> QED
      BY <1>r, <1>c, <1>e, <1>f, <2>2, <3>3
  <2> QED
    BY <2>1, <2>2
<1>5. Results!StoreRun(run)
  BY <1>r, <1>c, <1>1, <1>2, <1>3, <1>4 DEF Results!StoreRun
<1> QED
  BY <1>c, <1>r, <1>f, <1>5 DEF Results!Next

(* To everybody else an analysis is one step that stores a run whole; all   *)
(* its other statements, and everything ingestion does, change no result.   *)
THEOREM ResultsImplemented == SystemSpec => ImplementsAnalysisStore
<1>1. AnalysisInit => Results!Init
  BY DEF AnalysisInit, Results!Init
<1>2. StoreInv /\ AnalysisInv /\ [SystemNext]_allVars
        => [Results!Next]_Results!resultVars
  <2> SUFFICES ASSUME StoreInv, AnalysisInv, [SystemNext]_allVars
               PROVE  [Results!Next]_Results!resultVars
    OBVIOUS
  <2>1. CASE UNCHANGED analysisVars
    BY <2>1 DEF analysisVars, Results!resultVars
  <2>2. ASSUME NEW a \in Analyses, AnalysisNext(a), ~CommitAnalysis(a)
        PROVE  UNCHANGED Results!resultVars
    BY <2>2 DEF AnalysisNext, StartAnalysis, ReadMessages, ReadToolCalls,
       ReadToolResults, ReadTable, RunEngine, CreateRun, CreateScore,
       RespondRun, FailAnalysis, Results!resultVars
  <2> QED
    BY <2>1, <2>2, CommitMaps DEF SystemNext, allVars
<1> QED
  BY <1>1, <1>2, AnalysisInvariant, PTL
  DEF SystemSpec, ImplementsAnalysisStore, Results!Spec

-----------------------------------------------------------------------------
(* Status requests.  Once one has read the latest run, that run is stored   *)
(* and at least as new as all that were stored when the request came.       *)
HasLatest(q) == rpc[q] \in {"last_sequence", "count", "since", "answered"}

Unfinished == {"messages", "tool_calls", "tool_results", "engine",
               "create_run", "score", "commit"}

Targeted == \A a \in Analyses : apc[a] \in Unfinished => target[a] \in Sessions

StatusInv ==
    /\ runs \subseteq Run
    /\ Targeted
    /\ DOMAIN rpc = Readers /\ DOMAIN status = Readers /\ DOMAIN known = Readers
    /\ \A q \in Readers :
         /\ DOMAIN status[q] = DOMAIN NoStatus
         /\ known[q].runs \subseteq RunsOf(status[q].session)
         /\ HasLatest(q) =>
              \A run \in known[q].runs :
                 /\ status[q].run \in runs
                 /\ status[q].run.created_at >= run.created_at

(* Nobody has asked.                                                        *)
LEMMA StatusInit == AnalysisInit => StatusInv
BY DEF AnalysisInit, StatusInv, NoStatus, HasLatest, Targeted, Unfinished

(* An analysis under way is of a session.                                   *)
LEMMA TargetedStep ==
    ASSUME AnalysisInv, Targeted, NEW a \in Analyses, AnalysisNext(a)
    PROVE  Targeted'
<1>t. apc \in [Analyses -> Stages] /\ target \in [Analyses -> Sessions \cup {None}]
  BY DEF AnalysisInv, StagesTyped
<1> USE <1>t DEF Targeted, Unfinished
<1>1. ASSUME NEW s \in Sessions, StartAnalysis(a, s) PROVE Targeted'
  BY <1>1 DEF StartAnalysis
<1>2. CASE ReadMessages(a) \/ ReadToolCalls(a) \/ ReadToolResults(a)
  BY <1>2 DEF ReadMessages, ReadToolCalls, ReadToolResults, ReadTable
<1>3. CASE RunEngine(a) \/ CreateRun(a) \/ CreateScore(a)
  <2>1. apc[a] \in Unfinished /\ target' = target
    BY <1>3 DEF RunEngine, CreateRun, CreateScore
  <2>2. \A b \in Analyses \ {a} : apc'[b] = apc[b]
    BY <1>3 DEF RunEngine, CreateRun, CreateScore
  <2> QED
    BY <2>1, <2>2
<1>4. CASE CommitAnalysis(a)
  <2>1. target' = target /\ \A b \in Analyses \ {a} : apc'[b] = apc[b]
    BY <1>4 DEF CommitAnalysis
  <2>2. apc[a] \in Unfinished
    BY <1>4 DEF CommitAnalysis
  <2> QED
    BY <2>1, <2>2
<1>5. CASE RespondRun(a) \/ FailAnalysis(a)
  BY <1>5 DEF RespondRun, FailAnalysis, Forget
<1> QED
  BY <1>1, <1>2, <1>3, <1>4, <1>5 DEF AnalysisNext

(* Runs are only ever added, and what is added is a run.                    *)
LEMMA RunsAdded ==
    ASSUME StoreInv, AnalysisInv, StatusInv, NEW a \in Analyses, AnalysisNext(a)
    PROVE  runs \subseteq runs' /\ runs' \subseteq Run
<1>1. CASE CommitAnalysis(a)
  <2> PICK start, end : /\ InputRange(read[a], start, end)
                        /\ runs' = runs \cup {StoredRun(a, start, end)}
    BY <1>1 DEF CommitAnalysis, StoredRun
  <2>1. read[a] \subseteq Row
    BY DEF StoreInv, TypeInv, TypeOK, AnalysisInv, StagesTyped
  <2>2. \A m \in MessagesIn(read[a]) : m.position \in Nat /\ m.id \in Requests
    BY <2>1 DEF MessagesIn, Row
  <2>3. start \in Nat \cup {None} /\ end \in Nat \cup {None}
    BY <2>2 DEF InputRange, IsHighest
  <2>4. /\ draft[a].created_at \in Nat /\ draft[a].status \in Statuses
        /\ target[a] \in Sessions
    BY <1>1 DEF CommitAnalysis, AnalysisInv, StagesTyped, Draft, Grounded,
       StatusInv, Targeted, Unfinished
  <2>5. {m.id : m \in MessagesIn(read[a])} \in SUBSET Requests
    BY <2>2
  <2>6. StoredRun(a, start, end) \in Run
    BY <2>3, <2>4, <2>5 DEF StoredRun, Run
  <2> QED
    BY <2>6 DEF StatusInv
<1>2. CASE ~CommitAnalysis(a)
  BY <1>2 DEF AnalysisNext, StartAnalysis, ReadTable, ReadMessages,
     ReadToolCalls, ReadToolResults, RunEngine, CreateRun, CreateScore,
     RespondRun, FailAnalysis, StatusInv
<1> QED
  BY <1>1, <1>2

(* A status request is at one statement at a time, and the runs it reads    *)
(* include those it is held to.                                             *)
LEMMA StatusStep ==
    ASSUME StatusInv, NEW q \in Readers, StatusNext(q),
           UNCHANGED <<runs, apc, target>>
    PROVE  StatusInv'
<1> USE DEF StatusInv, Targeted
<1>1. \A run \in runs : run.created_at \in Nat
  BY DEF Run
<1>2. \A s : RunsOf(s)' = RunsOf(s)
  BY DEF RunsOf
<1>3. ASSUME NEW s \in Sessions, StartStatus(q, s) PROVE StatusInv'
  BY <1>2, <1>3 DEF StartStatus, HasLatest, NoStatus
<1>4. CASE ReadLatestRun(q)
  <2>1. /\ known' = known
        /\ rpc' = [rpc EXCEPT ![q] = "last_sequence"]
        /\ \A p \in Readers \ {q} : status'[p] = status[p]
        /\ DOMAIN status' = Readers
        /\ DOMAIN status'[q] = DOMAIN NoStatus
        /\ status'[q].session = status[q].session
    BY <1>4 DEF ReadLatestRun, NoStatus
  <2>2. \A run \in RunsOf(status[q].session) :
          /\ status'[q].run \in runs
          /\ status'[q].run.created_at >= run.created_at
    BY <1>1, <1>4 DEF ReadLatestRun, IsNewestRun, RunsOf, NoStatus
  <2> QED
    BY <1>2, <2>1, <2>2 DEF HasLatest
<1>5. CASE ReadLastSequence(q) \/ CountMessages(q) \/ CountSince(q)
  <2>1. PICK x : /\ \/ status' = [status EXCEPT ![q].last = x]
                    \/ status' = [status EXCEPT ![q].count = x]
                    \/ status' = [status EXCEPT ![q].since = x]
                 /\ known' = known /\ HasLatest(q)
                 /\ \E next : rpc' = [rpc EXCEPT ![q] = next]
    BY <1>5 DEF ReadLastSequence, CountMessages, CountSince, HasLatest
  <2>2. /\ \A p \in Readers \ {q} : status'[p] = status[p] /\ rpc'[p] = rpc[p]
        /\ DOMAIN status' = Readers /\ DOMAIN rpc' = Readers
    BY <2>1
  <2>3. /\ DOMAIN status'[q] = DOMAIN NoStatus
        /\ status'[q].session = status[q].session
        /\ status'[q].run = status[q].run
    BY <2>1 DEF NoStatus
  <2> QED
    BY <1>2, <2>1, <2>2, <2>3 DEF HasLatest
<1> QED
  BY <1>3, <1>4, <1>5 DEF StatusNext

(* A status never goes back behind a run that was stored before it was      *)
(* asked for, whatever is ingested and analysed between its four reads.     *)
THEOREM StatusNeverGoesBack == SystemSpec => []StatusSeesStoredRuns
<1>1. StatusInv => StatusSeesStoredRuns
  BY RunAssumption DEF StatusInv, StatusSeesStoredRuns, HasLatest
<1>2. StoreInv /\ AnalysisInv /\ StatusInv /\ [SystemNext]_allVars => StatusInv'
  <2> SUFFICES ASSUME StoreInv, AnalysisInv, StatusInv, [SystemNext]_allVars
               PROVE  StatusInv'
    OBVIOUS
  <2>1. ASSUME runs \subseteq runs', runs' \subseteq Run, Targeted', UNCHANGED statusVars
        PROVE  StatusInv'
    BY <2>1 DEF StatusInv, HasLatest, statusVars, RunsOf
  <2>2. ASSUME NEW a \in Analyses, AnalysisNext(a), UNCHANGED statusVars
        PROVE  StatusInv'
    BY <2>1, <2>2, RunsAdded, TargetedStep DEF StatusInv
  <2>3. CASE UNCHANGED <<analysisVars, statusVars>>
    BY <2>1, <2>3 DEF analysisVars, StatusInv, Targeted
  <2>4. ASSUME NEW q \in Readers, StatusNext(q), UNCHANGED analysisVars
        PROVE  StatusInv'
    BY <2>4, StatusStep DEF analysisVars
  <2> QED
    BY <2>2, <2>3, <2>4 DEF SystemNext, allVars
<1> QED
  BY <1>1, <1>2, StatusInit, AnalysisInvariant, PTL DEF SystemSpec
-----------------------------------------------------------------------------
(* Fresh statuses.  Nobody chooses a number: then messages are stored in    *)
(* the order of their numbers, and who has read one of them has read all    *)
(* below it.                                                                *)
ServerNumbers == \A p \in Payloads : p.table = "message" => p.position = None

Dense ==
    \A x \in MessagesIn(rows) : \A n \in 1 .. x.position :
        \E y \in MessagesIn(rows) : y.session = x.session /\ y.position = n

Counted(r) ==
    /\ pc[r] \in {"insert", "inserted"}
    /\ payload[r].table = "message"
    => position[r] >= 1

DenseInv == Dense /\ \A r \in Requests : Counted(r)

(* The server counts messages from 1.                                       *)
LEMMA CountedStep ==
    ASSUME ServerNumbers, StoreInv, OwnerInv, [Next]_vars, NEW r \in Requests,
           Counted(r)
    PROVE  Counted(r)'
<1>t. /\ TypeInv
      /\ pc \in [Requests -> {"idle"} \cup Running \cup Answered]
      /\ position \in [Requests -> Nat]
      /\ pc[r] # "idle" => payload[r] \in Payloads
      /\ rows \subseteq Row
  BY DEF StoreInv, TypeInv, TypeOK
<1>1. CASE pc[r] \in {"insert", "inserted"}
  BY <1>1, <1>t, Settled DEF Counted
<1>2. CASE pc[r] \notin {"insert", "inserted"}
  <2> SUFFICES ASSUME pc'[r] \in {"insert", "inserted"},
                      payload'[r].table = "message"
               PROVE  position'[r] >= 1
    BY DEF Counted
  <2>1. ChooseSequence(r) \/ ChooseCallIndex(r) \/ FindResult(r)
    <3>1. ~Rests(r)
      BY <1>2 DEF Rests
    <3>2. CASE GetSession(r)
      <4>1. payload[r].table \in Tables
        BY <1>t, <3>2 DEF GetSession, TypeInv, TypeOK, Payload
      <4> QED
        BY <1>t, <3>2, <4>1 DEF GetSession, FirstCheck, Tables, Goto
    <3> QED
      BY <1>2, <1>t, <3>1, <3>2, MovesOrRests
      DEF Moves, Handle, Goto, Receive, DeduplicateMessage, FindMessage,
          FindToolCall, Insert, Commit, Respond, Fail
  <2>2. CASE ChooseSequence(r)
    <3>1. payload[r].position = None
      BY <1>t, <2>2 DEF ChooseSequence, OwnerInv, LookedUp, ServerNumbers
    <3>2. PositionsOf("message", payload[r].session) \subseteq Nat
      BY <1>t DEF PositionsOf, RowsOf, Row
    <3> QED
      BY <1>t, <2>2, <3>1, <3>2 DEF ChooseSequence
  <2>3. CASE ChooseCallIndex(r) \/ FindResult(r)
    BY <2>3 DEF ChooseCallIndex, FindResult, OwnerInv, LookedUp
  <2> QED
    BY <2>1, <2>2, <2>3
<1> QED
  BY <1>1, <1>2

(* A message that is committed has the number one above all that are.       *)
LEMMA NewMessage ==
    ASSUME ServerNumbers, StoreInv, OwnerInv, AutoNumbersLeaveNoGap',
           [Next]_vars, DenseInv, NEW x \in MessagesIn(rows'), x \notin rows
    PROVE  /\ rows' = rows \cup {x}
           /\ x.position > 1 =>
                \E y \in MessagesIn(rows) : /\ y.session = x.session
                                           /\ y.position = x.position - 1
           /\ \A y \in MessagesIn(rows) :
                y.session = x.session => y.position < x.position
<1> DEFINE r == x.id
<1>t. TypeInv /\ rows \subseteq Row
  BY DEF StoreInv, TypeInv, TypeOK
<1>1. r \in Requests /\ Commit(r) /\ x = RowFor(r) /\ x.table = "message"
  BY <1>t, Growth DEF MessagesIn
<1>2. /\ rows' = rows \cup {x} /\ pc[r] = "inserted"
      /\ payload' = payload /\ payload[r] \in Payloads
      /\ x.table = payload[r].table /\ x.owner = payload[r].owner
      /\ x.session = payload[r].session /\ x.position = position[r]
  BY <1>1, <1>t DEF Commit, RowFor, TypeInv, TypeOK
<1>3. /\ payload[r].position = None /\ x.owner = x.session
      /\ x.position \in Nat /\ x.position >= 1
  BY <1>1, <1>2, <1>t DEF ServerNumbers, TypeInv, TypeOK, DenseInv, Counted
<1>4. \A y \in MessagesIn(rows) : y.owner = y.session /\ y.position \in Nat
  BY <1>t DEF OwnerInv, Hangs, MessagesIn, Row
<1>5. \A y \in rows : KeyOf(y) # KeyOf(x)
  BY <1>1, <1>2 DEF StoreInv, KeysHeld, UniqueKey, KeyOf
<1>6. ASSUME x.position > 1
      PROVE  \E y \in MessagesIn(rows) : /\ y.session = x.session
                                        /\ y.position = x.position - 1
  <2>1. PICK y \in rows' : KeyOf(y) = <<x.table, x.owner, x.position - 1>>
    BY <1>1, <1>2, <1>3, <1>6 DEF AutoNumbersLeaveNoGap, FirstPosition, KeyOf
  <2>2. y \in rows /\ y.table = "message" /\ y.position = x.position - 1
    BY <1>1, <1>2, <1>3, <2>1 DEF KeyOf
  <2> QED
    BY <1>3, <1>4, <2>1, <2>2 DEF KeyOf, MessagesIn
<1>7. ASSUME NEW y \in MessagesIn(rows), y.session = x.session,
             ~(y.position < x.position)
      PROVE  FALSE
  <2>1. x.position \in 1 .. y.position
    BY <1>3, <1>4, <1>7
  <2>2. PICK z \in MessagesIn(rows) :
          z.session = x.session /\ z.position = x.position
    BY <1>7, <2>1 DEF DenseInv, Dense
  <2> QED
    BY <1>1, <1>3, <1>4, <1>5, <2>2 DEF MessagesIn, KeyOf
<1> QED
  BY <1>2, <1>6, <1>7

(* Numbers stay dense.                                                      *)
LEMMA DenseStep ==
    ASSUME ServerNumbers, StoreInv, OwnerInv, AutoNumbersLeaveNoGap',
           [Next]_vars, DenseInv
    PROVE  DenseInv'
<1>t. TypeInv /\ rows \subseteq Row /\ TypeInv' /\ rows' \subseteq Row
  BY TypeStep DEF StoreInv, TypeInv, TypeOK
<1>g. rows \subseteq rows'
  BY <1>t, Growth
<1>c. \A r \in Requests : Counted(r)'
  BY CountedStep DEF DenseInv
<1> SUFFICES ASSUME NEW x \in MessagesIn(rows'), NEW n \in 1 .. x.position
             PROVE  \E y \in MessagesIn(rows') :
                      y.session = x.session /\ y.position = n
  BY <1>c DEF DenseInv, Dense, MessagesIn
<1>1. x.position \in Nat
  BY <1>t DEF MessagesIn, Row
<1>2. CASE x \in rows
  BY <1>g, <1>2 DEF DenseInv, Dense, MessagesIn
<1>3. CASE x \notin rows /\ n = x.position
  BY <1>3
<1>4. CASE x \notin rows /\ n # x.position
  <2>1. PICK y \in MessagesIn(rows) :
          y.session = x.session /\ y.position = x.position - 1
    BY <1>1, <1>4, NewMessage
  <2>2. n \in 1 .. y.position
    BY <1>1, <1>4, <2>1
  <2> QED
    BY <1>g, <2>1, <2>2 DEF DenseInv, Dense, MessagesIn
<1> QED
  BY <1>2, <1>3, <1>4

(* Whatever has read a message has read all stored messages below it; the   *)
(* range of a run ends at one of its messages.                              *)
CoverInv ==
    /\ \A a \in Analyses : \A x \in MessagesIn(read[a]), m \in MessagesIn(rows) :
         m.session = x.session /\ m.position <= x.position => m \in read[a]
    /\ \A run \in runs :
         /\ run.end = None => run.messages = {}
         /\ run.end # None =>
              /\ \E x \in MessagesIn(rows) :
                    x.session = run.session /\ x.position = run.end
              /\ \A m \in MessagesIn(rows) :
                    m.session = run.session /\ m.position <= run.end
                    => m.id \in run.messages

(* Ingestion adds messages above all that have been read.                   *)
LEMMA CoverIngest ==
    ASSUME ServerNumbers, StoreInv, OwnerInv, AutoNumbersLeaveNoGap',
           [Next]_vars, DenseInv, AnalysisInv, CoverInv,
           UNCHANGED <<read, runs>>
    PROVE  CoverInv'
<1>t. TypeInv /\ rows \subseteq Row /\ TypeInv' /\ rows' \subseteq Row
  BY TypeStep DEF StoreInv, TypeInv, TypeOK
<1>g. rows \subseteq rows'
  BY <1>t, Growth
<1>p. \A m \in MessagesIn(rows') : m.position \in Nat
  BY <1>t DEF MessagesIn, Row
<1>n. ASSUME NEW m \in MessagesIn(rows'), m \notin rows,
             NEW x \in MessagesIn(rows), m.session = x.session
      PROVE  ~(m.position <= x.position)
  <2>1. x.position < m.position
    BY <1>n, NewMessage
  <2> QED
    BY <1>p, <1>g, <2>1 DEF MessagesIn
<1>1. ASSUME NEW a \in Analyses, NEW x \in MessagesIn(read[a]),
             NEW m \in MessagesIn(rows'),
             m.session = x.session, m.position <= x.position
      PROVE  m \in read[a]
  <2>1. x \in MessagesIn(rows)
    BY DEF AnalysisInv, StagesTyped, MessagesIn
  <2>2. m \in MessagesIn(rows)
    BY <1>1, <1>n, <2>1 DEF MessagesIn
  <2> QED
    BY <1>1, <2>2 DEF CoverInv
<1>2. ASSUME NEW run \in runs, run.end # None
      PROVE  /\ \E x \in MessagesIn(rows') :
                   x.session = run.session /\ x.position = run.end
             /\ \A m \in MessagesIn(rows') :
                   m.session = run.session /\ m.position <= run.end
                   => m.id \in run.messages
  <2>1. PICK x \in MessagesIn(rows) :
          x.session = run.session /\ x.position = run.end
    BY <1>2 DEF CoverInv
  <2>2. ASSUME NEW m \in MessagesIn(rows'),
               m.session = run.session, m.position <= run.end
        PROVE  m.id \in run.messages
    <3>1. m \in MessagesIn(rows)
      BY <1>n, <2>1, <2>2 DEF MessagesIn
    <3> QED
      BY <1>2, <2>2, <3>1 DEF CoverInv
  <2> QED
    BY <1>g, <2>1, <2>2 DEF MessagesIn
<1> QED
  BY <1>1, <1>2 DEF CoverInv, MessagesIn

(* One statement reads all messages of a session, and a run is stamped with *)
(* the range of what was read.                                              *)
LEMMA CoverAnalyse ==
    ASSUME StoreInv, AnalysisInv, CoverInv, NEW a \in Analyses,
           AnalysisNext(a), UNCHANGED vars
    PROVE  CoverInv'
<1>t. /\ rows' = rows /\ rows \subseteq Row
      /\ read \in [Analyses -> SUBSET rows]
      /\ \A x \in read[a] : x.session = target[a]
  BY DEF vars, StoreInv, TypeInv, TypeOK, AnalysisInv, StagesTyped, Grounded
<1>1. CASE ReadMessages(a)
  <2>1. /\ read' = [read EXCEPT ![a] = @ \cup
              {x \in rows : x.table = "message" /\ x.session = target[a]}]
        /\ runs' = runs
    BY <1>1 DEF ReadMessages, ReadTable
  <2>2. ASSUME NEW b \in Analyses, NEW x \in MessagesIn(read'[b]),
               NEW m \in MessagesIn(rows),
               m.session = x.session, m.position <= x.position
        PROVE  m \in read'[b]
    BY <1>t, <2>1, <2>2 DEF CoverInv, MessagesIn
  <2> QED
    BY <1>t, <2>1, <2>2 DEF CoverInv
<1>2. CASE ReadToolCalls(a) \/ ReadToolResults(a)
  <2>1. PICK table \in {"tool_call", "tool_result"} :
          /\ read' = [read EXCEPT ![a] = @ \cup
                {x \in rows : x.table = table /\ x.session = target[a]}]
          /\ runs' = runs
    BY <1>2 DEF ReadToolCalls, ReadToolResults, ReadTable
  <2>2. \A b \in Analyses : MessagesIn(read'[b]) = MessagesIn(read[b])
                             /\ read[b] \subseteq read'[b]
    BY <1>t, <2>1 DEF MessagesIn
  <2> QED
    BY <1>t, <2>1, <2>2 DEF CoverInv
<1>3. CASE RespondRun(a) \/ FailAnalysis(a)
  <2>1. runs' = runs /\ read' = [read EXCEPT ![a] = {}]
    BY <1>3 DEF RespondRun, FailAnalysis, Forget
  <2> QED
    BY <1>t, <2>1 DEF CoverInv, MessagesIn
<1>4. CASE CommitAnalysis(a)
  <2> PICK start, end : /\ InputRange(read[a], start, end)
                        /\ runs' = runs \cup {StoredRun(a, start, end)}
    BY <1>4 DEF CommitAnalysis, StoredRun
  <2> DEFINE run == StoredRun(a, start, end)
  <2>1. /\ run.session = target[a] /\ run.end = end
        /\ run.messages = {m.id : m \in MessagesIn(read[a])}
        /\ read' = read
    BY <1>4 DEF StoredRun, CommitAnalysis
  <2>2. runs' = runs \cup {run}
    OBVIOUS
  <2> HIDE DEF run
  <2>3. \A m \in MessagesIn(read[a]) : m.position \in Nat
    BY <1>t DEF MessagesIn, Row
  <2>4. CASE MessagesIn(read[a]) = {}
    <3>1. end = None /\ run.messages = {}
      BY <2>1, <2>4 DEF InputRange, IsHighest
    <3> QED
      BY <1>t, <2>1, <2>2, <3>1 DEF CoverInv
  <2>5. CASE MessagesIn(read[a]) # {}
    <3>1. PICK x \in MessagesIn(read[a]) : x.position = end
      BY <2>5 DEF InputRange, IsHighest
    <3>2. end # None /\ x \in MessagesIn(rows) /\ x.session = target[a]
      BY <1>t, <2>3, <3>1 DEF MessagesIn
    <3>3. ASSUME NEW m \in MessagesIn(rows),
                 m.session = run.session, m.position <= run.end
          PROVE  m.id \in run.messages
      <4>1. m \in MessagesIn(read[a])
        BY <2>1, <3>1, <3>2, <3>3 DEF CoverInv, MessagesIn
      <4> QED
        BY <2>1, <4>1
    <3> QED
      BY <1>t, <2>1, <2>2, <3>1, <3>2, <3>3 DEF CoverInv
  <2> QED
    BY <2>4, <2>5
<1>5. CASE UNCHANGED <<read, runs>>
  BY <1>t, <1>5 DEF CoverInv
<1> QED
  BY <1>1, <1>2, <1>3, <1>4, <1>5
  DEF AnalysisNext, StartAnalysis, RunEngine, CreateRun, CreateScore

(* There are no more rows than requests.                                    *)
LEMMA RowsFinite ==
    ASSUME IsFiniteSet(Requests), StoreInv, NEW S, S \subseteq rows,
           Cardinality(S) = 0
    PROVE  S = {}
<1> DEFINE id == [x \in rows |-> x.id]
<1>1. \A x \in rows : x.id \in Requests /\ x = RowFor(x.id)
  BY DEF StoreInv, RowOrigin, TypeInv, TypeOK, Row
<1>2. id \in Injection(rows, Requests)
  <2>1. ASSUME NEW x \in rows, NEW y \in rows, id[x] = id[y] PROVE x = y
    BY <1>1, <2>1
  <2> QED
    BY <1>1, <2>1 DEF Injection, IsInjective
<1>3. IsFiniteSet(rows)
  BY <1>2, FS_Injection
<1> QED
  BY <1>3, FS_Subset, FS_EmptySet

(* What a status request has read, and what it makes of it.                 *)
FreshInv ==
    /\ DOMAIN rpc = Readers /\ DOMAIN status = Readers /\ DOMAIN known = Readers
    /\ \A q \in Readers :
         /\ DOMAIN status[q] = DOMAIN NoStatus
         /\ rpc[q] = "idle" => status[q].run = None
         /\ status[q].run # None => status[q].run \in RunsOf(status[q].session)
         /\ known[q].messages \subseteq
                {m.id : m \in SessionMessages(status[q].session)}
         /\ rpc[q] = "since" /\ status[q].count = 0 => known[q].messages = {}
         /\ /\ rpc[q] = "answered"
            /\ status[q].run # None
            /\ status[q].since = 0
            => known[q].messages \subseteq status[q].run.messages

(* Nobody has asked.                                                        *)
LEMMA FreshInit == AnalysisInit => FreshInv
BY DEF AnalysisInit, FreshInv, NoStatus

(* What others store takes nothing back.                                    *)
LEMMA FreshBeside ==
    ASSUME FreshInv, rows \subseteq rows', runs \subseteq runs',
           UNCHANGED statusVars
    PROVE  FreshInv'
<1>1. \A s : /\ RunsOf(s) \subseteq RunsOf(s)'
             /\ SessionMessages(s) \subseteq SessionMessages(s)'
  BY DEF RunsOf, SessionMessages
<1> QED
  BY <1>1 DEF FreshInv, statusVars

(* Every statement of a status request preserves FreshInv: the two counts   *)
(* are 0 only when there is nothing to count.                               *)
LEMMA FreshStep ==
    ASSUME IsFiniteSet(Requests), StoreInv, CoverInv, FreshInv,
           NEW q \in Readers, StatusNext(q), UNCHANGED <<rows, runs>>
    PROVE  FreshInv'
<1>f. \A S \in SUBSET rows : Cardinality(S) = 0 => S = {}
  <2> SUFFICES ASSUME NEW S, S \subseteq rows, Cardinality(S) = 0 PROVE S = {}
    OBVIOUS
  <2> QED
    BY RowsFinite
<1>1. \A s : RunsOf(s)' = RunsOf(s) /\ SessionMessages(s)' = SessionMessages(s)
  BY DEF RunsOf, SessionMessages
<1>2. ASSUME NEW s \in Sessions, StartStatus(q, s) PROVE FreshInv'
  BY <1>1, <1>2 DEF StartStatus, FreshInv, NoStatus
<1>3. CASE ReadLatestRun(q)
  BY <1>1, <1>3 DEF ReadLatestRun, FreshInv, NoStatus, IsNewestRun
<1>4. CASE ReadLastSequence(q)
  <2>1. PICK n : /\ status' = [status EXCEPT ![q].last = n]
                 /\ known' = known
                 /\ rpc' = [rpc EXCEPT ![q] = "count"]
    BY <1>4 DEF ReadLastSequence
  <2> QED
    BY <1>1, <2>1 DEF FreshInv, NoStatus
<1>5. CASE CountMessages(q)
  <2>1. PICK n : /\ status' = [status EXCEPT ![q].count = n]
                 /\ known' = known
                 /\ rpc' = [rpc EXCEPT ![q] = "since"]
                 /\ n = Cardinality(SessionMessages(status[q].session))
    BY <1>5 DEF CountMessages
  <2>2. n = 0 => SessionMessages(status[q].session) = {}
    <3>1. SessionMessages(status[q].session) \in SUBSET rows
      BY DEF SessionMessages
    <3>2. Cardinality(SessionMessages(status[q].session)) = 0
            => SessionMessages(status[q].session) = {}
      BY <3>1, <1>f
    <3> QED
      BY <2>1, <3>2
  <2>3. n = 0 => known[q].messages = {}
    BY <2>2 DEF FreshInv
  <2> QED
    BY <1>1, <2>1, <2>3 DEF FreshInv, NoStatus
<1>6. CASE CountSince(q)
  <2> DEFINE st == status[q]
             above == {m \in SessionMessages(st.session) :
                         m.position > st.run.end}
  <2>1. PICK n : /\ status' = [status EXCEPT ![q].since = n]
                 /\ known' = known
                 /\ rpc' = [rpc EXCEPT ![q] = "answered"]
                 /\ rpc[q] = "since"
                 /\ n = MessagesSince(st)
    BY <1>6 DEF CountSince
  <2>2. ASSUME st.run # None, n = 0
        PROVE  known[q].messages \subseteq st.run.messages
    <3>1. st.run \in runs /\ st.run.session = st.session
      BY <2>2 DEF FreshInv, RunsOf
    <3>2. CASE st.count = 0
      BY <2>1, <3>2 DEF FreshInv
    <3>3. CASE st.count # 0
      <4>1. st.run.end # None /\ n = Cardinality(above)
        BY <2>1, <2>2, <3>3 DEF MessagesSince, NothingSince
      <4>2. above = {}
        <5>1. above \in SUBSET rows
          BY DEF SessionMessages
        <5> HIDE DEF above
        <5>2. Cardinality(above) = 0 => above = {}
          BY <5>1, <1>f
        <5> QED
          BY <2>2, <4>1, <5>2
      <4>3. PICK x \in MessagesIn(rows) : x.position = st.run.end
        BY <3>1, <4>1 DEF CoverInv
      <4>4. \A m \in MessagesIn(rows) : m.position \in Nat
        BY DEF StoreInv, TypeInv, TypeOK, MessagesIn, Row
      <4>5. \A m \in SessionMessages(st.session) : m.position <= st.run.end
        BY <4>2, <4>3, <4>4 DEF SessionMessages, MessagesIn
      <4>6. \A m \in SessionMessages(st.session) : m.id \in st.run.messages
        BY <3>1, <4>1, <4>5 DEF CoverInv, SessionMessages, MessagesIn
      <4> QED
        BY <4>6 DEF FreshInv
    <3> QED
      BY <3>2, <3>3
  <2> QED
    BY <1>1, <2>1, <2>2 DEF FreshInv, NoStatus
<1> QED
  BY <1>2, <1>3, <1>4, <1>5, <1>6 DEF StatusNext

(* Where no client chooses a number, a status that is not stale is true:    *)
(* the run it names had read every message stored before it was asked for,  *)
(* whatever was ingested and analysed between its reads and the run's.      *)
THEOREM FreshStatusTrue ==
    ASSUME ServerNumbers, IsFiniteSet(Requests)
    PROVE  SystemSpec => []FreshStatusCovers
<1> DEFINE Known == StoreInv /\ OwnerInv /\ AutoNumbersLeaveNoGap /\ AnalysisInv
           Inv == DenseInv /\ CoverInv /\ FreshInv
<1>1. SystemSpec => []Known
  BY SystemIngests, AnalysisInvariant, OwnerInvariant, NumbersLeaveNoGap, PTL
<1>2. AnalysisInit => Inv
  BY FreshInit DEF AnalysisInit, Init, DenseInv, Dense, Counted, CoverInv,
     MessagesIn
<1>3. Known /\ Known' /\ Inv /\ [SystemNext]_allVars => Inv'
  <2> SUFFICES ASSUME Known, Known', Inv, [SystemNext]_allVars PROVE Inv'
    OBVIOUS
  <2>1. [Next]_vars
    BY DEF SystemNext, allVars, vars
  <2>2. DenseInv'
    BY <2>1, DenseStep
  <2>3. rows \subseteq rows' /\ runs \subseteq runs'
    BY RowsGrow DEF SystemNext, allVars, analysisVars, AnalysisNext,
       StartAnalysis, ReadMessages, ReadToolCalls, ReadToolResults, ReadTable,
       RunEngine, CreateRun, CreateScore, CommitAnalysis, RespondRun,
       FailAnalysis
  <2>4. CASE UNCHANGED <<analysisVars, statusVars>>
    BY <2>1, <2>2, <2>3, <2>4, CoverIngest, FreshBeside DEF analysisVars
  <2>5. ASSUME NEW a \in Analyses, AnalysisNext(a), UNCHANGED <<vars, statusVars>>
        PROVE  Inv'
    BY <2>2, <2>3, <2>5, CoverAnalyse, FreshBeside
  <2>6. ASSUME NEW q \in Readers, StatusNext(q), UNCHANGED <<vars, analysisVars>>
        PROVE  Inv'
    BY <2>1, <2>2, <2>6, CoverIngest, FreshStep DEF vars, analysisVars
  <2> QED
    BY <2>4, <2>5, <2>6 DEF SystemNext, allVars
<1>4. Inv => FreshStatusCovers
  BY DEF FreshInv, FreshStatusCovers
<1> HIDE DEF Known, Inv
<1> QED
  BY <1>1, <1>2, <1>3, <1>4, PTL DEF SystemSpec
=============================================================================
