------------------------------ MODULE Analysis -------------------------------
(***************************************************************************)
(* Analysis of a session that is still being written to: run_analysis and  *)
(* get_analysis_status (backend/app/services/analysis.py) running beside   *)
(* the ingestion requests of module Ingestion, on the same database.       *)
(*                                                                         *)
(* An analysis reads messages, tool calls and tool results in three        *)
(* statements, runs the engine on the context built from them (which may   *)
(* take minutes), then writes the run, its detection events and its health *)
(* score in one transaction.  Nothing keeps two analyses of a session from *)
(* overlapping.  What the engine finds is left open: a status, and one     *)
(* detection event that may cite any row of the context.                   *)
(***************************************************************************)
EXTENDS Ingestion, FiniteSets

CONSTANTS
    Analyses,   \* POST /analyze requests; a run carries its request's id
    Readers,    \* GET /analysis-status requests
    Outcomes,   \* the statuses an analysis of this instance may end with
    Citing      \* whether its detectors may report an event with evidence

Statuses == {"completed", "partial", "failed"}

ASSUME OutcomesAssumption == Outcomes \subseteq Statuses /\ Citing \in BOOLEAN

(* A row of analysis_runs; messages, the ids of what the run has read, is a *)
(* history component.                                                       *)
Run == [id : Analyses, session : Sessions, status : Statuses,
        start : Nat \cup {None}, end : Nat \cup {None}, created_at : Nat,
        messages : SUBSET Requests]

ASSUME RunAssumption == None \notin Run

VARIABLES
    apc,        \* where each analysis stands
    target,     \* the session each analysis is about
    read,       \* the rows each analysis has read
    draft,      \* the run, score time and citation of an open transaction
    runs,       \* committed analysis_runs
    scores,     \* committed context_health_scores
    events,     \* committed detection_events with their evidence
    now,        \* the clock behind created_at and measured_at
    rpc,        \* where each status request stands
    status,     \* what each status request has read
    known       \* history: what was stored before a status request came

analysisVars == <<apc, target, read, draft, runs, scores, events, now>>
statusVars == <<rpc, status, known>>
allVars == <<vars, analysisVars, statusVars>>

MessagesIn(S) == {x \in S : x.table = "message"}
SessionMessages(s) == {x \in rows : x.table = "message" /\ x.session = s}

(* The run of S that sorts first under ORDER BY created_at DESC; time       *)
(* stamps are distinct here.                                                *)

(* Mutant of IsNewestRun: ORDER BY without DESC.                            *)
IsOldestRun(x, S) == x \in S /\ \A y \in S : y.created_at >= x.created_at

IsNewestRun(x, S) == x \in S /\ \A y \in S : y.created_at <= x.created_at

RunsOf(s) == {x \in runs : x.session = s}

NoDraft == [status |-> None, cited |-> None, created_at |-> 0, measured_at |-> 0]
NoStatus == [session |-> None, run |-> None, last |-> 0, count |-> 0, since |-> 0]

AnalysisInit ==
    /\ Init
    /\ apc = [a \in Analyses |-> "idle"]
    /\ target = [a \in Analyses |-> None]
    /\ read = [a \in Analyses |-> {}]
    /\ draft = [a \in Analyses |-> NoDraft]
    /\ runs = {} /\ scores = {} /\ events = {}
    /\ now = 1
    /\ rpc = [q \in Readers |-> "idle"]
    /\ status = [q \in Readers |-> NoStatus]
    /\ known = [q \in Readers |-> [messages |-> {}, runs |-> {}]]

-----------------------------------------------------------------------------
(* run_analysis                                                             *)

StartAnalysis(a, s) ==
    /\ apc[a] = "idle"
    /\ target' = [target EXCEPT ![a] = s]
    /\ apc' = [apc EXCEPT ![a] = IF s \in sessions THEN "messages"
                                 ELSE "not_found"]
    /\ UNCHANGED <<read, draft, runs, scores, events, now>>

(* One SELECT per table, each with a snapshot of its own.                   *)
ReadTable(a, table, here, next) ==
    /\ apc[a] = here
    /\ read' = [read EXCEPT ![a] = @ \cup
                  {x \in rows : x.table = table /\ x.session = target[a]}]
    /\ apc' = [apc EXCEPT ![a] = next]
    /\ UNCHANGED <<target, draft, runs, scores, events, now>>

ReadMessages(a) == ReadTable(a, "message", "messages", "tool_calls")
ReadToolCalls(a) == ReadTable(a, "tool_call", "tool_calls", "tool_results")
ReadToolResults(a) == ReadTable(a, "tool_result", "tool_results", "engine")

(* build_session_context: a call of a message that was not read is dropped, *)
(* and so is a result of a call that is not there.                          *)

(* Mutant of Context: whatever was read.                                    *)
UnfilteredContext(S) == S

Context(S) ==
    LET calls == {x \in S : /\ x.table = "tool_call"
                            /\ \E m \in MessagesIn(S) : m.id = x.owner}
    IN  MessagesIn(S) \cup calls \cup
        {x \in S : /\ x.table = "tool_result"
                   /\ \E c \in calls : c.id = x.owner}

RunEngine(a) ==
    /\ apc[a] = "engine"
    /\ \E outcome \in Outcomes,
          cited \in {None} \cup (IF Citing THEN Context(read[a]) ELSE {}) :
         draft' = [draft EXCEPT ![a] = [@ EXCEPT !.status = outcome,
                                             !.cited = cited]]
    /\ apc' = [apc EXCEPT ![a] = "create_run"]
    /\ UNCHANGED <<target, read, runs, scores, events, now>>

(* create_run flushes the run, which stamps created_at; a run in which no   *)
(* dimension was assessed gets no score.                                    *)

(* Mutant of CreateRun: created_at has no default.                          *)
CreateUndatedRun(a) ==
    /\ apc[a] = "create_run"
    /\ now' = now + 1
    /\ apc' = [apc EXCEPT ![a] = IF draft[a].status = "failed"
                                 THEN "commit" ELSE "score"]
    /\ UNCHANGED <<target, read, draft, runs, scores, events>>

CreateRun(a) ==
    /\ apc[a] = "create_run"
    /\ draft' = [draft EXCEPT ![a].created_at = now]
    /\ now' = now + 1
    /\ apc' = [apc EXCEPT ![a] = IF draft[a].status = "failed"
                                 THEN "commit" ELSE "score"]
    /\ UNCHANGED <<target, read, runs, scores, events>>

ScoreRow(a, time) == [run |-> a, session |-> target[a], measured_at |-> time]

(* Mutant of CreateScore: it commits, in a transaction of its own.          *)
StoreScore(a) ==
    /\ apc[a] = "score"
    /\ scores' = scores \cup {ScoreRow(a, now)}
    /\ now' = now + 1
    /\ apc' = [apc EXCEPT ![a] = "commit"]
    /\ UNCHANGED <<target, read, draft, runs, events>>

CreateScore(a) ==
    /\ apc[a] = "score"
    /\ draft' = [draft EXCEPT ![a].measured_at = now]
    /\ now' = now + 1
    /\ apc' = [apc EXCEPT ![a] = "commit"]
    /\ UNCHANGED <<target, read, runs, scores, events>>

(* input_sequence_start and input_sequence_end: the first and last message  *)
(* read, None for an empty session.                                         *)
InputRange(S, start, end) ==
    LET numbers == {m.position : m \in MessagesIn(S)} IN
    \/ numbers = {} /\ start = None /\ end = None
    \/ /\ start \in numbers /\ \A n \in numbers : start <= n
       /\ IsHighest(end, numbers)

CommitAnalysis(a) ==
    /\ apc[a] = "commit"
    /\ \E start, end \in {None} \cup {m.position : m \in MessagesIn(read[a])} :
         /\ InputRange(read[a], start, end)
         /\ runs' = runs \cup
              {[id |-> a, session |-> target[a], status |-> draft[a].status,
                start |-> start, end |-> end, created_at |-> draft[a].created_at,
                messages |-> {m.id : m \in MessagesIn(read[a])}]}
    /\ scores' = IF draft[a].status = "failed" THEN scores
                 ELSE scores \cup {ScoreRow(a, draft[a].measured_at)}
    /\ events' = IF draft[a].cited = None THEN events
                 ELSE events \cup {[run |-> a, cited |-> draft[a].cited]}
    /\ apc' = [apc EXCEPT ![a] = "stored"]
    /\ UNCHANGED <<target, read, draft, now>>

(* The handler's variables end with it.                                     *)
Forget(a) ==
    /\ target' = [target EXCEPT ![a] = None]
    /\ read' = [read EXCEPT ![a] = {}]
    /\ draft' = [draft EXCEPT ![a] = NoDraft]

(* get_run_by_id reads the run back for the 201 response.                   *)
RespondRun(a) ==
    /\ apc[a] = "stored"
    /\ apc' = [apc EXCEPT ![a] = "analyzed"]
    /\ Forget(a)
    /\ UNCHANGED <<runs, scores, events, now>>

(* A crash, a dropped connection or an error: before the commit the open    *)
(* transaction is rolled back and nothing of the run remains, after it only *)
(* the response is lost.                                                    *)
FailAnalysis(a) ==
    /\ apc[a] \in {"messages", "tool_calls", "tool_results", "engine",
                   "create_run", "score", "commit", "stored"}
    /\ apc' = [apc EXCEPT ![a] = "failed"]
    /\ Forget(a)
    /\ UNCHANGED <<runs, scores, events, now>>

AnalysisNext(a) ==
    \/ \E s \in Sessions : StartAnalysis(a, s)
    \/ ReadMessages(a)
    \/ ReadToolCalls(a)
    \/ ReadToolResults(a)
    \/ RunEngine(a)
    \/ CreateRun(a)
    \/ CreateScore(a)
    \/ CommitAnalysis(a)
    \/ RespondRun(a)
    \/ FailAnalysis(a)

-----------------------------------------------------------------------------
(* get_analysis_status: four statements, each seeing later commits.         *)

StartStatus(q, s) ==
    /\ rpc[q] = "idle"
    /\ s \in sessions
    /\ status' = [status EXCEPT ![q].session = s]
    /\ known' = [known EXCEPT ![q] =
                   [messages |-> {m.id : m \in SessionMessages(s)},
                    runs |-> RunsOf(s)]]
    /\ rpc' = [rpc EXCEPT ![q] = "latest_run"]

ReadLatestRun(q) ==
    LET stored == RunsOf(status[q].session) IN
    /\ rpc[q] = "latest_run"
    /\ \/ /\ stored = {}
          /\ UNCHANGED status
       \/ \E run \in stored : /\ IsNewestRun(run, stored)
                              /\ status' = [status EXCEPT ![q].run = run]
    /\ rpc' = [rpc EXCEPT ![q] = "last_sequence"]
    /\ UNCHANGED known

ReadLastSequence(q) ==
    LET numbers == {0} \cup {m.position : m \in SessionMessages(status[q].session)}
    IN
    /\ rpc[q] = "last_sequence"
    /\ \E last \in numbers : /\ IsHighest(last, numbers)
                             /\ status' = [status EXCEPT ![q].last = last]
    /\ rpc' = [rpc EXCEPT ![q] = "count"]
    /\ UNCHANGED known

CountMessages(q) ==
    /\ rpc[q] = "count"
    /\ status' = [status EXCEPT ![q].count =
                    Cardinality(SessionMessages(status[q].session))]
    /\ rpc' = [rpc EXCEPT ![q] = "since"]
    /\ UNCHANGED known

(* messages_since: 0 without a run or a message, everything when the run    *)
(* saw an empty session, else the messages numbered above what it read.     *)
NothingSince(st) == st.run = None \/ (st.last = 0 /\ st.count = 0)

(* Mutant of MessagesSince: one number late.                                *)
MessagesAfterNext(st) ==
    IF NothingSince(st) THEN 0
    ELSE IF st.run.end = None THEN st.count
    ELSE Cardinality({m \in SessionMessages(st.session) :
                        m.position > st.run.end + 1})

MessagesSince(st) ==
    IF NothingSince(st) THEN 0
    ELSE IF st.run.end = None THEN st.count
    ELSE Cardinality({m \in SessionMessages(st.session) :
                        m.position > st.run.end})

CountSince(q) ==
    /\ rpc[q] = "since"
    /\ status' = [status EXCEPT ![q].since = MessagesSince(status[q])]
    /\ rpc' = [rpc EXCEPT ![q] = "answered"]
    /\ UNCHANGED known

StatusNext(q) ==
    \/ \E s \in Sessions : StartStatus(q, s)
    \/ ReadLatestRun(q)
    \/ ReadLastSequence(q)
    \/ CountMessages(q)
    \/ CountSince(q)

-----------------------------------------------------------------------------
SystemNext ==
    \/ Next /\ UNCHANGED <<analysisVars, statusVars>>
    \/ \E a \in Analyses : AnalysisNext(a) /\ UNCHANGED <<vars, statusVars>>
    \/ \E q \in Readers : StatusNext(q) /\ UNCHANGED <<vars, analysisVars>>

SystemSpec == AnalysisInit /\ [][SystemNext]_allVars

-----------------------------------------------------------------------------
AnalysisTypeOK ==
    /\ apc \in [Analyses -> {"idle", "not_found", "messages", "tool_calls",
                             "tool_results", "engine", "create_run", "score",
                             "commit", "stored", "analyzed", "failed"}]
    /\ target \in [Analyses -> Sessions \cup {None}]
    /\ read \in [Analyses -> SUBSET rows]
    /\ \A x \in runs : /\ x.id \in Analyses
                       /\ x.status \in Statuses
                       /\ x.created_at \in 1 .. now - 1
                       /\ (x.start = None) = (x.end = None)
    /\ \A x \in scores : x.measured_at \in 1 .. now - 1
    /\ now \in Nat

(* A run, its score and its events appear together or not at all, wherever  *)
(* an analysis stops: a stored score or event has its run, and a run has a  *)
(* score exactly when a dimension was assessed.  The run of an answered     *)
(* analysis is stored.                                                      *)
RunsAtomic ==
    /\ \A x \in scores : \E run \in runs : run.id = x.run
    /\ \A x \in events : \E run \in runs : run.id = x.run
    /\ \A run \in runs :
         (run.status # "failed") = (\E x \in scores : x.run = run.id)
    /\ \A a \in Analyses :
         apc[a] = "analyzed" => \E run \in runs : run.id = a

(* A detection cites only what its run covers: a stored row of the session  *)
(* below a message numbered within the run's input range, even when calls   *)
(* and results arrived between the three reads.                             *)
EvidenceInInput ==
    \A x \in events : \A run \in runs :
        x.run = run.id =>
            \E m \in MessagesIn(rows) :
                /\ m.id \in run.messages
                /\ run.start <= m.position /\ m.position <= run.end
                /\ \/ x.cited = m
                   \/ /\ x.cited.table = "tool_call"
                      /\ x.cited.owner = m.id
                   \/ \E c \in rows : /\ c.table = "tool_call"
                                      /\ c.owner = m.id
                                      /\ x.cited.table = "tool_result"
                                      /\ x.cited.owner = c.id

(* A status that is not stale tells the truth: the run it names had read    *)
(* every message stored before the status was asked for.                    *)
FreshStatusCovers ==
    \A q \in Readers :
        /\ rpc[q] = "answered"
        /\ status[q].run # None
        /\ status[q].since = 0
        => known[q].messages \subseteq status[q].run.messages

(* A status never goes back behind a run that was stored before the request *)
(* came: the latest run it names is that one or a newer one.                *)
StatusSeesStoredRuns ==
    \A q \in Readers :
        rpc[q] = "answered" =>
            \A run \in known[q].runs :
                /\ status[q].run # None
                /\ status[q].run.created_at >= run.created_at

(* A run that is assembled over nine statements, and may stop after each of *)
(* them, is to everybody else one that appears whole at its commit: it, its *)
(* score and its events, with the range and the evidence of what it read.   *)
Results == INSTANCE AnalysisStore
           WITH rows <- rows, runs <- runs, scores <- scores, events <- events

ImplementsAnalysisStore == Results!Spec

=============================================================================
