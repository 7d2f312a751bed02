-------------------------------- MODULE Pages --------------------------------
(***************************************************************************)
(* What the dashboard shows of a session while analyses store runs beside  *)
(* it: the health page and the list of sessions (frontend/src/app), put    *)
(* together from several reads of what module AnalysisStore keeps          *)
(* (backend/app/services/analysis.py and services/dashboard.py).           *)
(*                                                                         *)
(* A run may be stored between any two reads of a page, and runs need not  *)
(* be stored, nor have their scores measured, in the order they were       *)
(* created in.  A tab is told of a run only when it is stored (ToldTruth   *)
(* of module AnalyzeButton) and is then refreshed.  A load that fails and  *)
(* navigation inside the page are left out.                                *)
(***************************************************************************)
EXTENDS HealthTrend, FiniteSets

CONSTANTS
    Tabs,         \* browser tabs, all on the same session
    Analyses,     \* POST /analyze requests
    MaxLast,      \* bound: the last message's number
    Outcomes,     \* what an analysis may make of the session
    Earlier,      \* the runs that may have been stored before
    None

(* A run has a score exactly when it did not fail.                          *)
IsOutcome(o) ==
    /\ o.status \in {"completed", "partial", "failed"}
    /\ o.score = None <=> o.status = "failed"
    /\ o.score # None => o.score \in 0 .. 1000

IsRun(run) == IsOutcome(run) /\ {run.created, run.measured, run.end} \subseteq Int

(* No two runs share an id or a stamp; one without a score has no           *)
(* measured_at.                                                             *)
Alike(x, y) ==
    \/ x.id = y.id
    \/ x.created = y.created
    \/ x.score # None /\ y.score # None /\ x.measured = y.measured

ASSUME PagesAssumption ==
    /\ \A o \in Outcomes : IsOutcome(o)
    /\ \A old \in Earlier :
         /\ IsFiniteSet(old)
         /\ \A x \in old : /\ IsRun(x) /\ x.id \notin Analyses
                           /\ x.created < 1 /\ x.measured < 1
         /\ \A x, y \in old : Alike(x, y) => x = y

VARIABLES
    apc,          \* where each analysis stands
    draft,        \* what each analysis has so far
    runs,         \* stored runs with their scores and events
    now,          \* the clock behind created_at and measured_at
    last,         \* the number of the session's last message
    told,         \* the runs each tab has been told of
    load,         \* the page each tab is loading
    again,        \* a refresh asked for while the tab is loading
    page          \* the kind of page each tab shows

backendVars == <<apc, draft, runs, now, last>>
pageVars == <<told, load, again, page>>
pagesVars == <<backendVars, pageVars>>

NoRun == [end |-> 0, created |-> 0, measured |-> 0,
          outcome |-> [status |-> None, score |-> None, found |-> None]]
Unread == [r \in {} |-> {}]
NoLoad == [kind |-> "none", got |-> Unread, last |-> 0, owed |-> {}]

Stored == {run.id : run \in runs}
RunsIn(ids) == {run \in runs : run.id \in ids}
Scored(ids) == {id \in ids : \E run \in runs : run.id = id /\ run.score # None}

PagesInit ==
    /\ apc = [a \in Analyses |-> "idle"]
    /\ draft = [a \in Analyses |-> NoRun]
    /\ runs \in Earlier
    /\ now = 1
    /\ last = 1
    /\ told = [t \in Tabs |-> {}]
    /\ load = [t \in Tabs |-> NoLoad]
    /\ again = [t \in Tabs |-> FALSE]
    /\ page = [t \in Tabs |-> "none"]

-----------------------------------------------------------------------------
(* Loading.  The health page reads scores, trend with explanation, and      *)
(* status in three requests at once; the list of sessions is one request of *)
(* several statements.                                                      *)

(* Mutant of ReadAfter: the overview's statements run in the other order.   *)
ReadBefore(kind, r) ==
    CASE kind = "overview" /\ r = "events" -> {"claims", "latest"}
      [] kind = "overview" /\ r = "claims" -> {"latest"}
      [] OTHER -> {}

ReadAfter(kind, r) ==
    CASE r = "explained" -> {"trend"}
      [] r = "claims" -> {"events"}
      [] r = "latest" -> {"events", "claims"}
      [] OTHER -> {}

ReadsOf(kind) ==
    CASE kind = "health" -> {"scores", "trend", "explained", "status"}
      [] kind = "overview" -> {"events", "claims", "latest"}
      [] OTHER -> {}

Loading(t, kind, owed) ==
    load' = [load EXCEPT ![t] = [NoLoad EXCEPT !.kind = kind, !.owed = owed]]

(* A full page load, of a page new to the tab or of the same one again.     *)
Open(t, kind) ==
    /\ load[t].kind = "none"
    /\ Loading(t, kind, told[t])
    /\ page' = [page EXCEPT ![t] = "none"]
    /\ UNCHANGED <<backendVars, told, again>>

(* A 201 reaches the tab, whose router refreshes the page it shows; while a *)
(* page is loading the refresh waits for its end.                           *)
TellRun(t, a) ==
    /\ apc[a] = "stored"
    /\ a \notin told[t]
    /\ page[t] = "health"
    /\ told' = [told EXCEPT ![t] = @ \cup {a}]
    /\ IF load[t].kind = "none"
       THEN Loading(t, page[t], told[t] \cup {a}) /\ UNCHANGED again
       ELSE again' = [again EXCEPT ![t] = TRUE] /\ UNCHANGED load
    /\ UNCHANGED <<backendVars, page>>

(* One request or statement, which sees what is stored at that moment.      *)

(* Mutant of Seen: responses cached before the tab was told of its runs     *)
(* (cache: "no-store" left out).                                            *)
SeenBefore(t, r) == Stored \ load[t].owed

Seen(t, r) == Stored

Read(t, r) ==
    /\ r \in ReadsOf(load[t].kind) \ DOMAIN load[t].got
    /\ ReadAfter(load[t].kind, r) \subseteq DOMAIN load[t].got
    /\ load' = [load EXCEPT
                  ![t].got = [x \in DOMAIN @ \cup {r} |->
                                IF x = r THEN Seen(t, r) ELSE @[x]],
                  ![t].last = IF r = "status" THEN last ELSE @]
    /\ UNCHANGED <<backendVars, told, again, page>>

(* All reads are in: the page is shown as load[t] has it, and a refresh     *)
(* that came meanwhile begins.                                              *)
Complete(t) == load[t].kind # "none" /\ DOMAIN load[t].got = ReadsOf(load[t].kind)

Show(t) ==
    /\ Complete(t)
    /\ page' = [page EXCEPT ![t] = load[t].kind]
    /\ IF again[t] THEN Loading(t, load[t].kind, told[t])
       ELSE load' = [load EXCEPT ![t] = NoLoad]
    /\ again' = [again EXCEPT ![t] = FALSE]
    /\ UNCHANGED <<backendVars, told>>

-----------------------------------------------------------------------------
(* Analyses, stored whole (ImplementsAnalysisStore of module Analysis).     *)
Goto(a, next) == apc' = [apc EXCEPT ![a] = next]

ReadInput(a) ==
    /\ apc[a] = "idle" /\ Goto(a, "read")
    /\ draft' = [draft EXCEPT ![a].end = last]
    /\ UNCHANGED <<runs, now, last, pageVars>>

CreateRun(a) ==
    /\ apc[a] = "read" /\ Goto(a, "created")
    /\ \E o \in Outcomes :
         draft' = [draft EXCEPT ![a].outcome = o, ![a].created = now]
    /\ now' = now + 1
    /\ UNCHANGED <<runs, last, pageVars>>

CreateScore(a) ==
    /\ apc[a] = "created" /\ draft[a].outcome.score # None
    /\ Goto(a, "measured")
    /\ draft' = [draft EXCEPT ![a].measured = now]
    /\ now' = now + 1
    /\ UNCHANGED <<runs, last, pageVars>>

StoreRun(a) ==
    LET d == draft[a] IN
    /\ \/ apc[a] = "measured"
       \/ apc[a] = "created" /\ d.outcome.score = None
    /\ Goto(a, "stored")
    /\ runs' = runs \cup
         {[id |-> a, status |-> d.outcome.status, score |-> d.outcome.score,
           found |-> d.outcome.found, end |-> d.end, created |-> d.created,
           measured |-> d.measured]}
    /\ draft' = [draft EXCEPT ![a] = NoRun]
    /\ UNCHANGED <<now, last, pageVars>>

Ingest ==
    /\ last < MaxLast
    /\ last' = last + 1
    /\ UNCHANGED <<apc, draft, runs, now, pageVars>>

-----------------------------------------------------------------------------
PagesNext ==
    \/ \E t \in Tabs :
         \/ \E kind \in {"health", "overview"} : Open(t, kind)
         \/ \E r \in {"scores", "trend", "explained", "status", "events",
                      "claims", "latest"} : Read(t, r)
         \/ Show(t)
         \/ \E a \in Analyses : TellRun(t, a)
    \/ \E a \in Analyses :
         ReadInput(a) \/ CreateRun(a) \/ CreateScore(a) \/ StoreRun(a)
    \/ Ingest

PagesSpec == PagesInit /\ [][PagesNext]_pagesVars

-----------------------------------------------------------------------------
Newest(ids) ==      \* ORDER BY created_at DESC LIMIT 1
    {run \in RunsIn(ids) : \A x \in RunsIn(ids) : x.created <= run.created}
NewestScored(ids) ==   \* ORDER BY measured_at DESC, first row
    {run \in RunsIn(Scored(ids)) :
        \A x \in RunsIn(Scored(ids)) : x.measured <= run.measured}

Checkpoints(ids) ==   \* ORDER BY measured_at
    LET scored == RunsIn(Scored(ids)) IN
    CHOOSE s \in [1 .. Cardinality(scored) -> scored] :
        \A i, j \in DOMAIN s : i < j => s[i].measured < s[j].measured

Points(ids) ==
    [i \in DOMAIN Checkpoints(ids) |->
        [score |-> Checkpoints(ids)[i].score, length |-> Checkpoints(ids)[i].end]]

(* AnalysisIntegrityNotice: the latest run is incomplete or stale.          *)

(* Mutant of Notice: a partial run counts as complete.                      *)
FailureNotice(p) ==
    \E run \in Newest(p.got["status"]) : run.status = "failed" \/ p.last > run.end

Notice(p) ==
    \E run \in Newest(p.got["status"]) :
        run.status \in {"partial", "failed"} \/ p.last > run.end

PagesOf(kind) == {load[t] : t \in {x \in Tabs : Complete(x) /\ load[x].kind = kind}}
HealthPages == PagesOf("health")
Overviews == PagesOf("overview")

(* Read your own run: a page whose load began after a tab was told of a run *)
(* has that run in all it is put together from.                             *)
OwnRunShown ==
    \A t \in Tabs : Complete(t) =>
        \A r \in DOMAIN load[t].got : load[t].owed \subseteq load[t].got[r]

(* A score is not taken for more than it is.  A page whose score is of a    *)
(* partial run, or does not cover the last message, carries the notice, in  *)
(* all but two cases.  Either the scored run, not one the tab was told of,  *)
(* was stored after the status had been read.  Or the status is of a newer  *)
(* run, complete and covering the last message, that was likewise stored    *)
(* after the scores had been read, or whose analysis ran within that of the *)
(* scored run: created after it and measured before it.                     *)
ScoreNotTakenForMore ==
    \A p \in HealthPages :
        \A run \in NewestScored(p.got["scores"]) :
            run.status # "completed" \/ run.end < p.last =>
                \/ Notice(p)
                \/ run.id \notin p.got["status"] \cup p.owed
                \/ \E newer \in Newest(p.got["status"]) :
                     /\ newer.status = "completed" /\ newer.end >= p.last
                     /\ run.created < newer.created
                     /\ \/ newer.id \notin p.got["scores"] \cup p.owed
                        \/ newer.score # None /\ newer.measured < run.measured

(* The list of sessions never counts the detections of a scored run newer   *)
(* than the score it puts beside them.                                      *)
OverviewScoreNotOlder ==
    \A p \in Overviews :
        \A run \in RunsIn(Scored(p.got["events"] \cup p.got["claims"])) :
            \E shown \in NewestScored(p.got["latest"]) :
                shown.measured >= run.measured

(* The trend a page shows is one its own checkpoints bear out.              *)
TrendBornOut ==
    \A p \in HealthPages :
        /\ TrendBetweenSteps(Points(p.got["trend"]))
        /\ DegradingMeansWorse(Points(p.got["trend"]))

(* Trend and explanation stand side by side, from two queries.  A page with *)
(* a trend never explains a first run, whatever landed between the queries; *)
(* and when nothing did, what the two say of two checkpoints differs only   *)
(* where the change lies between their thresholds (TwoCheckpointsAgree).    *)
OneStory ==
    \A p \in HealthPages :
        LET points == Points(p.got["trend"])
            newest_first == Reverse(Checkpoints(p.got["explained"]))
        IN  /\ Explanation(newest_first).direction = "initial" => Len(points) < 2
            /\ p.got["trend"] = p.got["explained"] =>
                 TwoCheckpointsAgree(points, newest_first)
=============================================================================
