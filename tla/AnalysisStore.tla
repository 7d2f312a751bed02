---------------------------- MODULE AnalysisStore ----------------------------
(***************************************************************************)
(* What POST /analyze promises of the database: a run with its health      *)
(* score and its detection events is there from one instant on, whole, or  *)
(* never; it has read a part of what was stored by then; and nothing takes *)
(* it back.                                                                *)
(***************************************************************************)
EXTENDS Integers

CONSTANTS
    Analyses,     \* the requests, whose ids the runs carry
    None          \* the input range of an empty session

VARIABLES
    rows,         \* what sessions have stored
    runs,         \* stored analysis runs
    scores,       \* their health scores
    events        \* their detection events

resultVars == <<runs, scores, events>>

Messages(s) == {x \in rows : x.table = "message" /\ x.session = s}

(* Evidence is a row of the run's own session, and none of a session that   *)
(* had no message.                                                          *)
Cited(run, x) ==
    /\ x \in rows
    /\ x.session = run.session
    /\ run.messages # {}

(* The range a run is stamped with is that of the messages it has read.     *)
Ranged(run) ==
    LET numbers == {m.position : m \in {x \in Messages(run.session) :
                                          x.id \in run.messages}}
    IN  IF run.messages = {} THEN run.start = None /\ run.end = None
        ELSE /\ {run.start, run.end} \subseteq numbers
             /\ \A n \in numbers : run.start <= n /\ n <= run.end

Init == runs = {} /\ scores = {} /\ events = {}

(* New runs are numbered in time: created_at of a run precedes the          *)
(* measured_at of its score.  A session that has no assessed dimension gets *)
(* no score.                                                                *)
StoreRun(run) ==
    /\ run.id \in Analyses
    /\ \A old \in runs : old.id # run.id /\ old.created_at # run.created_at
    /\ run.messages \subseteq {m.id : m \in Messages(run.session)}
    /\ Ranged(run)
    /\ runs' = runs \cup {run}
    /\ \/ /\ run.status = "failed"
          /\ UNCHANGED scores
       \/ /\ run.status # "failed"
          /\ \E score \in scores' \ scores :
               /\ score.run = run.id
               /\ score.session = run.session
               /\ score.measured_at > run.created_at
               /\ \A old \in scores : old.measured_at # score.measured_at
               /\ scores' = scores \cup {score}
    /\ \/ UNCHANGED events
       \/ \E event \in events' \ events :
            /\ event.run = run.id
            /\ Cited(run, event.cited)
            /\ events' = events \cup {event}

Next == \E run \in runs' \ runs : StoreRun(run)

(* What sessions write meanwhile is their own affair.                       *)
Spec == Init /\ [][Next]_resultVars
=============================================================================
