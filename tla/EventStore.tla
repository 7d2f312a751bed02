----------------------------- MODULE EventStore ------------------------------
(***************************************************************************)
(* What the ingestion API promises its clients: an append-only store of    *)
(* events in which every request has its effect at one instant or not at   *)
(* all, and the answer says which.                                         *)
(***************************************************************************)
EXTENDS Integers

CONSTANTS
    Sessions,
    Requests,
    Row           \* the rows requests may store

VARIABLES
    sessions,     \* the sessions that exist
    rows,         \* the events stored so far
    answer        \* what each request was told

storeVars == <<sessions, rows, answer>>

Init ==
    /\ sessions = {}
    /\ rows = {}
    /\ answer = [r \in Requests |-> "none"]

Open(s) ==
    /\ sessions' = sessions \cup {s}
    /\ UNCHANGED <<rows, answer>>

(* An event may hang below its session, a message below no other session's  *)
(* row, a call below a message, a result below a call.                      *)
MayHang(x) ==
    /\ x.session \in sessions
    /\ \/ x.table = "message" /\ x.owner = x.session
       \/ /\ x.table # "message"
          /\ \E y \in rows :
               /\ y.id = x.owner
               /\ y.session = x.session
               /\ y.table = IF x.table = "tool_call"
                            THEN "message" ELSE "tool_call"

(* The one step at which request x.id takes effect.                         *)
Append(x) ==
    /\ rows' = rows \cup {x}
    /\ answer[x.id] = "none"
    /\ MayHang(x)
    /\ \A y \in rows :
         /\ y.id # x.id
         /\ <<y.table, y.owner, y.position>> # <<x.table, x.owner, x.position>>
    /\ UNCHANGED <<sessions, answer>>

HasRow(r) == \E x \in rows : x.id = r

(* "failed" is the answer that leaves the client in doubt.                  *)
Tell(r, a) ==
    /\ answer[r] = "none"
    /\ a = "created" => HasRow(r)
    /\ a = "refused" => ~HasRow(r)
    /\ answer' = [answer EXCEPT ![r] = a]
    /\ UNCHANGED <<sessions, rows>>

Next ==
    \/ \E s \in Sessions : Open(s)
    \/ \E x \in Row : Append(x)
    \/ \E r \in Requests :
         \E a \in {"created", "refused", "failed"} : Tell(r, a)

Spec == Init /\ [][Next]_storeVars
=============================================================================
