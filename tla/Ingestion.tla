------------------------------ MODULE Ingestion ------------------------------
(***************************************************************************)
(* The write side of the API: concurrent POST requests that append         *)
(* messages, tool calls and tool results to a session                      *)
(* (backend/app/services/ingestion.py).                                    *)
(*                                                                         *)
(* Every request is a process with a database transaction of its own at    *)
(* READ COMMITTED: one action per statement, each reading what is          *)
(* committed at that moment.  A row becomes visible to others at Commit;   *)
(* between Insert and Commit it only holds its unique key.                 *)
(*                                                                         *)
(* The three tables are one set of rows.  A row sits at a position below   *)
(* an owner: a message at its sequence_number in its session, a tool call  *)
(* at its call_index in its message, and a tool result at position 0 of    *)
(* its tool call.  The unique constraints of the schema are then one       *)
(* constraint on <<table, owner, position>>.                               *)
(***************************************************************************)
EXTENDS Integers

CONSTANTS
    Sessions,     \* session ids, created or not
    Requests,     \* POST requests; the row a request stores carries its id
    ProviderIds,  \* provider_message_id values upstream events carry
    Payloads,     \* the validated bodies and paths that clients may send
    MaxInteger,   \* the largest value of an INTEGER column
    None          \* an optional field that was left out, or an unknown id

Tables == {"message", "tool_call", "tool_result"}

(* MessageCreate, ToolCallCreate and ToolResultCreate after validation.     *)
Payload ==
    [table: Tables,
     session: Sessions,
     owner: Sessions \cup Requests \cup {None},
     position: Nat \cup {None},
     provider: ProviderIds \cup {None}]

Row ==
    [table: Tables,
     id: Requests,
     session: Sessions,
     owner: Sessions \cup Requests \cup {None},
     position: 0 .. MaxInteger,
     provider: ProviderIds \cup {None}]

ASSUME ConstantsAssumption ==
    /\ MaxInteger \in Nat
    /\ None \notin Sessions \cup Requests \cup ProviderIds \cup Nat
    /\ Payloads \subseteq Payload
    /\ \A p \in Payloads : p.table = "message" => p.owner = p.session

VARIABLES
    sessions,     \* committed agent_sessions
    rows,         \* committed rows of messages, tool_calls and tool_results
    pc,           \* where each request stands, or how it was answered
    payload,      \* what each request asks for
    position,     \* the sequence_number or call_index a request settled on
    acknowledged  \* history: the ids answered with 201 before a request came

vars == <<sessions, rows, pc, payload, position, acknowledged>>

Running ==
    {"received", "deduplicate", "sequence", "find_message", "index",
     "find_tool_call", "find_result", "insert", "inserted", "stored"}
Refused == {"not_found", "duplicate", "bad_sequence", "conflict"}
Answered == Refused \cup {"created", "failed"}

Goto(r, label) == pc' = [pc EXCEPT ![r] = label]

(* Statements that read: only committed rows are visible.  A definition     *)
(* whose comment calls it a mutant takes no part in the specification: it   *)
(* is a plausible bug, kept to show that a property would notice it.        *)
RowsOf(table, owner) == {x \in rows : x.table = table /\ x.owner = owner}

(* Mutant of PositionsOf: the store at READ UNCOMMITTED.                    *)
DirtyPositionsOf(table, owner) ==
    {x.position : x \in RowsOf(table, owner)} \cup
    {position[q] : q \in {r \in Requests : /\ pc[r] = "inserted"
                                          /\ payload[r].table = table
                                          /\ payload[r].owner = owner}}

PositionsOf(table, owner) == {x.position : x \in RowsOf(table, owner)}
IsHighest(n, S) == n \in S /\ \A k \in S : k <= n

UniqueKey(r) == <<payload[r].table, payload[r].owner, position[r]>>
KeyOf(x) == <<x.table, x.owner, x.position>>

RowFor(r) ==
    [table |-> payload[r].table, id |-> r, session |-> payload[r].session,
     owner |-> payload[r].owner, position |-> position[r],
     provider |-> payload[r].provider]

Init ==
    /\ sessions = {}
    /\ rows = {}
    /\ pc = [r \in Requests |-> "idle"]
    /\ payload = [r \in Requests |-> None]
    /\ position = [r \in Requests |-> 0]
    /\ acknowledged = [r \in Requests |-> {}]

-----------------------------------------------------------------------------
(* create_session: a fresh primary key, so its insert never conflicts.      *)
CreateSession(s) ==
    /\ s \notin sessions
    /\ sessions' = sessions \cup {s}
    /\ UNCHANGED <<rows, pc, payload, position, acknowledged>>

(* A request arrives.  A row's id is a UUID the client learnt from the API, *)
(* so a path names a stored row or an id that exists nowhere.               *)
Receive(r, p) ==
    /\ pc[r] = "idle"
    /\ p.owner \in Sessions \cup {x.id : x \in rows} \cup {None}
    /\ payload' = [payload EXCEPT ![r] = p]
    /\ acknowledged' =
         [acknowledged EXCEPT ![r] = {q \in Requests : pc[q] = "created"}]
    /\ Goto(r, "received")
    /\ UNCHANGED <<sessions, rows, position>>

(* get_session, the first statement of every handler.                       *)
FirstCheck(table) ==
    CASE table = "message"     -> "deduplicate"
      [] table = "tool_call"   -> "find_message"
      [] table = "tool_result" -> "find_tool_call"

GetSession(r) ==
    /\ pc[r] = "received"
    /\ Goto(r, IF payload[r].session \in sessions
               THEN FirstCheck(payload[r].table)
               ELSE "not_found")
    /\ UNCHANGED <<sessions, rows, payload, position, acknowledged>>

-----------------------------------------------------------------------------
(* add_message                                                              *)

(* Mutant of ProviderIdKnown: a replay must also repeat the number.         *)
SameEventKnown(r) ==
    /\ payload[r].provider # None
    /\ \E m \in RowsOf("message", payload[r].session) :
          m.provider = payload[r].provider /\ m.position = payload[r].position

ProviderIdKnown(r) ==
    /\ payload[r].provider # None
    /\ \E m \in RowsOf("message", payload[r].session) :
          m.provider = payload[r].provider

DeduplicateMessage(r) ==
    /\ pc[r] = "deduplicate"
    /\ Goto(r, IF ProviderIdKnown(r) THEN "duplicate" ELSE "sequence")
    /\ UNCHANGED <<sessions, rows, payload, position, acknowledged>>

(* The last recorded number is 0 when the session has no message.           *)
ChooseSequence(r) ==
    /\ pc[r] = "sequence"
    /\ \E last \in {0} \cup PositionsOf("message", payload[r].session) :
         /\ IsHighest(last, {0} \cup PositionsOf("message", payload[r].session))
         /\ \/ /\ payload[r].position = None
               /\ position' = [position EXCEPT ![r] = last + 1]
               /\ Goto(r, "insert")
            \/ /\ payload[r].position # None
               /\ payload[r].position > last
               /\ position' = [position EXCEPT ![r] = payload[r].position]
               /\ Goto(r, "insert")
            \/ /\ payload[r].position # None
               /\ payload[r].position <= last
               /\ Goto(r, "bad_sequence")
               /\ UNCHANGED position
    /\ UNCHANGED <<sessions, rows, payload, acknowledged>>

-----------------------------------------------------------------------------
(* add_tool_call                                                            *)

(* Mutant of OwnerInSession: any session's row will do.                     *)
OwnerAnywhere(r, table) ==
    \E x \in rows : x.table = table /\ x.id = payload[r].owner

OwnerInSession(r, table) ==
    \E x \in rows : /\ x.table = table
                    /\ x.id = payload[r].owner
                    /\ x.session = payload[r].session

FindMessage(r) ==
    /\ pc[r] = "find_message"
    /\ Goto(r, IF OwnerInSession(r, "message") THEN "index" ELSE "not_found")
    /\ UNCHANGED <<sessions, rows, payload, position, acknowledged>>

(* One above the highest index, 0 for the first call of a message.          *)
ChooseCallIndex(r) ==
    LET taken == PositionsOf("tool_call", payload[r].owner) IN
    /\ pc[r] = "index"
    /\ \/ /\ payload[r].position = None
          /\ \E last \in {-1} \cup taken :
               /\ IsHighest(last, {-1} \cup taken)
               /\ position' = [position EXCEPT ![r] = last + 1]
          /\ Goto(r, "insert")
       \/ /\ payload[r].position # None
          /\ payload[r].position \notin taken
          /\ position' = [position EXCEPT ![r] = payload[r].position]
          /\ Goto(r, "insert")
       \/ /\ payload[r].position \in taken
          /\ Goto(r, "duplicate")
          /\ UNCHANGED position
    /\ UNCHANGED <<sessions, rows, payload, acknowledged>>

-----------------------------------------------------------------------------
(* add_tool_result                                                          *)

FindToolCall(r) ==
    /\ pc[r] = "find_tool_call"
    /\ Goto(r, IF OwnerInSession(r, "tool_call")
               THEN "find_result" ELSE "not_found")
    /\ UNCHANGED <<sessions, rows, payload, position, acknowledged>>

FindResult(r) ==
    /\ pc[r] = "find_result"
    /\ Goto(r, IF RowsOf("tool_result", payload[r].owner) # {}
               THEN "duplicate" ELSE "insert")
    /\ UNCHANGED <<sessions, rows, payload, position, acknowledged>>

-----------------------------------------------------------------------------
(* _commit_or_conflict around flush and commit                              *)

(* The unique constraints: the flush waits while another open transaction   *)
(* holds the same key, and fails on a key that a committed row has.         *)

(* Mutant of MustWait: a lock that its holder never releases.               *)
WaitForEver(r) ==
    \E q \in Requests \ {r} :
        pc[q] \in {"inserted", "stored", "created"} /\ UniqueKey(q) = UniqueKey(r)

MustWait(r) ==
    \E q \in Requests : pc[q] = "inserted" /\ UniqueKey(q) = UniqueKey(r)

(* Mutant of KeyTaken: no constraint on the tool_call_id of results.        *)
EventKeyTaken(r) ==
    /\ payload[r].table # "tool_result"
    /\ \E x \in rows : KeyOf(x) = UniqueKey(r)

KeyTaken(r) == \E x \in rows : KeyOf(x) = UniqueKey(r)

(* Mutant of Fits: one too many.                                            *)
NearlyFits(n) == n <= MaxInteger + 1

Fits(n) == n <= MaxInteger

(* An IntegrityError is rolled back and answered 409.  A number that does   *)
(* not fit its column is a DataError, which nothing translates: 500.        *)

(* Mutant of FlushOutcome: every database error becomes a 409.              *)
AnyErrorConflicts(r) ==
    IF ~Fits(position[r]) \/ KeyTaken(r) THEN "conflict" ELSE "inserted"

FlushOutcome(r) ==
    IF ~Fits(position[r]) THEN "failed"
    ELSE IF KeyTaken(r) THEN "conflict"
    ELSE "inserted"

Insert(r) ==
    /\ pc[r] = "insert"
    /\ ~MustWait(r)
    /\ Goto(r, FlushOutcome(r))
    /\ UNCHANGED <<sessions, rows, payload, position, acknowledged>>

(* Mutant of Commit: the flushed row is never committed.                    *)
CommitForgotten(r) ==
    /\ pc[r] = "inserted"
    /\ Goto(r, "stored")
    /\ UNCHANGED <<sessions, rows, payload, position, acknowledged>>

Commit(r) ==
    /\ pc[r] = "inserted"
    /\ rows' = rows \cup {RowFor(r)}
    /\ Goto(r, "stored")
    /\ UNCHANGED <<sessions, payload, position, acknowledged>>

(* refresh() and the 201 response.                                          *)
Respond(r) ==
    /\ pc[r] = "stored"
    /\ Goto(r, "created")
    /\ UNCHANGED <<sessions, rows, payload, position, acknowledged>>

(* The worker or its connection dies, or the response is lost: the client   *)
(* sees no answer or a 500, and an open transaction is rolled back.         *)
Fail(r) ==
    /\ pc[r] \in Running
    /\ Goto(r, "failed")
    /\ UNCHANGED <<sessions, rows, payload, position, acknowledged>>

-----------------------------------------------------------------------------
Handle(r) ==
    \/ GetSession(r)
    \/ DeduplicateMessage(r)
    \/ ChooseSequence(r)
    \/ FindMessage(r)
    \/ ChooseCallIndex(r)
    \/ FindToolCall(r)
    \/ FindResult(r)
    \/ Insert(r)
    \/ Commit(r)
    \/ Respond(r)

Next ==
    \/ \E s \in Sessions : CreateSession(s)
    \/ \E r \in Requests :
         \/ \E p \in Payloads : Receive(r, p)
         \/ Handle(r)
         \/ Fail(r)

Spec == Init /\ [][Next]_vars

(* The server keeps running the requests it has accepted.                   *)
Fairness == \A r \in Requests : WF_vars(Handle(r))
FairSpec == Spec /\ Fairness

-----------------------------------------------------------------------------
TypeOK ==
    /\ sessions \subseteq Sessions
    /\ rows \subseteq Row
    /\ pc \in [Requests -> {"idle"} \cup Running \cup Answered]
    /\ payload \in [Requests -> Payloads \cup {None}]
    /\ \A r \in Requests : pc[r] # "idle" => payload[r] \in Payloads
    /\ position \in [Requests -> Nat]
    /\ acknowledged \in [Requests -> SUBSET Requests]

(* The unique constraints hold: no two messages of a session share a        *)
(* sequence_number, no two calls of a message a call_index, and a tool call *)
(* has one result, however the requests that wrote them interleaved.        *)
UniquePositions ==
    \A x, y \in rows : KeyOf(x) = KeyOf(y) => x = y

(* The answer tells the truth about the store: a 201 means the row the      *)
(* client asked for is there, a 404 or 409 that nothing was stored.         *)
AnswersMatchStore ==
    \A r \in Requests :
        /\ pc[r] = "created" => RowFor(r) \in rows
        /\ pc[r] \in Refused => \A x \in rows : x.id # r

(* A stored row belongs to an existing session, and what it hangs below is  *)
(* a stored row of that same session.                                       *)
OwnersStored ==
    \A x \in rows :
        /\ x.session \in sessions
        /\ x.table = "message" => x.owner = x.session
        /\ x.table = "tool_call" =>
             \E m \in rows : /\ m.table = "message"
                             /\ m.id = x.owner
                             /\ m.session = x.session
        /\ x.table = "tool_result" =>
             \E c \in rows : /\ c.table = "tool_call"
                             /\ c.id = x.owner
                             /\ c.session = x.session

FirstPosition(table) == IF table = "message" THEN 1 ELSE 0

(* Server-assigned numbers never skip: the row below an auto-numbered one   *)
(* is stored, whatever raced or was rolled back in between.                 *)
AutoNumbersLeaveNoGap ==
    \A x \in rows :
        /\ x.table # "tool_result"
        /\ payload[x.id].position = None
        /\ x.position > FirstPosition(x.table)
        => \E y \in rows :
             KeyOf(y) = <<x.table, x.owner, x.position - 1>>

(* A lost race has a winner: a request is told "conflict" only when another *)
(* request's row is stored under the key it wanted.                         *)
ConflictHasWinner ==
    \A r \in Requests :
        pc[r] = "conflict" =>
            \E x \in rows : x.id # r /\ KeyOf(x) = UniqueKey(r)

(* A replay of an upstream event sent after the first delivery was answered *)
(* with 201 is never stored a second time.                                  *)
ReplayAfterAnswerRefused ==
    \A x, y \in rows :
        /\ x.table = "message" /\ y.table = "message"
        /\ x.session = y.session
        /\ x.provider = y.provider /\ x.provider # None
        => y.id \notin acknowledged[x.id]

(* Every request the server accepts is answered: waiting for another        *)
(* transaction's key always ends.                                           *)
EveryRequestAnswered ==
    \A r \in Requests : pc[r] = "received" ~> pc[r] \in Answered

(* What schemas/messages.py promises of provider_message_id: replays of the *)
(* same upstream event are not stored twice.  Two concurrent deliveries     *)
(* break it: nothing unique stands behind the duplicate lookup.             *)
ProviderIdStoredOnce ==
    \A x, y \in rows :
        /\ x.table = "message" /\ y.table = "message"
        /\ x.session = y.session
        /\ x.provider = y.provider /\ x.provider # None
        => x = y

(* The handlers implement the store they promise: at Commit the event is    *)
(* appended, once and for ever, and the answer is given once.               *)
told ==
    [r \in Requests |-> IF pc[r] \in Refused THEN "refused"
                        ELSE IF pc[r] \in {"created", "failed"} THEN pc[r]
                        ELSE "none"]

Store == INSTANCE EventStore
         WITH sessions <- sessions, rows <- rows, answer <- told

ImplementsEventStore == Store!Spec
=============================================================================
