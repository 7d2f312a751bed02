-------------------------- MODULE IngestionProofs --------------------------
(***************************************************************************)
(* Proofs about Ingestion, for every set of sessions, requests, provider   *)
(* ids and payloads: positions and ids are unique and answers are true;    *)
(* and, resting on that, what becomes of the requests in the end: parents  *)
(* are stored, numbers have no gap, refusals have a cause, replays are     *)
(* refused, and the whole implements EventStore.                           *)
(***************************************************************************)
EXTENDS Ingestion, TLAPS

USE ConstantsAssumption

(* TypeOK is not inductive: that a stored position fits its column is known *)
(* because the flush of that row succeeded.                                 *)
Bounded == \A r \in Requests : pc[r] = "inserted" => position[r] \in 0 .. MaxInteger

TypeInv == TypeOK /\ Bounded

(* TypeInv holds before the first request.                                  *)
LEMMA TypeInit == Init => TypeInv
BY DEF Init, TypeInv, TypeOK, Bounded

(* Every statement of every handler preserves TypeInv.                      *)
LEMMA TypeStep == TypeInv /\ [Next]_vars => TypeInv'
<1> SUFFICES ASSUME TypeInv, [Next]_vars PROVE TypeInv'
  OBVIOUS
<1> USE DEF TypeInv, TypeOK, Bounded, Goto, Running, Answered, Refused
<1>1. ASSUME NEW s \in Sessions, CreateSession(s) PROVE TypeInv'
  BY <1>1 DEF CreateSession
<1>2. ASSUME NEW r \in Requests, NEW p \in Payloads, Receive(r, p)
      PROVE TypeInv'
  BY <1>2 DEF Receive
<1>3. ASSUME NEW r \in Requests, GetSession(r) PROVE TypeInv'
  <2>1. payload[r].table \in Tables
    BY <1>3 DEF GetSession, Payload
  <2>2. QED
    BY <1>3, <2>1 DEF GetSession, FirstCheck, Tables
<1>4. ASSUME NEW r \in Requests, DeduplicateMessage(r) PROVE TypeInv'
  BY <1>4 DEF DeduplicateMessage
<1>5. ASSUME NEW r \in Requests, ChooseSequence(r) PROVE TypeInv'
  <2>1. payload[r].position \in Nat \cup {None}
    BY <1>5 DEF ChooseSequence, Payload
  <2>2. {0} \cup PositionsOf("message", payload[r].session) \subseteq Nat
    BY DEF PositionsOf, RowsOf, Row
  <2>3. position'[r] \in Nat /\ position' = [position EXCEPT ![r] = position'[r]]
    BY <1>5, <2>1, <2>2 DEF ChooseSequence
  <2>4. position' \in [Requests -> Nat]
    BY <2>3
  <2>5. \E l \in {"insert", "bad_sequence"} : pc' = [pc EXCEPT ![r] = l]
    BY <1>5 DEF ChooseSequence
  <2>6. \A q \in Requests : pc'[q] = "inserted" => pc[q] = "inserted" /\ q # r
    BY <2>5
  <2>7. QED
    BY <1>5, <2>3, <2>4, <2>5, <2>6 DEF ChooseSequence
<1>6. ASSUME NEW r \in Requests, FindMessage(r) PROVE TypeInv'
  BY <1>6 DEF FindMessage
<1>7. ASSUME NEW r \in Requests, ChooseCallIndex(r) PROVE TypeInv'
  <2>1. payload[r].position \in Nat \cup {None}
    BY <1>7 DEF ChooseCallIndex, Payload
  <2>2. PositionsOf("tool_call", payload[r].owner) \subseteq Nat
    BY DEF PositionsOf, RowsOf, Row
  <2>3. position'[r] \in Nat /\ position' = [position EXCEPT ![r] = position'[r]]
    BY <1>7, <2>1, <2>2 DEF ChooseCallIndex
  <2>4. position' \in [Requests -> Nat]
    BY <2>3
  <2>5. \E l \in {"insert", "duplicate"} : pc' = [pc EXCEPT ![r] = l]
    BY <1>7 DEF ChooseCallIndex
  <2>6. \A q \in Requests : pc'[q] = "inserted" => pc[q] = "inserted" /\ q # r
    BY <2>5
  <2>7. QED
    BY <1>7, <2>3, <2>4, <2>5, <2>6 DEF ChooseCallIndex
<1>8. ASSUME NEW r \in Requests, FindToolCall(r) PROVE TypeInv'
  BY <1>8 DEF FindToolCall
<1>9. ASSUME NEW r \in Requests, FindResult(r) PROVE TypeInv'
  BY <1>9 DEF FindResult
<1>10. ASSUME NEW r \in Requests, Insert(r) PROVE TypeInv'
  BY <1>10 DEF Insert, FlushOutcome, Fits
<1>11. ASSUME NEW r \in Requests, Commit(r) PROVE TypeInv'
  <2>1. RowFor(r) \in Row
    BY <1>11 DEF Commit, RowFor, Row, Payload
  <2>2. QED
    BY <1>11, <2>1 DEF Commit
<1>12. ASSUME NEW r \in Requests, Respond(r) PROVE TypeInv'
  BY <1>12 DEF Respond
<1>13. ASSUME NEW r \in Requests, Fail(r) PROVE TypeInv'
  BY <1>13 DEF Fail
<1>14. CASE UNCHANGED vars
  BY <1>14 DEF vars
<1> QED
  BY <1>1, <1>2, <1>3, <1>4, <1>5, <1>6, <1>7, <1>8, <1>9, <1>10, <1>11,
     <1>12, <1>13, <1>14 DEF Next, Handle

(* Type correctness: every variable keeps its type, and a stored position   *)
(* fits the INTEGER column.                                                 *)
THEOREM TypeCorrect == Spec => []TypeOK
<1>1. TypeInv => TypeOK
  BY DEF TypeInv
<1> QED
  BY TypeInit, TypeStep, <1>1, PTL DEF Spec

-----------------------------------------------------------------------------
(* The store and the open transactions.  A row is what its request asked    *)
(* for, and an open transaction owns its key: neither a committed row nor   *)
(* another open transaction has it.                                         *)
Holding == {"stored", "created"}

RowOrigin ==
    \A x \in rows : x = RowFor(x.id) /\ pc[x.id] \in Holding \cup {"failed"}

HoldingHasRow == \A r \in Requests : pc[r] \in Holding => RowFor(r) \in rows

KeysHeld ==
    \A r \in Requests : pc[r] = "inserted" =>
        /\ \A x \in rows : KeyOf(x) # UniqueKey(r)
        /\ \A q \in Requests :
             pc[q] = "inserted" /\ UniqueKey(q) = UniqueKey(r) => q = r

StoreInv ==
    /\ TypeInv
    /\ RowOrigin
    /\ HoldingHasRow
    /\ KeysHeld
    /\ UniquePositions

(* The empty store satisfies StoreInv.                                      *)
LEMMA StoreInit == Init => StoreInv
BY TypeInit DEF Init, StoreInv, RowOrigin, HoldingHasRow, KeysHeld,
   UniquePositions, Holding

(* A step of a request that stores nothing and holds no key, before and     *)
(* after the step, preserves StoreInv.                                      *)
LEMMA QuietStep ==
    ASSUME StoreInv, TypeInv', NEW r \in Requests,
           pc[r] \notin Holding \cup {"inserted", "failed"},
           pc'[r] \notin Holding \cup {"inserted"},
           rows' = rows,
           \A q \in Requests \ {r} : /\ pc'[q] = pc[q]
                                     /\ payload'[q] = payload[q]
                                     /\ position'[q] = position[q]
    PROVE  StoreInv'
<1> USE DEF StoreInv
<1>1. \A x \in rows : x.id \in Requests \ {r}
  BY DEF RowOrigin, TypeInv, TypeOK, Row
<1>2. \A q \in Requests \ {r} : RowFor(q)' = RowFor(q) /\ UniqueKey(q)' = UniqueKey(q)
  BY DEF RowFor, UniqueKey
<1>3. RowOrigin'
  BY <1>1, <1>2 DEF RowOrigin
<1>4. HoldingHasRow'
  BY <1>2 DEF HoldingHasRow
<1>5. KeysHeld'
  BY <1>2 DEF KeysHeld
<1>6. UniquePositions'
  BY DEF UniquePositions
<1> QED
  BY <1>3, <1>4, <1>5, <1>6

(* Every statement of every handler preserves StoreInv: Insert takes a key  *)
(* that is free, Commit turns it into a row.                                *)
LEMMA StoreStep == StoreInv /\ [Next]_vars => StoreInv'
<1> SUFFICES ASSUME StoreInv, [Next]_vars PROVE StoreInv'
  OBVIOUS
<1>t. TypeInv /\ TypeInv'
  BY TypeStep DEF StoreInv
<1>pc. /\ pc \in [Requests -> {"idle"} \cup Running \cup Answered]
       /\ payload \in [Requests -> Payloads \cup {None}]
       /\ position \in [Requests -> Nat]
  BY <1>t DEF TypeInv, TypeOK
<1>id. \A x \in rows : x.id \in Requests
  BY <1>t DEF TypeInv, TypeOK, Row
<1> USE DEF Goto, Holding
<1>1. ASSUME NEW s \in Sessions, CreateSession(s) PROVE StoreInv'
  BY <1>1, <1>t DEF CreateSession, StoreInv, RowOrigin, HoldingHasRow, KeysHeld,
     UniquePositions, RowFor, UniqueKey
<1>2. ASSUME NEW r \in Requests, NEW p \in Payloads, Receive(r, p)
      PROVE StoreInv'
  BY <1>2, <1>t, <1>pc, QuietStep DEF Receive
<1>3. ASSUME NEW r \in Requests, GetSession(r) PROVE StoreInv'
  <2>1. payload[r].table \in Tables
    BY <1>3, <1>t DEF GetSession, TypeInv, TypeOK, Payload
  <2>2. pc'[r] \in {"deduplicate", "find_message", "find_tool_call", "not_found"}
    BY <1>3, <1>pc, <2>1 DEF GetSession, FirstCheck, Tables
  <2> QED
    BY <1>3, <1>t, <1>pc, <2>2, QuietStep DEF GetSession
<1>4. ASSUME NEW r \in Requests, DeduplicateMessage(r) PROVE StoreInv'
  BY <1>4, <1>t, <1>pc, QuietStep DEF DeduplicateMessage
<1>5. ASSUME NEW r \in Requests, ChooseSequence(r) PROVE StoreInv'
  <2>1. /\ pc'[r] \in {"insert", "bad_sequence"}
        /\ \A q \in Requests \ {r} : pc'[q] = pc[q] /\ position'[q] = position[q]
    BY <1>5, <1>pc DEF ChooseSequence
  <2> QED
    BY <1>5, <1>t, <1>pc, <2>1, QuietStep DEF ChooseSequence
<1>6. ASSUME NEW r \in Requests, FindMessage(r) PROVE StoreInv'
  BY <1>6, <1>t, <1>pc, QuietStep DEF FindMessage
<1>7. ASSUME NEW r \in Requests, ChooseCallIndex(r) PROVE StoreInv'
  <2>1. /\ pc'[r] \in {"insert", "duplicate"}
        /\ \A q \in Requests \ {r} : pc'[q] = pc[q] /\ position'[q] = position[q]
    BY <1>7, <1>pc DEF ChooseCallIndex
  <2> QED
    BY <1>7, <1>t, <1>pc, <2>1, QuietStep DEF ChooseCallIndex
<1>8. ASSUME NEW r \in Requests, FindToolCall(r) PROVE StoreInv'
  BY <1>8, <1>t, <1>pc, QuietStep DEF FindToolCall
<1>9. ASSUME NEW r \in Requests, FindResult(r) PROVE StoreInv'
  BY <1>9, <1>t, <1>pc, QuietStep DEF FindResult
<1>10. ASSUME NEW r \in Requests, Insert(r) PROVE StoreInv'
  <2>1. CASE pc'[r] # "inserted"
    <3>1. pc'[r] \in {"conflict", "failed"}
      BY <1>10, <1>pc, <2>1 DEF Insert, FlushOutcome
    <3> QED
      BY <1>10, <1>t, <1>pc, <3>1, QuietStep DEF Insert
  <2>2. CASE pc'[r] = "inserted"
    <3>1. \A x \in rows : KeyOf(x) # UniqueKey(r)
      BY <1>10, <1>pc, <2>2 DEF Insert, FlushOutcome, KeyTaken
    <3>2. /\ rows' = rows
          /\ pc' = [pc EXCEPT ![r] = "inserted"]
          /\ \A q \in Requests : /\ RowFor(q)' = RowFor(q)
                                 /\ UniqueKey(q)' = UniqueKey(q)
      BY <1>10, <1>pc, <2>2 DEF Insert, RowFor, UniqueKey
    <3>3. KeysHeld'
      BY <1>10, <1>pc, <3>1, <3>2 DEF Insert, MustWait, StoreInv, KeysHeld
    <3>4. RowOrigin'
      BY <1>10, <1>pc, <1>id, <3>2 DEF Insert, StoreInv, RowOrigin
    <3> QED
      BY <1>t, <1>pc, <3>2, <3>3, <3>4
      DEF StoreInv, HoldingHasRow, UniquePositions
  <2> QED
    BY <2>1, <2>2
<1>11. ASSUME NEW r \in Requests, Commit(r) PROVE StoreInv'
  <2>1. /\ rows' = rows \cup {RowFor(r)}
        /\ pc[r] = "inserted"
        /\ pc' = [pc EXCEPT ![r] = "stored"]
        /\ \A q \in Requests : /\ RowFor(q)' = RowFor(q)
                               /\ UniqueKey(q)' = UniqueKey(q)
    BY <1>11 DEF Commit, RowFor, UniqueKey
  <2>2. RowFor(r).id = r /\ KeyOf(RowFor(r)) = UniqueKey(r)
    BY DEF RowFor, KeyOf, UniqueKey
  <2>3. RowOrigin'
    BY <1>pc, <1>id, <2>1, <2>2 DEF StoreInv, RowOrigin
  <2>4. HoldingHasRow'
    BY <1>pc, <2>1 DEF StoreInv, HoldingHasRow
  <2>5. KeysHeld'
    <3> SUFFICES ASSUME NEW q \in Requests, pc'[q] = "inserted"
                 PROVE  /\ \A x \in rows' : KeyOf(x) # UniqueKey(q)
                        /\ \A p \in Requests :
                             pc'[p] = "inserted" /\ UniqueKey(p) = UniqueKey(q)
                             => p = q
      BY <2>1 DEF KeysHeld
    <3>1. q # r /\ pc[q] = "inserted"
      BY <1>pc, <2>1
    <3>2. UniqueKey(q) # UniqueKey(r)
      BY <2>1, <3>1 DEF StoreInv, KeysHeld
    <3>3. \A p \in Requests : pc'[p] = "inserted" => pc[p] = "inserted"
      BY <1>pc, <2>1
    <3> QED
      BY <2>1, <2>2, <3>1, <3>2, <3>3 DEF StoreInv, KeysHeld
  <2>6. UniquePositions'
    BY <2>1, <2>2 DEF StoreInv, UniquePositions, KeysHeld
  <2> QED
    BY <1>t, <2>3, <2>4, <2>5, <2>6 DEF StoreInv
<1>12. ASSUME NEW r \in Requests, Respond(r) PROVE StoreInv'
  <2>1. /\ rows' = rows
        /\ pc[r] = "stored"
        /\ pc' = [pc EXCEPT ![r] = "created"]
        /\ \A q \in Requests : /\ RowFor(q)' = RowFor(q)
                               /\ UniqueKey(q)' = UniqueKey(q)
    BY <1>12 DEF Respond, RowFor, UniqueKey
  <2>2. RowOrigin'
    BY <1>pc, <1>id, <2>1 DEF StoreInv, RowOrigin
  <2> QED
    BY <1>t, <1>pc, <2>1, <2>2
    DEF StoreInv, HoldingHasRow, KeysHeld, UniquePositions
<1>13. ASSUME NEW r \in Requests, Fail(r) PROVE StoreInv'
  <2>1. /\ rows' = rows
        /\ pc' = [pc EXCEPT ![r] = "failed"]
        /\ \A q \in Requests : /\ RowFor(q)' = RowFor(q)
                               /\ UniqueKey(q)' = UniqueKey(q)
    BY <1>13 DEF Fail, RowFor, UniqueKey
  <2>2. RowOrigin'
    BY <1>pc, <1>id, <2>1 DEF StoreInv, RowOrigin
  <2> QED
    BY <1>t, <1>pc, <2>1, <2>2
    DEF StoreInv, HoldingHasRow, KeysHeld, UniquePositions
<1>14. CASE UNCHANGED vars
  BY <1>14, <1>t DEF vars, StoreInv, RowOrigin, HoldingHasRow, KeysHeld,
     UniquePositions, RowFor, UniqueKey
<1> QED
  BY <1>1, <1>2, <1>3, <1>4, <1>5, <1>6, <1>7, <1>8, <1>9, <1>10, <1>11,
     <1>12, <1>13, <1>14 DEF Next, Handle

(* StoreInv is an invariant.                                                *)
LEMMA StoreInvariant == Spec => []StoreInv
BY StoreInit, StoreStep, PTL DEF Spec

(* Whatever requests race, no two stored rows share a unique key: no        *)
(* sequence_number twice in a session, no call_index twice in a message,    *)
(* no second result for a tool call.                                        *)
THEOREM PositionsUnique == Spec => []UniquePositions
<1>1. StoreInv => UniquePositions
  BY DEF StoreInv
<1> QED
  BY StoreInvariant, <1>1, PTL

(* A 201 is given only when the row is stored, and stays true for ever; a   *)
(* 404 or 409 is given only when nothing was, and nothing ever will be.     *)
THEOREM AnswersTruthful == Spec => []AnswersMatchStore
<1>1. StoreInv => AnswersMatchStore
  BY DEF StoreInv, AnswersMatchStore, RowOrigin, HoldingHasRow, Holding, Refused
<1> QED
  BY StoreInvariant, <1>1, PTL

-----------------------------------------------------------------------------
(* What a step does, seen from one request and from the rows.              *)
Moves(r) == (\E p \in Payloads : Receive(r, p)) \/ Handle(r) \/ Fail(r)

Rests(r) ==
    /\ pc'[r] = pc[r]
    /\ payload'[r] = payload[r]
    /\ position'[r] = position[r]
    /\ acknowledged'[r] = acknowledged[r]

(* A step is a move of the request or leaves it alone.                      *)
LEMMA MovesOrRests ==
    ASSUME TypeInv, [Next]_vars, NEW r \in Requests
    PROVE  Moves(r) \/ Rests(r)
<1> USE DEF Moves, Rests, TypeInv, TypeOK, Goto
<1>1. ASSUME NEW s \in Sessions, CreateSession(s) PROVE Rests(r)
  BY <1>1 DEF CreateSession
<1>2. CASE UNCHANGED vars
  BY <1>2 DEF vars
<1>3. ASSUME NEW q \in Requests, q # r, NEW p \in Payloads, Receive(q, p)
      PROVE  Rests(r)
  BY <1>3 DEF Receive
<1>4. ASSUME NEW q \in Requests, q # r, Handle(q) PROVE Rests(r)
  <2>1. CASE ChooseSequence(q)
    BY <1>4, <2>1 DEF ChooseSequence
  <2>2. CASE ChooseCallIndex(q)
    BY <1>4, <2>2 DEF ChooseCallIndex
  <2>3. CASE Insert(q) \/ Commit(q) \/ Respond(q)
    BY <1>4, <2>3 DEF Insert, Commit, Respond
  <2> QED
    BY <1>4, <2>1, <2>2, <2>3
    DEF Handle, GetSession, DeduplicateMessage, FindMessage, FindToolCall,
        FindResult
<1>5. ASSUME NEW q \in Requests, q # r, Fail(q) PROVE Rests(r)
  BY <1>5 DEF Fail
<1> QED
  BY <1>1, <1>2, <1>3, <1>4, <1>5 DEF Next

(* Nothing stored is lost, and what a step adds is one committed row.       *)
LEMMA Growth ==
    ASSUME TypeInv, [Next]_vars
    PROVE  /\ sessions \subseteq sessions'
           /\ rows \subseteq rows'
           /\ \A x \in rows' \ rows :
                x.id \in Requests /\ Commit(x.id) /\ x = RowFor(x.id)
<1>1. ASSUME NEW s \in Sessions, CreateSession(s)
      PROVE  sessions \subseteq sessions' /\ rows' = rows
  BY <1>1 DEF CreateSession
<1>2. ASSUME NEW q \in Requests, Moves(q), ~Commit(q)
      PROVE  sessions' = sessions /\ rows' = rows
  BY <1>2 DEF Moves, Handle, Receive, Fail, GetSession, DeduplicateMessage,
     ChooseSequence, FindMessage, ChooseCallIndex, FindToolCall, FindResult,
     Insert, Respond
<1>3. ASSUME NEW q \in Requests, Commit(q)
      PROVE  /\ sessions' = sessions
             /\ rows' = rows \cup {RowFor(q)}
             /\ RowFor(q).id = q
  BY <1>3 DEF Commit, RowFor
<1>4. CASE UNCHANGED vars
  BY <1>4 DEF vars
<1> QED
  BY <1>1, <1>2, <1>3, <1>4 DEF Next, Moves

(* A request never changes its mind once it has arrived.                    *)
LEMMA Settled ==
    ASSUME TypeInv, [Next]_vars, NEW r \in Requests, pc[r] # "idle"
    PROVE  /\ payload'[r] = payload[r]
           /\ acknowledged'[r] = acknowledged[r]
           /\ pc'[r] # "idle"
           /\ pc[r] \notin {"sequence", "index"} => position'[r] = position[r]
<1>1. CASE Rests(r)
  BY <1>1 DEF Rests
<1>2. CASE Handle(r) \/ Fail(r)
  <2>1. payload' = payload /\ acknowledged' = acknowledged
    BY <1>2 DEF Handle, Fail, GetSession, DeduplicateMessage, ChooseSequence,
       FindMessage, ChooseCallIndex, FindToolCall, FindResult, Insert, Commit,
       Respond
  <2>2. pc[r] \notin {"sequence", "index"} => position' = position
    BY <1>2 DEF Handle, Fail, GetSession, DeduplicateMessage, ChooseSequence,
       FindMessage, ChooseCallIndex, FindToolCall, FindResult, Insert, Commit,
       Respond
  <2>3. pc'[r] # "idle"
    <3>1. payload[r].table \in Tables
      BY DEF TypeInv, TypeOK, Payload
    <3> QED
      BY <1>2, <3>1
      DEF TypeInv, TypeOK, Goto, Handle, Fail, GetSession, FirstCheck, Tables,
          DeduplicateMessage, ChooseSequence, FindMessage, ChooseCallIndex,
          FindToolCall, FindResult, Insert, FlushOutcome, Commit, Respond
  <2> QED
    BY <2>1, <2>2, <2>3
<1>3. CASE \E p \in Payloads : Receive(r, p)
  BY <1>3 DEF Receive
<1> QED
  BY <1>1, <1>2, <1>3, MovesOrRests DEF Moves
-----------------------------------------------------------------------------
(* Parents.  A row hangs below its session, or below a row of the right     *)
(* kind in that session.                                                    *)
RowIn(table, id, session) ==
    \E y \in rows : y.table = table /\ y.id = id /\ y.session = session

Hangs(x) ==
    /\ x.session \in sessions
    /\ x.table = "message" => x.owner = x.session
    /\ x.table = "tool_call" => RowIn("message", x.owner, x.session)
    /\ x.table = "tool_result" => RowIn("tool_call", x.owner, x.session)

(* What a request has looked up by the time of its next statement.          *)
LookedUp(r) ==
    /\ pc[r] \in {"deduplicate", "sequence"} => payload[r].table = "message"
    /\ pc[r] \in {"find_message", "index"} => payload[r].table = "tool_call"
    /\ pc[r] \in {"find_tool_call", "find_result"} =>
         payload[r].table = "tool_result"
    /\ pc[r] \in {"deduplicate", "find_message", "find_tool_call"} =>
         payload[r].session \in sessions
    /\ pc[r] \in {"sequence", "index", "find_result", "insert", "inserted"} =>
         Hangs(payload[r])

OwnerInv ==
    /\ \A r \in Requests : LookedUp(r)
    /\ \A x \in rows : Hangs(x)

(* What hangs somewhere stays there: nothing is deleted.                    *)
LEMMA HangsOn ==
    ASSUME TypeInv, [Next]_vars, NEW x, Hangs(x)
    PROVE  Hangs(x)'
BY Growth DEF Hangs, RowIn

(* A request does its look-ups before it inserts.                           *)
LEMMA LookedUpStep ==
    ASSUME TypeInv, OwnerInv, [Next]_vars, NEW r \in Requests
    PROVE  LookedUp(r)'
<1>t. /\ pc \in [Requests -> {"idle"} \cup Running \cup Answered]
      /\ pc[r] # "idle" => payload[r] \in Payloads
  BY DEF TypeInv, TypeOK
<1>o. LookedUp(r)
  BY DEF OwnerInv
<1>g. sessions \subseteq sessions' /\ rows \subseteq rows'
  BY Growth
<1>h. Hangs(payload[r]) /\ payload'[r] = payload[r] => Hangs(payload[r])'
  BY <1>g DEF Hangs, RowIn
<1> USE DEF Goto
<1>1. CASE Rests(r)
  BY <1>1, <1>o, <1>g, <1>h DEF Rests, LookedUp
<1>2. ASSUME NEW p \in Payloads, Receive(r, p) PROVE LookedUp(r)'
  BY <1>2, <1>t DEF Receive, LookedUp
<1>3. CASE GetSession(r)
  <2>1. payload[r].table \in Tables /\ payload'[r] = payload[r]
    BY <1>3, <1>t DEF GetSession, Payload
  <2>2. \/ pc'[r] = "not_found"
        \/ /\ payload[r].session \in sessions
           /\ \/ payload[r].table = "message" /\ pc'[r] = "deduplicate"
              \/ payload[r].table = "tool_call" /\ pc'[r] = "find_message"
              \/ payload[r].table = "tool_result" /\ pc'[r] = "find_tool_call"
    BY <1>3, <1>t, <2>1 DEF GetSession, FirstCheck, Tables
  <2> QED
    BY <1>g, <2>1, <2>2 DEF LookedUp
<1>4. CASE DeduplicateMessage(r)
  BY <1>4, <1>t, <1>o, <1>g, <1>h DEF DeduplicateMessage, LookedUp, Hangs
<1>5. CASE ChooseSequence(r)
  <2>1. /\ pc'[r] \in {"insert", "bad_sequence"}
        /\ pc[r] = "sequence"
        /\ payload'[r] = payload[r]
    BY <1>5, <1>t DEF ChooseSequence
  <2> QED
    BY <2>1, <1>o, <1>h DEF LookedUp
<1>6. CASE FindMessage(r)
  BY <1>6, <1>t, <1>o, <1>g, <1>h
  DEF FindMessage, OwnerInSession, LookedUp, Hangs, RowIn
<1>7. CASE ChooseCallIndex(r)
  <2>1. /\ pc'[r] \in {"insert", "duplicate"}
        /\ pc[r] = "index"
        /\ payload'[r] = payload[r]
    BY <1>7, <1>t DEF ChooseCallIndex
  <2> QED
    BY <2>1, <1>o, <1>h DEF LookedUp
<1>8. CASE FindToolCall(r)
  BY <1>8, <1>t, <1>o, <1>g, <1>h
  DEF FindToolCall, OwnerInSession, LookedUp, Hangs, RowIn
<1>9. CASE FindResult(r)
  BY <1>9, <1>t, <1>o, <1>h DEF FindResult, LookedUp
<1>10. CASE Insert(r)
  <2>1. /\ pc'[r] \in {"failed", "conflict", "inserted"}
        /\ pc[r] = "insert"
        /\ payload'[r] = payload[r]
    BY <1>10, <1>t DEF Insert, FlushOutcome
  <2> QED
    BY <2>1, <1>o, <1>h DEF LookedUp
<1>11. CASE Commit(r) \/ Respond(r) \/ Fail(r)
  <2>1. pc'[r] \in {"stored", "created", "failed"}
    BY <1>11, <1>t DEF Commit, Respond, Fail
  <2> QED
    BY <2>1 DEF LookedUp
<1> QED
  BY <1>1, <1>2, <1>3, <1>4, <1>5, <1>6, <1>7, <1>8, <1>9, <1>10, <1>11,
     MovesOrRests DEF Moves, Handle

(* Every statement preserves OwnerInv: a committed row was looked after.    *)
LEMMA OwnerStep == StoreInv /\ OwnerInv /\ [Next]_vars => OwnerInv'
<1> SUFFICES ASSUME StoreInv, OwnerInv, [Next]_vars PROVE OwnerInv'
  OBVIOUS
<1>t. TypeInv
  BY DEF StoreInv
<1>1. ASSUME NEW r \in Requests PROVE LookedUp(r)'
  BY <1>t, LookedUpStep
<1>2. ASSUME NEW x \in rows' PROVE Hangs(x)'
  <2>1. Hangs(x)
    <3>1. CASE x \in rows
      BY <3>1 DEF OwnerInv
    <3>2. CASE x \notin rows
      <4>1. x.id \in Requests /\ Commit(x.id) /\ x = RowFor(x.id)
        BY <1>t, <3>2, Growth
      <4>2. Hangs(payload[x.id])
        BY <4>1 DEF Commit, OwnerInv, LookedUp
      <4> QED
        BY <4>1, <4>2 DEF Hangs, RowFor
    <3> QED
      BY <3>1, <3>2
  <2> QED
    BY <1>t, <2>1, HangsOn
<1> QED
  BY <1>1, <1>2 DEF OwnerInv

(* OwnerInv is an invariant.                                                *)
LEMMA OwnerInvariant == Spec => []OwnerInv
<1>1. Init => OwnerInv
  BY DEF Init, OwnerInv, LookedUp
<1> QED
  BY <1>1, StoreInvariant, OwnerStep, PTL DEF Spec

(* Whatever a path named, a stored row belongs to an existing session, and  *)
(* a call or result to a stored row of the right kind in that session.      *)
THEOREM ParentsStored == Spec => []OwnersStored
<1>1. OwnerInv => OwnersStored
  BY DEF OwnerInv, OwnersStored, Hangs, RowIn
<1> QED
  BY OwnerInvariant, <1>1, PTL
-----------------------------------------------------------------------------
(* A 409 for a unique key has its winner: only a flush that found the key   *)
(* among the committed rows answers it, and rows stay.                      *)
LEMMA WinnerStep ==
    StoreInv /\ ConflictHasWinner /\ [Next]_vars => ConflictHasWinner'
<1> SUFFICES ASSUME StoreInv, ConflictHasWinner, [Next]_vars,
                    NEW r \in Requests, pc'[r] = "conflict"
             PROVE  \E x \in rows' : x.id # r /\ KeyOf(x) = UniqueKey(r)'
  BY DEF ConflictHasWinner, KeyOf
<1>t. TypeInv /\ pc \in [Requests -> {"idle"} \cup Running \cup Answered]
  BY DEF StoreInv, TypeInv, TypeOK
<1>g. rows \subseteq rows'
  BY <1>t, Growth
<1>1. CASE pc[r] = "conflict"
  <2>1. UniqueKey(r)' = UniqueKey(r)
    BY <1>1, <1>t, Settled DEF UniqueKey
  <2> QED
    BY <1>1, <1>g, <2>1 DEF ConflictHasWinner
<1>2. CASE pc[r] # "conflict"
  <2>1. Insert(r)
    <3>1. ~Rests(r)
      BY <1>2 DEF Rests
    <3>2. CASE GetSession(r)
      <4>1. payload[r].table \in Tables
        BY <1>t, <3>2 DEF GetSession, TypeInv, TypeOK, Payload
      <4> QED
        BY <1>t, <3>2, <4>1 DEF GetSession, FirstCheck, Tables, Goto
    <3> QED
      BY <1>t, <3>1, <3>2, MovesOrRests
      DEF Moves, Handle, Goto, Receive, DeduplicateMessage, ChooseSequence,
          FindMessage, ChooseCallIndex, FindToolCall, FindResult, Commit,
          Respond, Fail
  <2>2. /\ pc[r] = "insert"
        /\ KeyTaken(r)
        /\ UniqueKey(r)' = UniqueKey(r)
    BY <1>t, <2>1 DEF Insert, FlushOutcome, Goto, UniqueKey
  <2>3. \A x \in rows : x.id # r
    BY <2>2 DEF StoreInv, RowOrigin, Holding
  <2> QED
    BY <1>g, <2>2, <2>3 DEF KeyTaken
<1> QED
  BY <1>1, <1>2

(* A request told "conflict" lost to another one whose row is stored.       *)
THEOREM ConflictsWon == Spec => []ConflictHasWinner
<1>1. Init => ConflictHasWinner
  BY DEF Init, ConflictHasWinner
<1> QED
  BY <1>1, StoreInvariant, WinnerStep, PTL DEF Spec

-----------------------------------------------------------------------------
(* Server-assigned numbers.  The row below a number the server has chosen   *)
(* is stored from the statement that chose it on; no rollback takes it away.*)
BelowStored(table, owner, n) ==
    n > FirstPosition(table) =>
        \E y \in rows : KeyOf(y) = <<table, owner, n - 1>>

Numbered(r) ==
    /\ pc[r] \in {"insert", "inserted"}
    /\ payload[r].table # "tool_result"
    /\ payload[r].position = None
    => BelowStored(payload[r].table, payload[r].owner, position[r])

NumberInv == (\A r \in Requests : Numbered(r)) /\ AutoNumbersLeaveNoGap

(* A request that rests, or flushes, keeps the number it has chosen.        *)
LEMMA NumberedStep ==
    ASSUME StoreInv, OwnerInv, NumberInv, [Next]_vars, NEW r \in Requests
    PROVE  Numbered(r)'
<1>t. /\ TypeInv
      /\ pc \in [Requests -> {"idle"} \cup Running \cup Answered]
      /\ position \in [Requests -> Nat]
      /\ rows \subseteq Row
  BY DEF StoreInv, TypeInv, TypeOK
<1>g. rows \subseteq rows'
  BY <1>t, Growth
<1> SUFFICES ASSUME pc'[r] \in {"insert", "inserted"},
                    payload'[r].table # "tool_result",
                    payload'[r].position = None,
                    position'[r] > FirstPosition(payload'[r].table)
             PROVE  \E y \in rows' :
                      KeyOf(y) = <<payload'[r].table, payload'[r].owner,
                                   position'[r] - 1>>
  BY DEF Numbered, BelowStored, FirstPosition, KeyOf
<1>1. CASE pc[r] \in {"insert", "inserted"}
  <2>1. payload'[r] = payload[r] /\ position'[r] = position[r]
    BY <1>1, <1>t, Settled
  <2> QED
    BY <1>1, <1>g, <2>1 DEF NumberInv, Numbered, BelowStored, FirstPosition
<1>2. CASE pc[r] \notin {"insert", "inserted"}
  <2>1. ChooseSequence(r) \/ ChooseCallIndex(r) \/ FindResult(r)
    <3>1. ~Rests(r)
      BY <1>2 DEF Rests
    <3>2. CASE GetSession(r)
      <4>1. payload[r].table \in Tables
        BY <1>t, <3>2 DEF GetSession, TypeInv, TypeOK, Payload
      <4> QED
        BY <1>t, <3>2, <4>1 DEF GetSession, FirstCheck, Tables, Goto
    <3> QED
      BY <1>2, <1>t, <3>1, <3>2, MovesOrRests
      DEF Moves, Handle, Goto, Receive, DeduplicateMessage, FindMessage,
          FindToolCall, Insert, Commit, Respond, Fail
  <2>2. CASE ChooseSequence(r)
    <3>1. payload' = payload /\ payload[r].table = "message"
      BY <2>2 DEF ChooseSequence, OwnerInv, LookedUp
    <3>2. PositionsOf("message", payload[r].session) \subseteq Nat
      BY <1>t DEF PositionsOf, RowsOf, Row
    <3>3. position'[r] - 1 \in {0} \cup PositionsOf("message", payload[r].session)
      BY <1>t, <2>2, <3>1, <3>2 DEF ChooseSequence, IsHighest
    <3>4. position'[r] - 1 \in PositionsOf("message", payload[r].session)
      BY <1>t, <3>1, <3>2, <3>3, TypeStep
      DEF FirstPosition, StoreInv, TypeInv, TypeOK
    <3>5. payload[r].owner = payload[r].session
      BY <2>2 DEF ChooseSequence, OwnerInv, LookedUp, Hangs
    <3> QED
      BY <1>g, <3>1, <3>4, <3>5 DEF PositionsOf, RowsOf, KeyOf
  <2>3. CASE ChooseCallIndex(r)
    <3>1. payload' = payload /\ payload[r].table = "tool_call"
      BY <2>3 DEF ChooseCallIndex, OwnerInv, LookedUp
    <3>2. PositionsOf("tool_call", payload[r].owner) \subseteq Nat
      BY <1>t DEF PositionsOf, RowsOf, Row
    <3>3. position'[r] - 1 \in {-1} \cup PositionsOf("tool_call", payload[r].owner)
      BY <1>t, <2>3, <3>1, <3>2 DEF ChooseCallIndex, IsHighest
    <3>4. position'[r] - 1 \in PositionsOf("tool_call", payload[r].owner)
      BY <3>1, <3>2, <3>3 DEF FirstPosition
    <3> QED
      BY <1>g, <3>1, <3>4 DEF PositionsOf, RowsOf, KeyOf
  <2>4. CASE FindResult(r)
    BY <2>4 DEF FindResult, OwnerInv, LookedUp
  <2> QED
    BY <2>1, <2>2, <2>3, <2>4
<1> QED
  BY <1>1, <1>2

(* Every statement preserves NumberInv.                                     *)
LEMMA NumberStep ==
    StoreInv /\ OwnerInv /\ NumberInv /\ [Next]_vars => NumberInv'
<1> SUFFICES ASSUME StoreInv, OwnerInv, NumberInv, [Next]_vars PROVE NumberInv'
  OBVIOUS
<1>t. TypeInv
  BY DEF StoreInv
<1>g. rows \subseteq rows'
  BY <1>t, Growth
<1>1. ASSUME NEW r \in Requests PROVE Numbered(r)'
  BY NumberedStep
<1>2. ASSUME NEW x \in rows', x.table # "tool_result",
             payload'[x.id].position = None,
             x.position > FirstPosition(x.table)
      PROVE  \E y \in rows : KeyOf(y) = <<x.table, x.owner, x.position - 1>>
  <2>1. CASE x \in rows
    <3>1. x.id \in Requests /\ pc[x.id] # "idle"
      BY <2>1 DEF StoreInv, RowOrigin, Holding, TypeInv, TypeOK, Row
    <3>2. payload'[x.id] = payload[x.id]
      BY <1>t, <3>1, Settled
    <3> QED
      BY <1>2, <2>1, <3>2 DEF NumberInv, AutoNumbersLeaveNoGap
  <2>2. CASE x \notin rows
    <3>1. x.id \in Requests /\ Commit(x.id) /\ x = RowFor(x.id)
      BY <1>t, <2>2, Growth
    <3>2. /\ pc[x.id] = "inserted"
          /\ payload' = payload
          /\ x.table = payload[x.id].table
          /\ x.owner = payload[x.id].owner
          /\ x.position = position[x.id]
      BY <3>1 DEF Commit, RowFor
    <3> QED
      BY <1>2, <3>1, <3>2 DEF NumberInv, Numbered, BelowStored
  <2> QED
    BY <2>1, <2>2
<1>3. AutoNumbersLeaveNoGap'
  BY <1>2, <1>g DEF AutoNumbersLeaveNoGap, FirstPosition, KeyOf
<1> QED
  BY <1>1, <1>3 DEF NumberInv

(* However requests race and roll back, below every number the server has   *)
(* assigned the next lower one is stored.                                   *)
THEOREM NumbersLeaveNoGap == Spec => []AutoNumbersLeaveNoGap
<1>1. Init => NumberInv
  BY DEF Init, NumberInv, Numbered, AutoNumbersLeaveNoGap
<1>2. NumberInv => AutoNumbersLeaveNoGap
  BY DEF NumberInv
<1> QED
  BY <1>1, <1>2, StoreInvariant, OwnerInvariant, NumberStep, PTL DEF Spec
-----------------------------------------------------------------------------
(* Replays.  A message request that has passed the duplicate look-up found  *)
(* no delivery of its event that was answered before it arrived, and none   *)
(* can be committed after: those answers had been given.                    *)
SameEvent(x, y) ==
    /\ x.table = "message" /\ y.table = "message"
    /\ x.session = y.session
    /\ x.provider = y.provider /\ x.provider # None

Fresh(r) ==
    pc[r] \in {"sequence", "insert", "inserted"} =>
        \A y \in rows : SameEvent(payload[r], y) => y.id \notin acknowledged[r]

Acknowledged ==
    \A r \in Requests :
        /\ pc[r] # "idle"
        => \A q \in acknowledged[r] : q \in Requests /\ pc[q] = "created"

ReplayInv ==
    /\ \A r \in Requests : Fresh(r)
    /\ Acknowledged
    /\ ReplayAfterAnswerRefused

(* Every statement preserves ReplayInv.                                     *)
LEMMA ReplayStep ==
    StoreInv /\ OwnerInv /\ ReplayInv /\ [Next]_vars => ReplayInv'
<1> SUFFICES ASSUME StoreInv, OwnerInv, ReplayInv, [Next]_vars PROVE ReplayInv'
  OBVIOUS
<1>t. /\ TypeInv
      /\ pc \in [Requests -> {"idle"} \cup Running \cup Answered]
      /\ acknowledged \in [Requests -> SUBSET Requests]
      /\ rows \subseteq Row
  BY DEF StoreInv, TypeInv, TypeOK
<1>new. ASSUME NEW y \in rows' \ rows, NEW r \in Requests, pc[r] # "idle"
        PROVE  y.id \notin acknowledged[r]
  BY <1>t, <1>new, Growth DEF Commit, ReplayInv, Acknowledged
<1>1. ASSUME NEW r \in Requests, NEW q \in acknowledged'[r], pc'[r] # "idle"
      PROVE  q \in Requests /\ pc'[q] = "created"
  <2>1. CASE pc[r] # "idle"
    <3>1. q \in Requests /\ pc[q] = "created"
      BY <1>t, <1>1, <2>1, Settled DEF ReplayInv, Acknowledged
    <3>2. Rests(q)
      <4>1. CASE GetSession(q)
        BY <3>1, <4>1 DEF GetSession
      <4> QED
        BY <1>t, <3>1, <4>1, MovesOrRests
        DEF Moves, Handle, Running, Receive, DeduplicateMessage, ChooseSequence,
            FindMessage, ChooseCallIndex, FindToolCall, FindResult, Insert,
            Commit, Respond, Fail
    <3> QED
      BY <3>1, <3>2 DEF Rests
  <2>2. CASE pc[r] = "idle"
    <3>1. PICK p \in Payloads : Receive(r, p)
      <4>1. ~Rests(r)
        BY <1>1, <2>2 DEF Rests
      <4> QED
        BY <1>t, <2>2, <4>1, MovesOrRests
        DEF Moves, Handle, Running, GetSession, DeduplicateMessage,
            ChooseSequence, FindMessage, ChooseCallIndex, FindToolCall,
            FindResult, Insert, Commit, Respond, Fail
    <3>2. q \in Requests /\ pc[q] = "created"
      BY <1>t, <1>1, <3>1 DEF Receive
    <3> QED
      BY <1>t, <2>2, <3>1, <3>2 DEF Receive, Goto
  <2> QED
    BY <2>1, <2>2
<1>2. ASSUME NEW r \in Requests PROVE Fresh(r)'
  <2> SUFFICES ASSUME pc'[r] \in {"sequence", "insert", "inserted"},
                      NEW y \in rows', SameEvent(payload'[r], y)
               PROVE  y.id \notin acknowledged'[r]
    BY DEF Fresh, SameEvent
  <2>1. CASE pc[r] \in {"sequence", "insert", "inserted"}
    <3>1. payload'[r] = payload[r] /\ acknowledged'[r] = acknowledged[r]
      BY <1>t, <2>1, Settled
    <3>2. CASE y \in rows
      BY <2>1, <3>1, <3>2 DEF ReplayInv, Fresh
    <3>3. CASE y \notin rows
      BY <1>new, <2>1, <3>1, <3>3
    <3> QED
      BY <3>2, <3>3
  <2>2. CASE pc[r] \notin {"sequence", "insert", "inserted"}
    <3>1. DeduplicateMessage(r) \/ ChooseCallIndex(r) \/ FindResult(r)
      <4>1. ~Rests(r)
        BY <2>2 DEF Rests
      <4>2. CASE GetSession(r)
        <5>1. payload[r].table \in Tables
          BY <1>t, <4>2 DEF GetSession, TypeInv, TypeOK, Payload
        <5> QED
          BY <1>t, <4>2, <5>1 DEF GetSession, FirstCheck, Tables, Goto
      <4> QED
        BY <2>2, <1>t, <4>1, <4>2, MovesOrRests
        DEF Moves, Handle, Goto, Receive, ChooseSequence, FindMessage,
            FindToolCall, Insert, Commit, Respond, Fail
    <3>2. CASE DeduplicateMessage(r)
      <4>1. ~ProviderIdKnown(r) /\ payload' = payload /\ rows' = rows
        BY <1>t, <2>2, <3>2 DEF DeduplicateMessage, Goto
      <4>2. y.owner = y.session
        BY <4>1 DEF SameEvent, OwnerInv, Hangs
      <4> QED
        BY <4>1, <4>2 DEF ProviderIdKnown, RowsOf, SameEvent
    <3>3. CASE ChooseCallIndex(r) \/ FindResult(r)
      <4>1. payload' = payload /\ payload[r].table # "message"
        BY <3>3 DEF ChooseCallIndex, FindResult, OwnerInv, LookedUp
      <4> QED
        BY <4>1 DEF SameEvent
    <3> QED
      BY <3>1, <3>2, <3>3
  <2> QED
    BY <2>1, <2>2
<1>3. ASSUME NEW x \in rows', NEW y \in rows', SameEvent(x, y)
      PROVE  y.id \notin acknowledged'[x.id]
  <2>1. CASE x \in rows
    <3>1. /\ x.id \in Requests
          /\ pc[x.id] # "idle"
          /\ acknowledged'[x.id] = acknowledged[x.id]
      <4>1. x.id \in Requests /\ pc[x.id] # "idle"
        BY <1>t, <2>1 DEF StoreInv, RowOrigin, Holding, Row
      <4> QED
        BY <1>t, <4>1, Settled
    <3>2. CASE y \in rows
      BY <1>3, <2>1, <3>1, <3>2
      DEF ReplayInv, ReplayAfterAnswerRefused, SameEvent
    <3> QED
      BY <1>new, <3>1, <3>2
  <2>2. CASE x \notin rows
    <3>1. /\ x.id \in Requests
          /\ pc[x.id] = "inserted"
          /\ x = RowFor(x.id)
          /\ acknowledged'[x.id] = acknowledged[x.id]
      BY <1>t, <2>2, Growth DEF Commit
    <3>2. SameEvent(payload[x.id], y)
      BY <1>3, <3>1 DEF SameEvent, RowFor
    <3>3. CASE y \in rows
      BY <3>1, <3>2, <3>3 DEF ReplayInv, Fresh
    <3> QED
      BY <1>new, <3>1, <3>3
  <2> QED
    BY <2>1, <2>2
<1>4. ReplayAfterAnswerRefused'
  BY <1>3 DEF ReplayAfterAnswerRefused, SameEvent
<1> QED
  BY <1>1, <1>2, <1>4 DEF ReplayInv, Acknowledged

(* A replay sent after the first delivery was answered is never stored, for *)
(* all that the index behind the look-up is not unique.                     *)
THEOREM ReplaysRefused == Spec => []ReplayAfterAnswerRefused
<1>1. Init => ReplayInv
  BY DEF Init, ReplayInv, Fresh, Acknowledged, ReplayAfterAnswerRefused
<1>2. ReplayInv => ReplayAfterAnswerRefused
  BY DEF ReplayInv
<1> QED
  BY <1>1, <1>2, StoreInvariant, OwnerInvariant, ReplayStep, PTL DEF Spec

-----------------------------------------------------------------------------
(* The refinement.  Commit is the one step at which an event is appended;   *)
(* what answers a request tells it; all other statements stutter.           *)
LEMMA StoreStepMaps ==
    ASSUME StoreInv, OwnerInv, [Next]_vars
    PROVE  [Store!Next]_Store!storeVars
<1>t. /\ TypeInv
      /\ pc \in [Requests -> {"idle"} \cup Running \cup Answered]
      /\ rows \subseteq Row
  BY DEF StoreInv, TypeInv, TypeOK
<1> USE DEF Goto, told, Running, Refused
<1>1. ASSUME NEW s \in Sessions, CreateSession(s)
      PROVE  Store!Open(s)
  BY <1>1 DEF CreateSession, Store!Open
<1>2. CASE UNCHANGED vars
  BY <1>2 DEF vars, Store!storeVars
<1>3. ASSUME NEW r \in Requests, Commit(r)
      PROVE  RowFor(r) \in Row /\ Store!Append(RowFor(r))
  <2>1. pc[r] = "inserted" /\ Hangs(payload[r])
    BY <1>3 DEF Commit, OwnerInv, LookedUp
  <2>2. RowFor(r) \in Row
    BY <1>t, <2>1 DEF RowFor, Row, Payload, TypeInv, TypeOK, Bounded
  <2>3. Store!MayHang(RowFor(r))
    BY <2>1, <2>2 DEF Store!MayHang, Hangs, RowIn, RowFor, Row, Tables
  <2>4. told' = told /\ told[r] = "none"
    BY <1>t, <1>3 DEF Commit
  <2>5. \A y \in rows :
          /\ y.id # r
          /\ <<y.table, y.owner, y.position>> # UniqueKey(r)
    BY <2>1 DEF StoreInv, RowOrigin, Holding, KeysHeld, KeyOf
  <2> QED
    BY <1>3, <2>2, <2>3, <2>4, <2>5
    DEF Commit, Store!Append, RowFor, UniqueKey
<1>4. ASSUME NEW r \in Requests, Respond(r)
      PROVE  Store!Tell(r, "created")
  <2>1. RowFor(r) \in rows /\ RowFor(r).id = r
    BY <1>4 DEF Respond, StoreInv, HoldingHasRow, Holding, RowFor
  <2> QED
    BY <1>t, <1>4, <2>1 DEF Respond, Store!Tell, Store!HasRow
<1>5. ASSUME NEW r \in Requests, Fail(r)
      PROVE  Store!Tell(r, "failed")
  BY <1>t, <1>5 DEF Fail, Store!Tell
<1>6. ASSUME NEW r \in Requests, NEW p \in Payloads, Receive(r, p)
      PROVE  UNCHANGED Store!storeVars
  BY <1>t, <1>6 DEF Receive, Store!storeVars
<1>7. ASSUME NEW r \in Requests, NEW label,
             label \in Running \cup Refused \cup {"failed"},
             pc[r] \in Running \ {"stored"},
             pc' = [pc EXCEPT ![r] = label],
             rows' = rows, sessions' = sessions
      PROVE  [Store!Next]_Store!storeVars
  <2>1. CASE label \in Running
    <3>1. told' = told
      BY <1>t, <1>7, <2>1
    <3> QED
      BY <1>7, <3>1 DEF Store!storeVars
  <2>2. CASE label \in Refused
    <3>1. ~Store!HasRow(r)
      BY <1>7 DEF StoreInv, RowOrigin, Holding, Store!HasRow
    <3>2. Store!Tell(r, "refused")
      BY <1>t, <1>7, <2>2, <3>1 DEF Store!Tell
    <3> QED
      BY <3>2 DEF Store!Next
  <2>3. CASE label = "failed"
    <3>1. Store!Tell(r, "failed")
      BY <1>t, <1>7, <2>3 DEF Store!Tell
    <3> QED
      BY <3>1 DEF Store!Next
  <2> QED
    BY <1>7, <2>1, <2>2, <2>3
<1>8. ASSUME NEW r \in Requests, Handle(r), ~Commit(r), ~Respond(r)
      PROVE  [Store!Next]_Store!storeVars
  <2>1. PICK label \in Running \cup Refused \cup {"failed"} :
          /\ pc[r] \in Running \ {"stored"}
          /\ pc' = [pc EXCEPT ![r] = label]
    <3>1. CASE GetSession(r)
      <4>1. payload[r].table \in Tables
        BY <1>t, <3>1 DEF GetSession, TypeInv, TypeOK, Payload
      <4> QED
        BY <3>1, <4>1 DEF GetSession, FirstCheck, Tables
    <3>2. CASE ChooseSequence(r)
      BY <3>2 DEF ChooseSequence
    <3>3. CASE ChooseCallIndex(r)
      BY <3>3 DEF ChooseCallIndex
    <3>4. CASE Insert(r)
      BY <3>4 DEF Insert, FlushOutcome
    <3> QED
      BY <1>8, <3>1, <3>2, <3>3, <3>4
      DEF Handle, DeduplicateMessage, FindMessage, FindToolCall, FindResult
  <2>2. rows' = rows /\ sessions' = sessions
    BY <1>8 DEF Handle, GetSession, DeduplicateMessage, ChooseSequence,
       FindMessage, ChooseCallIndex, FindToolCall, FindResult, Insert
  <2> QED
    BY <1>7, <2>1, <2>2
<1> QED
  BY <1>1, <1>2, <1>3, <1>4, <1>5, <1>6, <1>8 DEF Next, Store!Next

(* The handlers implement the abstract store: every request takes effect at *)
(* one instant or never, and its one answer says which.                     *)
THEOREM StoreImplemented == Spec => ImplementsEventStore
<1>1. Init => Store!Init
  BY DEF Init, Store!Init, told, Refused
<1> QED
  BY <1>1, StoreInvariant, OwnerInvariant, StoreStepMaps, PTL
  DEF Spec, ImplementsEventStore, Store!Spec
=============================================================================
