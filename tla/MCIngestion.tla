----------------------------- MODULE MCIngestion -----------------------------
(* Small instances of Ingestion: what clients may send, and the values of   *)
(* the constants.                                                           *)
EXTENDS Ingestion, TLC

Message(s, n, p) ==
    [table |-> "message", session |-> s, owner |-> s, position |-> n,
     provider |-> p]
ToolCall(s, m, n) ==
    [table |-> "tool_call", session |-> s, owner |-> m, position |-> n,
     provider |-> None]
ToolResult(s, c) ==
    [table |-> "tool_result", session |-> s, owner |-> c, position |-> None,
     provider |-> None]

(* Messages with server numbers or explicit ones, keyed or not.             *)
MessagePayloads ==
    {Message(s, n, p) : s \in Sessions, n \in {None, 1, 3},
                        p \in ProviderIds \cup {None}}

(* Messages of one session; calls and results that may name a row of the    *)
(* other one, or of none, or the wrong kind of row.                         *)
ToolPayloads ==
    {Message(CHOOSE s \in Sessions : TRUE, None, None)}
    \cup {ToolCall(s, m, None) : s \in Sessions, m \in Requests \cup {None}}
    \cup {ToolResult(s, c) : s \in Sessions, c \in Requests \cup {None}}

(* Requests that want the same keys: server-assigned numbers or the same    *)
(* explicit one, keyed or not, and a call and a result on their rows.       *)
FirstRequest == CHOOSE r \in Requests : TRUE
SecondRequest == CHOOSE r \in Requests \ {FirstRequest} : TRUE
RacingMessages ==
    {Message(s, n, p) : s \in Sessions, n \in {None, 2},
                        p \in ProviderIds \cup {None}}
    \cup {ToolCall(s, FirstRequest, None) : s \in Sessions}
    \cup {ToolResult(s, SecondRequest) : s \in Sessions}

RequestSymmetry == Permutations(Requests)
=============================================================================
