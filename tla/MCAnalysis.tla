----------------------------- MODULE MCAnalysis ------------------------------
(* Small instances of Analysis: the ingestion traffic beside which the      *)
(* analyses and status requests run.                                        *)
EXTENDS Analysis, TLC

Message(s, n) ==
    [table |-> "message", session |-> s, owner |-> s, position |-> n,
     provider |-> None]

(* Messages that all take the server's numbers.                             *)
AutoMessages == {Message(s, None) : s \in Sessions}

(* Messages that may come with a number of the client's.                    *)
NumberedMessages == {Message(s, n) : s \in Sessions, n \in {None, 2}}

(* A message, a call below it and the call's result.                        *)
ToolTraffic ==
    AutoMessages
    \cup {[table |-> "tool_call", session |-> s, owner |-> m,
           position |-> None, provider |-> None] :
          s \in Sessions, m \in Requests}
    \cup {[table |-> "tool_result", session |-> s, owner |-> c,
           position |-> None, provider |-> None] :
          s \in Sessions, c \in Requests}

Symmetry == Permutations(Requests) \cup Permutations(Analyses)
=============================================================================
