------------------------- MODULE DirectiveDetectors -------------------------
(* The detectors that hold the assistant to what it was given: omission of  *)
(* marked information, instruction drift and neglect of tool results.       *)
EXTENDS Transcript

CONSTANTS
    OMISSION_LOOKAHEAD,     \* 10 messages
    NEGLECT_LOOKAHEAD       \* 3 messages

TOPIC_OVERLAP_THRESHOLD == 150
STRONG_OVERLAP_THRESHOLD == 300
REFERENCE_OVERLAP_THRESHOLD == 150

Following(ms, i, n) == i + 1 .. Min({i + n, Len(ms)})

(***************************************************************************)
(* Omission: a marked message, a question on its topic, and the reply.     *)
(***************************************************************************)
MarkedAt(ms) ==
    {i \in AuthoredAt(ms) : ms[i].text.marked /\ ms[i].text.words # {}}

Overlap(ms, i, j) == Jaccard(ms[i].text.words, ms[j].text.words)

OnTopic(ms, i) ==
    {j \in Following(ms, i, OMISSION_LOOKAHEAD) :
        ms[j].role = "user" /\ Overlap(ms, i, j) >= TOPIC_OVERLAP_THRESHOLD}

(* A plausible bug: one entry too far.                                      *)
ReplyEntryAfter(j) == j + 2

(* The entry of next_assistant_at_or_after that is looked up.               *)
ReplyEntry(j) == j + 1

(* The list has one entry per message: there is none after the last one.    *)
OmissionRaises(ms) ==
    \E i \in MarkedAt(ms) : \E j \in OnTopic(ms, i) : ReplyEntry(j) > Len(ms)

Replies(ms, j) == {k \in AssistantAt(ms) : k >= ReplyEntry(j)}

Omitted(ms) ==
    {p \in MarkedAt(ms) \X DOMAIN ms :
        /\ p[2] \in OnTopic(ms, p[1])
        /\ Replies(ms, p[2]) # {}
        /\ ms[p[1]].text.words
             \cap ms[Min(Replies(ms, p[2]))].text.words = {}}

Omissions(ms) ==
    IF OmissionRaises(ms) THEN {}
    ELSE {Finding("omission", p,
                  {ms[p[1]].number, ms[p[2]].number, ms[Min(Replies(ms, p[2]))].number},
                  IF Overlap(ms, p[1], p[2]) >= STRONG_OVERLAP_THRESHOLD
                  THEN 700 ELSE 500) : p \in Omitted(ms)}

(***************************************************************************)
(* Instruction drift: a forbidden term in a later assistant message.       *)
(***************************************************************************)
Directives(ms) ==
    UNION {{<<i, k>> : k \in DOMAIN ms[i].text.forbids} : i \in AuthoredAt(ms)}

Violations(ms, i, term) ==
    {j \in AssistantAt(ms) :
        ms[j].number > ms[i].number /\ Mentions(ms[j].text, term)}

InstructionDrift(ms) ==
    UNION {LET i == d[1]
               term == ms[i].text.forbids[d[2]]
           IN  {Finding("instruction_drift", <<i, d[2], j>>,
                        {ms[i].number, ms[j].number},
                        Min({900, 500 + 100 * TimesSaid(ms[j].text, term)})) :
                j \in Violations(ms, i, term)} :
           d \in Directives(ms)}

(***************************************************************************)
(* Tool-result neglect: the next few messages ignore a result.             *)
(***************************************************************************)
(* A plausible bug: no window.                                              *)
EveryFollowUp(ms, i) == (i + 1 .. Len(ms)) \cap AssistantAt(ms)

FollowUps(ms, i) == Following(ms, i, NEGLECT_LOOKAHEAD) \cap AssistantAt(ms)

Neglected(ms, i, result) ==
    /\ FollowUps(ms, i) # {}
    /\ IF result.is_error
       THEN \A j \in FollowUps(ms, i) : ~ms[j].text.acknowledges
       ELSE /\ result.words # {}
            /\ \A j \in FollowUps(ms, i) :
                 Jaccard(result.words, ms[j].text.words)
                     < REFERENCE_OVERLAP_THRESHOLD

NeglectedBy(ms, i) ==
    {Finding("tool_result_misuse", <<i, c>>,
             {ms[i].number, ms[Min(FollowUps(ms, i))].number},
             IF ms[i].calls[c].is_error THEN 700 ELSE 500) :
     c \in {c \in AnsweredCalls(ms[i]) : Neglected(ms, i, ms[i].calls[c])}}

ToolResultNeglect(ms) == UNION {NeglectedBy(ms, i) : i \in DOMAIN ms}
=============================================================================
