----------------------------- MODULE Transcript -----------------------------
(* A session as the detectors see it: its messages by sequence number, each *)
(* with a role, a text and the tool calls made in it. A text is what the    *)
(* regular expressions and word sets of the detectors can tell of it:       *)
(*                                                                          *)
(*   statements  <<[subject, value], ...>>, in the order they are matched   *)
(*   terms       the subjects and forbidden terms it contains, each as      *)
(*               often as it occurs                                         *)
(*   words       its content words                                          *)
(*   numbers     all numbers in it, wherever they stand                     *)
(*   wordings    the values whose wording occurs in it, wherever it stands  *)
(*   forbids     the terms of its "never mention ..." directives            *)
(*   marked, hedges, acknowledges                                           *)
(*               it has an importance marker, a hedging phrase, a word that *)
(*               admits an error                                            *)
(*   size        its length in characters                                   *)
(*                                                                          *)
(* A value is [name, numbers, short]: its wording, the numbers in it and    *)
(* whether it has at most two characters. Ratios and confidences are in     *)
(* thousandths.                                                             *)
EXTENDS Integers, Sequences, FiniteSets, SequencesExt

CONSTANTS
    None,               \* no result yet
    Similarity(_, _)    \* SequenceMatcher's ratio of two values or texts

IsSequence(s) == s \in Seq(ToSet(s))

ValuesIn(text) == {s.value : s \in ToSet(text.statements)}

(* What a text states, it says.                                             *)
IsText(text) ==
    /\ IsSequence(text.statements) /\ IsSequence(text.terms)
    /\ IsSequence(text.forbids)
    /\ ValuesIn(text) \subseteq text.wordings
    /\ IsFiniteSet(text.words) /\ text.size \in Nat

Authors == {"user", "system", "developer"}

AssistantAt(ms) == {i \in DOMAIN ms : ms[i].role = "assistant"}
AuthoredAt(ms) == {i \in DOMAIN ms : ms[i].role \in Authors}

(* The tool results of a message; a call may still wait for its own.        *)
AnsweredCalls(m) == {c \in DOMAIN m.calls : m.calls[c] # None}

(***************************************************************************)
(* Statements                                                              *)
(***************************************************************************)
(* The k-th statement of message i is named <<i, k>>.                       *)
StatementsIn(ms) ==
    UNION {{i} \X DOMAIN ms[i].text.statements : i \in AssistantAt(ms)}

StatementAt(ms, p) == ms[p[1]].text.statements[p[2]]

Subjects(ms) == {StatementAt(ms, p).subject : p \in StatementsIn(ms)}

Occurrences(ms, subject) ==
    {p \in StatementsIn(ms) : StatementAt(ms, p).subject = subject}

(* The order in which statements are made.                                  *)
Before(p, q) == p[1] < q[1] \/ (p[1] = q[1] /\ p[2] < q[2])

Mentions(text, term) == \E k \in DOMAIN text.terms : text.terms[k] = term

TimesSaid(text, term) ==
    Cardinality({k \in DOMAIN text.terms : text.terms[k] = term})

(***************************************************************************)
(* Values                                                                  *)
(***************************************************************************)
Comparable(a, b) == a.numbers # << >> /\ Len(a.numbers) = Len(b.numbers)
NumbersDiffer(a, b) == Comparable(a, b) /\ a.numbers # b.numbers

(***************************************************************************)
(* Sets of words                                                           *)
(***************************************************************************)
Jaccard(a, b) ==
    IF a = {} /\ b = {} THEN 1000
    ELSE (1000 * Cardinality(a \cap b)) \div Cardinality(a \cup b)

Containment(a, reference) ==
    IF a = {} THEN 1000
    ELSE (1000 * Cardinality(a \cap reference)) \div Cardinality(a)

(* round(n / d, 3) of a quotient already scaled to thousandths.             *)
Rounded(n, d) == (2 * n + d) \div (2 * d)

(* What a detector reports: the type, what it is about, the sequence        *)
(* numbers of the messages it names, and its confidence.                    *)
Finding(type, about, cites, confidence) ==
    [type |-> type, about |-> about, cites |-> cites, confidence |-> confidence]
=============================================================================
