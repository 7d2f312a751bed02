------------------------------ MODULE MCPages -------------------------------
(* A small instance of Pages: runs with nothing found, with something found *)
(* by an incomplete run, and with nothing assessed, after no run or one.    *)
EXTENDS Pages

Found(type) == [x \in {type} |-> 1]

MixedOutcomes ==
    {[status |-> "completed", score |-> 950, found |-> Unread],
     [status |-> "partial", score |-> 800, found |-> Found("contradiction")],
     [status |-> "failed", score |-> None, found |-> Unread]}

Before(score, found) ==
    [id |-> "earlier", status |-> "completed", score |-> score, found |-> found,
     end |-> 1, created |-> -1, measured |-> 0]

NoneOrOneBefore ==
    {{}, {Before(944, Unread)}, {Before(957, Found("contradiction"))}}

Symmetry == Permutations(Analyses)
=============================================================================
