------------------------- MODULE MCSessionSelection -------------------------
(* Small instances of SessionSelection: two selections that may be exchanged, *)
(* a fresh session and the forks of a parent that was mid-transaction, or had *)
(* a request for the other selection pending.                                 *)
EXTENDS SessionSelection, TLC

CONSTANTS a, b

ParentPending(sel) == Entry("pending", "parent", 1, 1, sel, NoRec)
ParentCommitted(sel) == [ParentPending(sel) EXCEPT !.kind = "committed"]
ParentIntent(sel) == Entry("intent", "parent", 0, 2, sel, NoRec)

MCForkedLogs ==
    UNION {{<<>>, <<ParentPending(s)>>} : s \in {a, b}}
    \cup {<<ParentPending(s), ParentCommitted(s), ParentIntent(t)>> : <<s, t>> \in {<<a, b>>, <<b, a>>}}

MCExchange == Permutations({a, b})
=============================================================================
