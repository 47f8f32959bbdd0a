----------------------------- MODULE MCBrowser -----------------------------
(* Two partitions that share one leaf queue; another queue has a colon in its *)
(* name, and what is before it names the shared one. *)
EXTENDS Browser

CONSTANTS p1, p2, plain, shared, colon

MCLeaves == [p \in {p1, p2} |-> IF p = p1 THEN {plain, shared, colon} ELSE {shared}]
MCCut == [q \in {plain, shared, colon} |-> IF q = colon THEN shared ELSE q]

\* Nothing, or a selection.
MCStoredChoices == {NoPair, <<p2, shared>>}

\* A pasted link.
MCLinks == {<<p2, shared>>}
=============================================================================
