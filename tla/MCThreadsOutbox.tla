-------------------------- MODULE MCThreadsOutbox --------------------------
EXTENDS ThreadsOutbox, TLC

CONSTANTS p, q, c, d

\* messages for p that may share a page, one for q, one for p on a later page
OneForQ == [m \in Msg |-> IF m = 3 THEN q ELSE p]

\* p has two inboxes, q is in nobody's cafe
TwoAndNone == [r \in Peer |-> IF r = p THEN {c, d} ELSE {}]

OneEach == [r \in Peer |-> IF r = p THEN {c} ELSE {d}]
=============================================================================
