----------------------------- MODULE MCJobOutbox -----------------------------
(***************************************************************************)
(* An instance of JobOutbox: e1 and e2 notify the same user, c is          *)
(* unordered and promises the same event as e1.                            *)
(***************************************************************************)
EXTENDS JobOutbox

CONSTANTS e1, e2, c, user, event, s1, s2

MCOrderingKey == [m \in Message |-> IF m = c THEN NoKey ELSE user]
MCDedupKey == [m \in Message |-> IF m \in {e1, c} THEN event ELSE NoKey]
=============================================================================
