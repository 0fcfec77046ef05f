-------------------------- MODULE MCPaymentDaemon --------------------------
(***************************************************************************)
(* Instance of PaymentDaemon: g is below two branches, the block a1 and    *)
(* the longer one of b1, b2 and b3, and c2 competes with b2.  The payment  *)
(* is mined in a1, below the automation floor of 2, or in b2 or c2.        *)
(***************************************************************************)
EXTENDS PaymentDaemon, TLC

CONSTANTS g, a1, b1, b2, b3, c2, p1, obs

MCParent == (g :> NoBlock) @@ (a1 :> g) @@ (b1 :> g)
              @@ (b2 :> b1) @@ (b3 :> b2) @@ (c2 :> b1)
MCHeight == (g :> 0) @@ (a1 :> 1) @@ (b1 :> 1)
              @@ (b2 :> 2) @@ (b3 :> 3) @@ (c2 :> 2)
MCBranch == (g :> {g}) @@ (a1 :> {g, a1}) @@ (b1 :> {g, b1}) @@ (b2 :> {g, b1, b2})
              @@ (b3 :> {g, b1, b2, b3}) @@ (c2 :> {g, b1, c2})
MCCarries == [x \in Block |-> IF x \in {a1, b2, c2} THEN {p1} ELSE {}]

\* The operator runs the daemon with its hook, or without any.
OrNone == {Consumer, {}}
=============================================================================
