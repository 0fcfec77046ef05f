--------------------------- MODULE MCPaymentProof ---------------------------
(***************************************************************************)
(* Instance of PaymentProof over a fork g <- a1 <- a2 and g <- b1 <- b2 <- *)
(* b3, the payment mined at height 1 on one branch, 2 on the other.        *)
(***************************************************************************)
EXTENDS PaymentProof, TLC

CONSTANTS g, a1, a2, b1, b2, b3, p1, obs

MCParent == (g :> NoBlock) @@ (a1 :> g) @@ (a2 :> a1) @@ (b1 :> g)
              @@ (b2 :> b1) @@ (b3 :> b2)
MCHeight == (g :> 0) @@ (a1 :> 1) @@ (a2 :> 2) @@ (b1 :> 1)
              @@ (b2 :> 2) @@ (b3 :> 3)
MCBranch == (g :> {g}) @@ (a1 :> {g, a1}) @@ (a2 :> {g, a1, a2}) @@ (b1 :> {g, b1})
              @@ (b2 :> {g, b1, b2}) @@ (b3 :> {g, b1, b2, b3})
MinedTwice == [x \in Block |-> IF x \in {a1, b2} THEN {p1} ELSE {}]

OneConfig == {Consumer}
=============================================================================
