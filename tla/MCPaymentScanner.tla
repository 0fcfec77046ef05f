-------------------------- MODULE MCPaymentScanner --------------------------
(***************************************************************************)
(* Instances of PaymentScanner over a fork: g <- a1 <- a2 <- a3            *)
(* and a1 <- b2 <- b3.  The payment is mined at height 2 on one branch and *)
(* at height 3 on the other.                                               *)
(***************************************************************************)
EXTENDS PaymentScanner, TLC

CONSTANTS g, a1, a2, a3, b2, b3, p1, obs, fin

\* A table, restricted to the blocks the configuration uses.
Table(f) == [x \in Block |-> f[x]]

MCParent == Table((g :> NoBlock) @@ (a1 :> g) @@ (a2 :> a1) @@ (a3 :> a2) @@ (b2 :> a1) @@ (b3 :> b2))
MCHeight == Table((g :> 0) @@ (a1 :> 1) @@ (a2 :> 2) @@ (a3 :> 3) @@ (b2 :> 2) @@ (b3 :> 3))
MCBranch == Table((g :> {g}) @@ (a1 :> {g, a1}) @@ (a2 :> {g, a1, a2})
                    @@ (a3 :> {g, a1, a2, a3}) @@ (b2 :> {g, a1, b2})
                    @@ (b3 :> {g, a1, b2, b3}))

MinedTwice == [x \in Block |-> IF x \in {a2, b3} THEN {p1} ELSE {}]

JoinLater == {Consumer \ Observer, Consumer}
=============================================================================
