------------------------- MODULE MCPaymentDelivery -------------------------
(***************************************************************************)
(* Two competing blocks at the birthday height, a and b.                   *)
(***************************************************************************)
EXTENDS PaymentDelivery, TLC

CONSTANTS a, b, p1, p2, obs

MCParent == (a :> NoBlock) @@ (b :> NoBlock)
MCHeight == (a :> 2) @@ (b :> 2)

\* Each payment is mined on one of the branches.
TwoPayments == (a :> {p1}) @@ (b :> {p2})

OneConfig == {Consumer}
=============================================================================
