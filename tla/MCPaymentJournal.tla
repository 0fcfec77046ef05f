-------------------------- MODULE MCPaymentJournal --------------------------
(***************************************************************************)
(* Instances of PaymentJournal over two competing branches from the        *)
(* birthday height on: g <- a1 and h <- b1.  Heights are 1 and 2.          *)
(***************************************************************************)
EXTENDS PaymentJournal, TLC

CONSTANTS g, h, a1, b1, p1, obs, fin

MCParent == (g :> NoBlock) @@ (h :> NoBlock) @@ (a1 :> g) @@ (b1 :> h)
MCHeight == (g :> 1) @@ (h :> 1) @@ (a1 :> 2) @@ (b1 :> 2)

\* One payment.  One branch mines it above an automation floor of 2, the other
\* below it.
OnePayment == (g :> {}) @@ (h :> {p1}) @@ (a1 :> {p1}) @@ (b1 :> {})
=============================================================================
