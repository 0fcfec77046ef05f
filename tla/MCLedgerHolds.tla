---------------------------- MODULE MCLedgerHolds ----------------------------
(***************************************************************************)
(* Two instances of LedgerHolds.                                           *)
(*   Calls: one user, who is also the developer, with two attempts at one  *)
(*   metered call, caps that come, go and change their period, expiry and  *)
(*   the rollup.                                                           *)
(*   Purchases: two users, a purchase that is refunded, disputed and       *)
(*   restored while Django and the gateway hold credits, and the rollout.  *)
(***************************************************************************)
EXTENDS LedgerHolds, TLC

CONSTANTS u1, u2, h1, h2, p1

\* Attempts of the first user, all at the same call.
OwnerIsU1 == [h \in Hold |-> u1]
SameCall  == [h \in Hold |-> "call"]
BuyerIsU1 == [p \in Purchase |-> u1]
PriceTwo  == [p \in Purchase |-> 2]

\* The call costs 2, half of it the provider's and half the developer's.
OneTerm == {[priced |-> 2, provider |-> 1, dev |-> 1]}

AnyLimit == {NoLimit, 1, 2}
Uncapped == {NoLimit}

\* The two attempts of instance Calls differ in nothing.
SameAttempts == Permutations({h1, h2})
=============================================================================
