------------------------------- MODULE Ledger -------------------------------
(***************************************************************************)
(* The 2Z ledger (py/free2z/dj/apps/ledger, migrations 0001 and 0002): the *)
(* user accounts, their debts, the purchases with their refund cursors,    *)
(* and the rollout from the legacy balance column to the journal.          *)
(*                                                                         *)
(* Every SQL function is one transaction that locks the creator row first, *)
(* then the account, so one action is one function call; what an exception *)
(* rolls back is no action.  Amounts are integers of 1/1000 2Z, the unit   *)
(* of the functions; Creator.tuzis is given in the same unit.  A call that *)
(* an idempotency key answers as a replay changes nothing and is left out. *)
(*                                                                         *)
(* Operators on one account record compute what a function leaves in it;   *)
(* the actions put the result back.                                        *)
(***************************************************************************)
EXTENDS Integers, FiniteSets

CONSTANTS
  User,       \* creators
  Purchase,   \* receipts of the payment rails
  Buyer,      \* Purchase -> User
  Price,      \* Purchase -> credited_m2z
  MaxBalance  \* bound: no grant, transfer or legacy write goes beyond it

ASSUME LedgerAssumption ==
  /\ Buyer \in [Purchase -> User]
  /\ Price \in [Purchase -> Nat \ {0}]
  /\ MaxBalance \in Nat

VARIABLES
  acct,       \* per user: the `user` and `user_debt` accounts and Creator.tuzis
  boundary,   \* ledger_config.writer_boundary; healing is on until it is set
  credited,   \* purchases with a refund cursor
  refunded,   \* refunded_m2z of each cursor
  posted      \* the journal's net credit from the rail, per purchase

purchaseVars == <<credited, refunded, posted>>
lvars        == <<acct, boundary, purchaseVars>>

Amount  == 1 .. MaxBalance
Account == [open : BOOLEAN, balance : Int, held : Int, debt : Nat,
            tuzis : Int, frozen : BOOLEAN]

Least(x, y)     == IF x <= y THEN x ELSE y
Greatest(x, y)  == IF x >= y THEN x ELSE y
Available(a)    == a.balance - a.held

LedgerTypeOK ==
  /\ acct \in [User -> Account]
  /\ boundary \in BOOLEAN
  /\ credited \subseteq Purchase
  /\ refunded \in [Purchase -> Nat]
  /\ posted \in [Purchase -> Int]

NewAccount(t) == [open |-> FALSE, balance |-> 0, held |-> 0, debt |-> 0,
                  tuzis |-> t, frozen |-> FALSE]

LedgerInit ==
  /\ acct \in [User -> {NewAccount(t) : t \in 0 .. MaxBalance}]
  /\ boundary = FALSE
  /\ credited = {}
  /\ refunded = [p \in Purchase |-> 0]
  /\ posted = [p \in Purchase |-> 0]

-----------------------------------------------------------------------------
(***************************************************************************)
(* One account.  post_transfer moves balance and projection together; only *)
(* the opening and the heal, which follow the projection, move one alone.  *)
(***************************************************************************)
Debited(a, n)  == [a EXCEPT !.balance = @ - n, !.tuzis = @ - n]
Credited(a, n) == [a EXCEPT !.balance = @ + n, !.tuzis = @ + n]

\* heal_balance: before the boundary the balance follows legacy writes, and an
\* upward correction meets the debt first, as far as it is available.
Healed(a) ==
  LET delta == a.tuzis - a.balance
      repay == IF delta > 0
               THEN Greatest(Least(Least(a.debt, delta), a.tuzis - a.held), 0)
               ELSE 0
  IN  IF boundary THEN a
      ELSE [a EXCEPT !.balance = a.tuzis - repay, !.tuzis = @ - repay,
                     !.debt = @ - repay]

\* ensure_account: a new account opens with the legacy balance.
Opened(a) == IF a.open THEN a ELSE [a EXCEPT !.open = TRUE, !.balance = a.tuzis]

\* lock_account.
Locked(a) == Healed(Opened(a))

\* credit_with_repay: a credit repays the debt first.
Repaid(a, n) ==
  LET repay == Least(a.debt, n)
  IN  [Credited(a, n - repay) EXCEPT !.debt = @ - repay]

\* clawback: takes what is available; the rest becomes debt.
Clawed(a, n) ==
  LET take == Greatest(Least(n, Available(a)), 0)
  IN  [Debited(a, take) EXCEPT !.debt = @ + (n - take)]

\* A dispute freezes the account; nothing unfreezes it.
Frozen(a, freeze) == [a EXCEPT !.frozen = @ \/ freeze]

MaySpend(a, n) == ~a.frozen /\ a.debt = 0 /\ Available(a) >= n

-----------------------------------------------------------------------------
(***************************************************************************)
(* Spending, granting, transferring.                                       *)
(***************************************************************************)
Spend(u, n) ==
  LET a == Locked(acct[u])
  IN  /\ acct' = [acct EXCEPT ![u] = IF MaySpend(a, n) THEN Debited(a, n) ELSE a]
      /\ UNCHANGED <<boundary, purchaseVars>>

SpendUpTo(u, n) ==
  LET a      == Locked(acct[u])
      charge == Least(n, Available(a))
  IN  /\ acct' = [acct EXCEPT ![u] =
           IF a.frozen \/ a.debt > 0 \/ charge <= 0 THEN a ELSE Debited(a, charge)]
      /\ UNCHANGED <<boundary, purchaseVars>>

CreditUser(u, n) ==
  LET a == Locked(acct[u])
  IN  /\ a.balance + n <= MaxBalance
      /\ acct' = [acct EXCEPT ![u] = Repaid(a, n)]
      /\ UNCHANGED <<boundary, purchaseVars>>

TransferUsers(u, v, n, active) ==
  LET from == Locked(acct[u])
      to   == Locked(acct[v])
  IN  /\ u # v /\ to.balance + n <= MaxBalance
      /\ acct' = IF active /\ MaySpend(from, n)
                 THEN [acct EXCEPT ![u] = Debited(from, n), ![v] = Repaid(to, n)]
                 ELSE [acct EXCEPT ![u] = from, ![v] = to]
      /\ UNCHANGED <<boundary, purchaseVars>>

-----------------------------------------------------------------------------
(***************************************************************************)
(* Purchases.  A refund names a cumulative target, a dispute freezes and   *)
(* claws everything back, a dispute won restores.  Events come in any      *)
(* order and repeatedly, under different keys.                             *)
(***************************************************************************)
\* A second fulfilment of a receipt fails on the cursor's unique constraint.
CreditPurchase(p) ==
  /\ p \notin credited
  /\ credited' = credited \cup {p}
  /\ acct' = [acct EXCEPT ![Buyer[p]] = Repaid(Locked(@), Price[p])]
  /\ posted' = [posted EXCEPT ![p] = @ + Price[p]]
  /\ UNCHANGED <<boundary, refunded>>

\* Mutant: every refund event claws its whole target back.
RefundDeltaWhole(p, target) == Least(target, Price[p])

RefundDelta(p, target) == Greatest(Least(target, Price[p]) - refunded[p], 0)

RefundPurchase(p, target, freeze) ==
  /\ p \in credited
  /\ acct' = [acct EXCEPT ![Buyer[p]] =
       Frozen(Clawed(Locked(@), RefundDelta(p, target)), freeze)]
  /\ refunded' = [refunded EXCEPT ![p] = Greatest(@, Least(target, Price[p]))]
  /\ posted' = [posted EXCEPT ![p] = @ - RefundDelta(p, target)]
  /\ UNCHANGED <<boundary, credited>>

RestorePurchase(p, target) ==
  LET restore == Greatest(refunded[p] - Least(target, Price[p]), 0)
      a       == Locked(acct[Buyer[p]])
  IN  /\ p \in credited
      /\ acct' = [acct EXCEPT ![Buyer[p]] = IF restore = 0 THEN a ELSE Repaid(a, restore)]
      /\ refunded' = [refunded EXCEPT ![p] = @ - restore]
      /\ posted' = [posted EXCEPT ![p] = @ + restore]
      /\ UNCHANGED <<boundary, credited>>

-----------------------------------------------------------------------------
(***************************************************************************)
(* The rollout.                                                            *)
(***************************************************************************)
\* Code that still writes Creator.tuzis; the boundary's trigger refuses it.
LegacyWrite(u, t) ==
  /\ ~boundary
  /\ acct' = [acct EXCEPT ![u].tuzis = t]
  /\ UNCHANGED <<boundary, purchaseVars>>

\* Mutant: activation does not look at the reservations.
BoundaryReadyUncovered ==
  \A u \in User : acct[u].open /\ acct[u].balance = acct[u].tuzis

BoundaryReady ==
  \A u \in User : /\ acct[u].open
                  /\ acct[u].balance = acct[u].tuzis
                  /\ acct[u].balance >= acct[u].held

ActivateWriterBoundary ==
  /\ BoundaryReady
  /\ boundary' = TRUE
  /\ UNCHANGED <<acct, purchaseVars>>

LedgerNext ==
  \/ \E u \in User, n \in Amount :
       Spend(u, n) \/ SpendUpTo(u, n) \/ CreditUser(u, n)
  \/ \E u, v \in User, n \in Amount, active \in BOOLEAN :
       TransferUsers(u, v, n, active)
  \/ \E p \in Purchase : CreditPurchase(p)
  \/ \E p \in Purchase : \E target \in 0 .. Price[p] :
       \/ \E freeze \in BOOLEAN : RefundPurchase(p, target, freeze)
       \/ RestorePurchase(p, target)
  \/ \E u \in User, t \in 0 .. MaxBalance : LegacyWrite(u, t)
  \/ ActivateWriterBoundary

-----------------------------------------------------------------------------
(***************************************************************************)
(* Properties.                                                             *)
(***************************************************************************)
\* While a user owes anything, nothing of the balance is available: whatever a
\* grant, a release, a settlement or a heal frees has met the debt first.
DebtBlocksSpending ==
  \A u \in User : acct[u].debt > 0 => acct[u].balance <= acct[u].held

\* Once the boundary is active, its two triggers have nothing to refuse in what
\* the ledger's own functions do: the projection is exact, and every
\* reservation is covered by the balance.
BoundaryHolds ==
  boundary => \A u \in User : /\ acct[u].tuzis = acct[u].balance
                              /\ acct[u].balance >= acct[u].held

\* A purchase's refund cursor says what the journal took back, in whatever
\* order refunds, disputes and their outcomes arrived.
CursorMatchesJournal ==
  \A p \in Purchase : /\ refunded[p] \in 0 .. Price[p]
                      /\ posted[p] = IF p \in credited THEN Price[p] - refunded[p] ELSE 0
=============================================================================
