----------------------------- MODULE LedgerHolds -----------------------------
(***************************************************************************)
(* Reservations for metered AI calls (ledger migrations 0003, policy epoch *)
(* 0): hold, extend, settle, release, expiry, the per-application spend    *)
(* caps with their windows, the grant projection that moves them (oidc),   *)
(* and the two-phase rollup of what settlements split.                     *)
(*                                                                         *)
(* A hold is identified with its idempotency key, so it is opened at most  *)
(* once; a retry of a call is another hold with the same logical key.      *)
(* There is one gateway application, and the fixed first-party one, which  *)
(* has neither cap nor markup.                                             *)
(***************************************************************************)
EXTENDS Ledger, Functions

CONSTANTS
  Hold,        \* reservations
  Owner,       \* Hold -> User
  Call,        \* Hold -> logical_key
  FirstParty,  \* the holds of Django's own application
  Developer,   \* the gateway application's developer_creator
  Terms,       \* what a provider's cost comes to: [priced, provider, dev]
  Limit,       \* spend caps a user may consent to; NoLimit among them
  Totals,      \* whether a cap may be for a total (TRUE), a calendar period (FALSE)
  NoLimit,     \* cap_m2z IS NULL
  MaxReserve,  \* bound: amounts a hold may ask for
  MaxNow,      \* bound: calendar windows
  MaxRevision  \* bound: changes of the cap's frame

NoWindow    == -1   \* window_start IS NULL
TotalWindow == 0    \* the one window of a total cap
Window      == TotalWindow .. MaxNow

ASSUME HoldsAssumption ==
  /\ Owner \in [Hold -> User]
  /\ FirstParty \subseteq Hold
  /\ Developer \in User
  /\ Terms \subseteq [priced : Nat, provider : Nat, dev : Nat]
  /\ Limit \subseteq Nat \cup {NoLimit}
  /\ NoLimit \notin Nat
  /\ Totals \subseteq BOOLEAN
  /\ MaxReserve \in Nat
  /\ MaxNow \in Nat \ {0}
  /\ MaxRevision \in Nat

VARIABLES
  holds,      \* per hold: its ledger_hold row while open, its ledger_ai_usage row after
  cap,        \* ledger_spend_cap of each user
  windows,    \* ledger_spend_window: [spent, held] per user and window
  now,        \* the current calendar window
  queue,      \* ledger_ai_split_queue
  pending,    \* ledger_dev_markup_pending of the developer
  clearing    \* the journal balance of sys:ai_clearing

capVars    == <<cap, now>>
rollupVars == <<queue, pending, clearing>>
hvars      == <<lvars, holds, capVars, windows, rollupVars>>

Finished == {"settled", "released", "expired"}
HoldRow  == [state : {"unused", "open"} \cup Finished, amount : Nat,
             late : BOOLEAN,            \* expires_at < now()
             window : {NoWindow} \cup Window, revision : Nat,
             charged : Int,
             superseded : BOOLEAN,      \* released for a settled sibling
             costed : BOOLEAN,          \* late_settle_attempted
             splits : Nat]              \* split rows ever queued for it
Cap      == [consent : {"none", "live", "revoked"}, limit : Limit \cup {NoLimit},
             total : BOOLEAN, revision : Nat]
Split    == [hold : Hold, provider : Nat, dev : Nat, platform : Int]

HoldsTypeOK ==
  /\ LedgerTypeOK
  /\ holds \in [Hold -> HoldRow]
  /\ cap \in [User -> Cap]
  /\ windows \in [User -> [Window -> [spent : Int, held : Int]]]
  /\ now \in Window
  /\ queue \subseteq Split
  /\ pending \in Nat
  /\ clearing \in Int

HoldsInit ==
  /\ LedgerInit
  /\ holds = [h \in Hold |->
       [state |-> "unused", amount |-> 0, late |-> FALSE, window |-> NoWindow,
        revision |-> 0, charged |-> 0, superseded |-> FALSE, costed |-> FALSE,
        splits |-> 0]]
  /\ cap = [u \in User |-> [consent |-> "none", limit |-> NoLimit,
                            total |-> TRUE, revision |-> 0]]
  /\ windows = [u \in User |-> [w \in Window |-> [spent |-> 0, held |-> 0]]]
  /\ now = 1
  /\ queue = {}
  /\ pending = 0
  /\ clearing = 0

-----------------------------------------------------------------------------
Open(h)       == holds[h].state = "open"
OpenOf(u)     == {h \in Hold : Owner[h] = u /\ Open(h)}
ExpiredOf(u)  == {h \in OpenOf(u) : holds[h].late}
AmountOf(S)   == SumFunctionOnSet([h \in Hold |-> holds[h].amount], S)
CapOf(h)      == IF h \in FirstParty
                 THEN [consent |-> "live", limit |-> NoLimit, total |-> TRUE, revision |-> 0]
                 ELSE cap[Owner[h]]
Capped(c)     == c.limit # NoLimit
WindowNow(c)  == IF c.total THEN TotalWindow ELSE now

\* A sibling of the same application, account and call was settled.
SettledSibling(h) ==
  \E g \in Hold : /\ Owner[g] = Owner[h] /\ Call[g] = Call[h]
                  /\ (g \in FirstParty) = (h \in FirstParty)
                  /\ holds[g].state = "settled"

Reserve(ws, u, w, n) ==
  IF w = NoWindow THEN ws ELSE [ws EXCEPT ![u][w].held = @ + n]
Consume(ws, u, w, n) ==
  IF w = NoWindow THEN ws ELSE [ws EXCEPT ![u][w].spent = @ + n]

\* Mutant: the old window keeps a reservation that moves to another one.
RebookLeavesOld(u, r, w, n) ==
  Reserve(windows, u, w, IF w = r.window THEN n - r.amount ELSE n)

\* Hold r of u is counted in window w from now on, with amount n.
Rebook(u, r, w, n) == Reserve(Reserve(windows, u, r.window, -r.amount), u, w, n)

\* The window that a capped change of hold h counts against.
WindowFor(h, c) ==
  IF ~Capped(c) THEN holds[h].window
  ELSE IF holds[h].window # NoWindow /\ holds[h].revision = c.revision
       THEN holds[h].window
       ELSE WindowNow(c)
Room(u, w, limit) ==
  Greatest(limit - windows[u][w].spent - windows[u][w].held, 0)

-----------------------------------------------------------------------------
(***************************************************************************)
(* finish_hold: the one way a hold ends.  The freed credits meet the debt, *)
(* less the charge; the usage row records the outcome and the split.       *)
(***************************************************************************)
\* Mutant: the freed credits do not meet the debt.
FreedWithoutRepay(a, n, charge) ==
  Debited([Healed(a) EXCEPT !.held = @ - n], charge)

Freed(a, n, charge) ==
  LET b     == [Healed(a) EXCEPT !.held = @ - n]
      repay == Greatest(Least(b.debt, Available(b) - charge), 0)
  IN  [Debited(b, repay + charge) EXCEPT !.debt = @ - repay]

SplitRow(h, provider, dev, platform) ==
  IF provider = 0 /\ dev = 0 /\ platform = 0 THEN {}
  ELSE {[hold |-> h, provider |-> provider, dev |-> dev, platform |-> platform]}

Finish(h, outcome, charge, provider, dev, w, superseded, costed) ==
  LET u   == Owner[h]
      r   == holds[h]
      row == SplitRow(h, provider, dev, charge - provider - dev)
  IN  /\ acct' = [acct EXCEPT ![u] = Freed(@, r.amount, charge)]
      /\ windows' = Consume(Reserve(windows, u, r.window, -r.amount), u, w, charge)
      /\ holds' = [holds EXCEPT ![h].state = outcome, ![h].charged = charge,
                                ![h].window = w, ![h].superseded = superseded,
                                ![h].costed = costed,
                                ![h].splits = @ + Cardinality(row)]
      /\ queue' = queue \cup row
      /\ clearing' = clearing + charge
      /\ UNCHANGED <<boundary, purchaseVars, capVars, pending>>

Expire(h) ==
  Finish(h, "expired", 0, 0, 0, holds[h].window, FALSE, FALSE)

-----------------------------------------------------------------------------
(***************************************************************************)
(* hold_internal: lock and heal, finish the account's expired holds, then  *)
(* admit or refuse.  What was done before a refusal stays done, except for *)
(* Django's holds: reserve raises, and its transaction rolls back.         *)
(***************************************************************************)
Admits(h, n, a) ==
  /\ holds[h].state = "unused" /\ CapOf(h).consent = "live" /\ ~SettledSibling(h)
  /\ ~a.frozen /\ a.debt = 0 /\ Available(a) >= n

\* The account, the holds and the windows after the expired holds of u are
\* finished one by one: the repayments add up to one for their sum.
Swept(u) == Freed(Locked(acct[u]), AmountOf(ExpiredOf(u)), 0)
SweptHolds(u) ==
  [h \in Hold |-> IF h \in ExpiredOf(u) THEN [holds[h] EXCEPT !.state = "expired"]
                  ELSE holds[h]]
SweptWindows(u) ==
  [windows EXCEPT ![u] = [w \in Window |->
     [windows[u][w] EXCEPT !.held = @ - AmountOf({h \in ExpiredOf(u) : holds[h].window = w})]]]

HoldInternal(h, n) ==
  LET u == Owner[h]
      a == Swept(u)
      c == CapOf(h)
      w == IF Capped(c) THEN WindowNow(c) ELSE NoWindow
      fits == Capped(c) =>
        SweptWindows(u)[u][w].spent + SweptWindows(u)[u][w].held + n <= c.limit
  IN  /\ IF Admits(h, n, a) /\ fits
         THEN /\ acct' = [acct EXCEPT ![u] = [a EXCEPT !.held = @ + n]]
              /\ windows' = Reserve(SweptWindows(u), u, w, n)
              /\ holds' = [SweptHolds(u) EXCEPT ![h] =
                   [@ EXCEPT !.state = "open", !.amount = n, !.window = w,
                             !.revision = c.revision]]
         ELSE /\ h \notin FirstParty
              /\ acct' = [acct EXCEPT ![u] = a]
              /\ windows' = SweptWindows(u)
              /\ holds' = SweptHolds(u)
      /\ UNCHANGED <<boundary, purchaseVars, capVars, rollupVars>>

-----------------------------------------------------------------------------
(***************************************************************************)
(* extend_internal, for the gateway: renews the lease of a hold that has   *)
(* not expired and raises its amount to `to`.                              *)
(***************************************************************************)
ExtendHold(h, to) ==
  LET u     == Owner[h]
      a     == Healed(acct[u])
      c     == cap[u]
      r     == holds[h]
      delta == Greatest(to - r.amount, 0)
      w     == WindowFor(h, c)
      asked == IF w = r.window THEN delta ELSE r.amount + delta
      grows == /\ c.consent = "live" /\ ~a.frozen /\ a.debt = 0
               /\ delta > 0 /\ delta <= Greatest(Available(a), 0)
               /\ Capped(c) => asked <= Room(u, w, c.limit)
  IN  /\ Open(h) /\ ~r.late
      /\ IF grows
         THEN /\ acct' = [acct EXCEPT ![u] = [a EXCEPT !.held = @ + delta]]
              /\ windows' = Rebook(u, r, w, r.amount + delta)
              /\ holds' = [holds EXCEPT ![h].amount = r.amount + delta, ![h].window = w,
                   ![h].revision = IF Capped(c) THEN c.revision ELSE @]
         ELSE /\ acct' = [acct EXCEPT ![u] = a]
              /\ UNCHANGED <<windows, holds>>
      /\ UNCHANGED <<boundary, purchaseVars, capVars, rollupVars>>

Extend(h, to) ==
  /\ h \notin FirstParty
  /\ \/ ExtendHold(h, to)
     \/ Open(h) /\ holds[h].late /\ Expire(h)

-----------------------------------------------------------------------------
(***************************************************************************)
(* settle_internal.                                                        *)
(***************************************************************************)
\* The most that may be charged against the cap for hold h.
WithinCap(h, charge) ==
  LET u == Owner[h]
      c == CapOf(h)
      w == WindowFor(h, c)
      room == Room(u, w, c.limit)
  IN  IF Capped(c)
      THEN Least(charge, IF w = holds[h].window THEN holds[h].amount + room ELSE room)
      ELSE charge

\* Mutant: a cap that was lowered in the meantime undercuts the hold.
ChargeUnderCap(h, priced) ==
  LET a == Healed(acct[Owner[h]])
      r == holds[h]
  IN  Greatest(Least(Least(priced, Available(a) + r.amount), WithinCap(h, priced)), 0)

\* What can be collected: never more than is available beside the account's
\* other reservations, and the cap never undercuts the hold itself.
Charge(h, priced) ==
  LET a == Healed(acct[Owner[h]])
      r == holds[h]
  IN  Greatest(Least(Least(priced, Available(a) + r.amount),
                     Greatest(WithinCap(h, priced), Least(r.amount, priced))), 0)

\* ledger_hold_shortfall: the amount reserved cannot be collected.
Shortfall(h, priced) ==
  boundary /\ Charge(h, priced) < Least(priced, holds[h].amount)

\* Mutant: a settlement does not look for a settled sibling.
NeverSuperseded(h) == FALSE
Supersedes(h) == SettledSibling(h)

\* An expired or superseded call costs the provider's price, not the user's.
SettleTerminal(h, t) ==
  /\ Open(h)
  /\ \/ holds[h].late
        /\ Finish(h, "expired", 0, t.provider, 0, holds[h].window, FALSE, TRUE)
     \/ ~holds[h].late /\ Supersedes(h)
        /\ Finish(h, "released", 0, t.provider, 0, holds[h].window, TRUE, TRUE)

\* Mutant: the developer's share may become negative.
DevShareSigned(t, charge) == Least(t.dev, charge - t.provider)

\* The markup, out of what is left after the provider's cost.
DevShare(t, charge) == Least(t.dev, Greatest(charge - t.provider, 0))

SettleOpen(h, t) ==
  LET charge == Charge(h, t.priced)
      dev    == DevShare(t, charge)
  IN  /\ Open(h) /\ ~holds[h].late /\ ~Supersedes(h)
      /\ ~Shortfall(h, t.priced)
      /\ Finish(h, "settled", charge, t.provider, dev, WindowFor(h, CapOf(h)), FALSE, FALSE)

\* Mutant: a late settlement may be repeated.
LateAgain(h) ==
  holds[h].state = "expired" \/ (holds[h].state = "released" /\ holds[h].superseded)
\* A settlement that comes after the hold ended still records the provider's
\* cost, once.
Late(h) ==
  /\ holds[h].state = "expired" \/ (holds[h].state = "released" /\ holds[h].superseded)
  /\ ~holds[h].costed

SettleLate(h, t) ==
  LET row == SplitRow(h, t.provider, 0, -t.provider)
  IN  /\ Late(h)
      /\ holds' = [holds EXCEPT ![h].costed = TRUE, ![h].splits = @ + Cardinality(row)]
      /\ queue' = queue \cup row
      /\ UNCHANGED <<lvars, capVars, windows, pending, clearing>>

Settle(h, t) ==
  /\ h \notin FirstParty
  /\ SettleTerminal(h, t) \/ SettleOpen(h, t) \/ SettleLate(h, t)

\* settle_reservation: Django rolls back whatever is not the whole fixed charge.
SettleFixed(h, n) ==
  /\ h \in FirstParty /\ Open(h) /\ ~holds[h].late /\ ~Supersedes(h)
  /\ n <= holds[h].amount
  /\ Charge(h, n) = n
  /\ Finish(h, "settled", n, 0, 0, NoWindow, FALSE, FALSE)

\* Mutant: the hold is not read again under the account's lock.
ReleaseUnread(h) ==
  /\ holds[h].state # "unused"
  /\ Finish(h, IF holds[h].late THEN "expired" ELSE "released", 0, 0, 0,
            holds[h].window, FALSE, FALSE)

Release(h) ==
  /\ Open(h)
  /\ Finish(h, IF holds[h].late THEN "expired" ELSE "released", 0, 0, 0,
            holds[h].window, FALSE, FALSE)

\* The periodic sweep: expire_hold.
ExpireHold(h) == Open(h) /\ holds[h].late /\ Expire(h)

\* The time to live of an open hold passes.
TimePasses(h) ==
  /\ Open(h) /\ ~holds[h].late
  /\ holds' = [holds EXCEPT ![h].late = TRUE]
  /\ UNCHANGED <<lvars, capVars, windows, rollupVars>>

-----------------------------------------------------------------------------
(***************************************************************************)
(* Grants, windows and the rollup.                                         *)
(***************************************************************************)
SameFrame(c, limit, total) == c.total = total /\ Capped(c) = (limit # NoLimit)

\* sync_grant: the consent's cap, and a new frame when the period or being capped
\* changes.
SyncGrant(u, consent, limit, total) ==
  LET c == cap[u]
      next == [consent |-> consent, limit |-> limit, total |-> total,
               revision |-> IF c.consent = "none" \/ SameFrame(c, limit, total)
                            THEN c.revision ELSE c.revision + 1]
  IN  /\ next.revision <= MaxRevision
      /\ cap' = [cap EXCEPT ![u] = next]
      /\ acct' = [acct EXCEPT ![u] = Opened(@)]
      /\ UNCHANGED <<boundary, purchaseVars, holds, windows, now, rollupVars>>

NextWindow ==
  /\ now < MaxNow
  /\ now' = now + 1
  /\ UNCHANGED <<lvars, holds, cap, windows, rollupVars>>

SumOf(rows, field) == SumFunctionOnSet([r \in rows |-> r[field]], rows)

\* Mutant: a platform share below zero is not paid back into clearing.
ConsumeSplitBatchUnrefunded(rows) ==
  /\ rows # {}
  /\ queue' = queue \ rows
  /\ clearing' = clearing - SumOf(rows, "provider") - Greatest(SumOf(rows, "platform"), 0)
  /\ pending' = pending + SumOf(rows, "dev")
  /\ UNCHANGED <<lvars, holds, capVars, windows>>

\* consume_split_batch: provider and platform are paid, the markup is recorded.
ConsumeSplitBatch(rows) ==
  /\ rows # {}
  /\ queue' = queue \ rows
  /\ clearing' = clearing - SumOf(rows, "provider") - SumOf(rows, "platform")
  /\ pending' = pending + SumOf(rows, "dev")
  /\ UNCHANGED <<lvars, holds, capVars, windows>>

\* credit_developer, in a transaction of its own.
CreditDeveloper ==
  /\ pending > 0
  /\ acct' = [acct EXCEPT ![Developer] = Repaid(Locked(@), pending)]
  /\ clearing' = clearing - pending
  /\ pending' = 0
  /\ UNCHANGED <<boundary, purchaseVars, holds, capVars, windows, queue>>

HoldsNext ==
  \/ LedgerNext /\ UNCHANGED <<holds, capVars, windows, rollupVars>>
  \/ \E h \in Hold, n \in 1 .. MaxReserve : HoldInternal(h, n) \/ Extend(h, n)
  \/ \E h \in Hold, t \in Terms : Settle(h, t)
  \/ \E h \in Hold, n \in 0 .. MaxReserve : SettleFixed(h, n)
  \/ \E h \in Hold : Release(h) \/ ExpireHold(h) \/ TimePasses(h)
  \/ \E u \in User, consent \in {"live", "revoked"}, limit \in Limit, total \in Totals :
       SyncGrant(u, consent, limit, total)
  \/ NextWindow
  \/ \E rows \in SUBSET queue : ConsumeSplitBatch(rows)
  \/ CreditDeveloper

HoldsSpec == HoldsInit /\ [][HoldsNext]_hvars

-----------------------------------------------------------------------------
(***************************************************************************)
(* Properties.                                                             *)
(***************************************************************************)
\* The account's `held` counter is the sum of its open holds (R4), through every
\* way a hold grows, ends or is swept by another call.
HeldIsOpenHolds == \A u \in User : acct[u].held = AmountOf(OpenOf(u))

\* Each spend window holds exactly the open reservations and the charges that
\* were counted against it (R5), although consent changes move holds between
\* windows.
WindowsAddUp ==
  \A u \in User, w \in Window :
    LET here == {h \in Hold : Owner[h] = u /\ holds[h].window = w}
    IN  /\ windows[u][w].held = AmountOf({h \in here : Open(h)})
        /\ windows[u][w].spent =
             SumFunctionOnSet([h \in Hold |-> holds[h].charged], here)

\* What sits in the clearing account is what the rollup still has to pay (R7),
\* whatever order settlements, late settlements and both rollup phases run in;
\* and only the platform's share of it may be negative.
ClearingIsOwed ==
  /\ clearing = pending + SumOf(queue, "provider") + SumOf(queue, "dev")
                        + SumOf(queue, "platform")
  /\ \A r \in queue : r.provider >= 0 /\ r.dev >= 0

\* What a hold reserved can be collected: once the boundary protects the
\* accounts, a settlement for at most the reserved amount is charged in full,
\* whatever refunds, debts, other holds and lowered caps came in between; the
\* exception ledger_hold_shortfall never fires.
ReservedIsCollectable ==
  boundary => \A h \in Hold : Open(h) =>
                \A n \in 0 .. holds[h].amount : Charge(h, n) = n

\* A call is charged once, however many attempts hold and settle it.
OneChargePerCall ==
  \A g, h \in Hold :
    /\ g # h /\ Owner[g] = Owner[h] /\ Call[g] = Call[h]
    /\ (g \in FirstParty) = (h \in FirstParty)
    => ~(holds[g].state = "settled" /\ holds[h].state = "settled")

\* The provider's cost of an attempt is split once, even when the settlement
\* comes after the expiry and is retried.
SplitOnce == \A h \in Hold : holds[h].splits <= 1
=============================================================================
