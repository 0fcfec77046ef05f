--------------------------- MODULE PaymentJournal ---------------------------
(***************************************************************************)
(* The durable journal of the Zcash payment daemon                         *)
(* (rs/zcash-payment-hooks/src/journal.rs): the SQLite tables `blocks`,    *)
(* `receipts`, `events`, `consumers`, `subscriptions` and `deliveries`,    *)
(* and every transaction that writes them.  One action is one committed    *)
(* transaction; a crash therefore falls between two actions.               *)
(*                                                                         *)
(* A table is a set of rows or a function from its primary key.  What a    *)
(* payment, a block hash or a consumer looks like is abstracted to a model *)
(* value.  The block tree, i.e. everything a node could ever serve, is a   *)
(* constant: a block fixes its height, its parent and its payments.        *)
(***************************************************************************)
EXTENDS Naturals, FiniteSets, Sequences

CONSTANTS
  Payment,    \* identities of incoming notes, stable across re-mining
  Consumer,   \* identities of configured hooks
  Observer,   \* the consumers whose policy is observe_unconfirmed
  Block,      \* every block of every branch
  NoBlock,    \* "no block"; also the predecessor of the birthday block
  Parent,     \* Block -> previous_hash
  Height,     \* Block -> height
  Carries,    \* Block -> the payments it contains
  Floor,      \* automation_start_height: no event below it
  MaxRev      \* bound: no payment is re-mined beyond this revision

ASSUME JournalAssumption ==
  /\ IsFiniteSet(Payment)
  /\ Observer \subseteq Consumer
  /\ NoBlock \notin Block
  /\ Parent \in [Block -> Block \cup {NoBlock}]
  /\ Height \in [Block -> Nat]
  /\ Carries \in [Block -> SUBSET Payment]
  /\ Floor \in Nat
  /\ MaxRev \in Nat

VARIABLES
  chain,      \* `blocks` in height order: the journal's view of the chain
  receipts,   \* `receipts`: the row of each payment; revision 0 is "no row"
  events,     \* `events`: the immutable lifecycle log
  lastSeq,    \* the AUTOINCREMENT counter of `events`
  active,     \* `consumers`: those with active = 1
  subs,       \* `subscriptions`: <<consumer, payment>> pairs
  queued,     \* `deliveries`: its primary keys <<consumer, event id>>
  acked,      \* the deliveries with acked = 1
  early       \* meta.scan_unconfirmed: scan up to the tip

tables == <<chain, receipts, events, lastSeq, subs>>
queues == <<queued, acked>>
jvars  == <<chain, receipts, events, lastSeq, active, subs, queued, acked,
            early>>

Positive == {"observed", "confirmed"}
Phase    == Positive \cup {"revoked"}
EventId  == [payment : Payment, rev : Nat, phase : Phase]
Receipt  == [rev : Nat, block : Block \cup {NoBlock},
             active : BOOLEAN, confirmed : BOOLEAN]

Id(p, r, ph) == [payment |-> p, rev |-> r, phase |-> ph]
\* An `events` row: the id and the inclusion coordinate of its body.
Body(id, b)  == [id |-> id, block |-> b]

Published == {e.id : e \in events}
Cursor    == IF chain = <<>> THEN NoBlock ELSE chain[Len(chain)]

JournalTypeOK ==
  /\ chain \in Seq(Block)
  /\ receipts \in [Payment -> Receipt]
  /\ events \subseteq [id : EventId, block : Block, seq : Nat]
  /\ lastSeq \in Nat
  /\ active \subseteq Consumer
  /\ subs \subseteq Consumer \X Payment
  /\ queued \subseteq Consumer \X EventId
  /\ acked \subseteq queued
  /\ early \in BOOLEAN

JournalInit ==
  /\ chain = <<>>
  /\ receipts = [p \in Payment |-> [rev |-> 0, block |-> NoBlock,
                                    active |-> FALSE, confirmed |-> FALSE]]
  /\ events = {}
  /\ lastSeq = 0
  /\ active = {}
  /\ subs = {}
  /\ queued = {}
  /\ acked = {}
  /\ early = FALSE

-----------------------------------------------------------------------------
(***************************************************************************)
(* publish(): append the events of one transaction, subscribe the active   *)
(* consumers to the payments they now see, and queue each event to the     *)
(* subscribers of its payment.  A revocation goes to whoever was           *)
(* subscribed before; inside a transaction it precedes the positive event  *)
(* that replaces it.  Payments of one transaction come in an order the     *)
(* query leaves open.                                                      *)
(***************************************************************************)
Numberings(new) ==
  {n \in [new -> lastSeq + 1 .. lastSeq + Cardinality(new)] :
     \A x, y \in new :
       /\ n[x] = n[y] => x = y
       /\ x.id.payment = y.id.payment /\ x.id.phase = "revoked" /\ x # y
            => n[y] = n[x] + 1}

MayObserve(c, id) == id.phase = "observed" => c \in Observer

Enrolled(new) ==
  {s \in active \X Payment :
     \E e \in new : /\ e.id.phase \in Positive
                    /\ e.id.payment = s[2]
                    /\ MayObserve(s[1], e.id)}

\* Mutant: a consumer that is not configured at the moment gets no revocation.
AudienceActiveOnly(new, id) ==
  {c \in active : <<c, id.payment>> \in subs \cup Enrolled(new) /\ MayObserve(c, id)}

Audience(new, id) ==
  {c \in Consumer :
     /\ <<c, id.payment>> \in
          subs \cup (IF id.phase = "revoked" THEN {} ELSE Enrolled(new))
     /\ MayObserve(c, id)}

NewDeliveries(new) ==
  {d \in Consumer \X {e.id : e \in new} : d[1] \in Audience(new, d[2])}

Publish(new) ==
  /\ \E n \in Numberings(new) :
       events' = events \cup
         {[id |-> e.id, block |-> e.block, seq |-> n[e]] : e \in new}
  /\ lastSeq' = lastSeq + Cardinality(new)
  /\ subs' = subs \cup Enrolled(new)
  /\ queued' = queued \cup NewDeliveries(new)

\* Deliveries that a superseding transaction acknowledges unperformed.
Superseded(ids) == {d \in queued : d[2] \in ids}

\* Mutant: only the confirmed phase of the revision is superseded.
PositiveIdsConfirmed(ps) == {Id(p, receipts[p].rev, "confirmed") : p \in ps}

PositiveIds(ps) ==
  {Id(p, receipts[p].rev, ph) : p \in ps, ph \in Positive}

\* Mutant: a re-mined payment takes up its old revision.
NextRevReused(p) == IF receipts[p].rev = 0 THEN 1 ELSE receipts[p].rev

NextRev(p) == receipts[p].rev + 1

AboveFloor(ps) == {p \in ps : Height[receipts[p].block] >= Floor}

\* Mutant: losing a payment that was only observed is not worth an event.
RevocationsOfConfirmed(ps) ==
  {Body(Id(p, receipts[p].rev, "revoked"), receipts[p].block) :
     p \in {q \in ps : receipts[q].confirmed}}

Revocations(ps) ==
  {Body(Id(p, receipts[p].rev, "revoked"), receipts[p].block) : p \in ps}

-----------------------------------------------------------------------------
(***************************************************************************)
(* append / observe: extend the journal chain by one block.  A payment of  *)
(* the block starts a new revision; being active already is an error that  *)
(* rolls the transaction back.                                             *)
(***************************************************************************)
Extends(b) ==
  chain # <<>> => /\ Height[b] = Height[Cursor] + 1
                  /\ Parent[b] = Cursor

AppendState(b, confirmed) ==
  LET paid == Carries[b]
      phase == IF confirmed THEN "confirmed" ELSE "observed"
      new == IF Height[b] < Floor THEN {}
             ELSE {Body(Id(p, NextRev(p), phase), b) : p \in paid}
  IN /\ Extends(b)
     /\ \A p \in paid : ~receipts[p].active /\ receipts[p].rev < MaxRev
     /\ receipts' = [p \in Payment |->
          IF p \in paid
            THEN [rev |-> NextRev(p), block |-> b, active |-> TRUE,
                  confirmed |-> confirmed]
            ELSE receipts[p]]
     /\ Publish(new)
     /\ chain' = Append(chain, b)
     /\ UNCHANGED <<active, acked, early>>

(***************************************************************************)
(* rollback_one: drop the top block.  Its receipts become inactive, their  *)
(* undelivered positive events are acknowledged unperformed, and each      *)
(* revision is revoked.                                                    *)
(***************************************************************************)
Mined(b) == {p \in Payment : /\ receipts[p].active
                             /\ Height[receipts[p].block] = Height[b]}

RollbackOne ==
  /\ chain # <<>>
  /\ LET lost == Mined(Cursor)
         told == AboveFloor(lost)
     IN /\ receipts' = [p \in Payment |->
             [receipts[p] EXCEPT !.active = @ /\ p \notin lost]]
        /\ acked' = acked \cup Superseded(PositiveIds(told))
        /\ Publish(Revocations(told))
        /\ chain' = SubSeq(chain, 1, Len(chain) - 1)
        /\ UNCHANGED <<active, early>>

(***************************************************************************)
(* reconcile_confirmations(safe): receipts at most `safe` high become      *)
(* confirmed under their revision; a confirmed receipt above it lost its   *)
(* depth, so its revision is revoked and observed anew as the next one.    *)
(***************************************************************************)
Shallow(safe) == {p \in Payment : /\ receipts[p].active
                                  /\ receipts[p].confirmed
                                  /\ Height[receipts[p].block] > safe}
Deep(safe) == {p \in Payment : /\ receipts[p].active
                               /\ ~receipts[p].confirmed
                               /\ Height[receipts[p].block] <= safe}

Observations(ps) ==
  {Body(Id(p, NextRev(p), "observed"), receipts[p].block) : p \in ps}
Confirmed(ps) ==
  {Body(Id(p, receipts[p].rev, "confirmed"), receipts[p].block) : p \in ps}

ReconcileConfirmations(safe) ==
  LET lost == Shallow(safe)
      gained == Deep(safe)
      told == AboveFloor(lost)
  IN /\ \A p \in lost : receipts[p].rev < MaxRev
     /\ receipts' = [p \in Payment |->
          [receipts[p] EXCEPT
             !.confirmed = (@ /\ p \notin lost) \/ p \in gained,
             !.rev = IF p \in lost THEN NextRev(p) ELSE @]]
     /\ acked' = acked \cup Superseded(PositiveIds(lost))
     /\ Publish(Revocations(told) \cup Observations(told)
                   \cup Confirmed(AboveFloor(gained)))
     /\ UNCHANGED <<chain, active, early>>

-----------------------------------------------------------------------------
\* The worker's acknowledge(); an absent row is no error.  (Its other update,
\* failed(), touches only the retry columns, which module PaymentDelivery has.)
Acknowledge(c, id) ==
  /\ acked' = acked \cup ({<<c, id>>} \cap queued)
  /\ UNCHANGED <<tables, active, queued, early>>

(***************************************************************************)
(* Journal::open and the operator's commands on a stopped daemon.          *)
(***************************************************************************)
\* Mutant: the scan mode follows the present configuration.
RegisterUnsticky(configured) ==
  active' = configured /\ early' = (configured \cap Observer # {})

Register(configured) ==
  /\ active' = configured
  /\ early' = (early \/ configured \cap Observer # {})

Open(configured) ==
  /\ Register(configured)
  /\ UNCHANGED <<tables, queues>>

\* Is this event what the receipt says now?
Current(id) ==
  LET r == receipts[id.payment]
  IN /\ r.rev = id.rev
     /\ r.active = (id.phase # "revoked")
     /\ id.phase = "confirmed" => r.confirmed

\* Mutant: any recorded event may be replayed.
ReplayableEver(c, id) == c \in active /\ id \in Published /\ MayObserve(c, id)

Replayable(c, id) ==
  /\ c \in active
  /\ id \in Published
  /\ MayObserve(c, id)
  /\ Current(id)

Replay(c, id) ==
  /\ Replayable(c, id)
  /\ subs' = subs \cup {<<c, id.payment>>}
  /\ queued' = queued \cup {<<c, id>>}
  /\ acked' = acked \ {<<c, id>>}
  /\ UNCHANGED <<chain, receipts, events, lastSeq, active, early>>

(***************************************************************************)
(* handoff_plan: the deliveries every configured consumer is entitled to.  *)
(***************************************************************************)
HasPositive(c, p, r) ==
  \/ Id(p, r, "confirmed") \in Published
  \/ c \in Observer /\ Id(p, r, "observed") \in Published

EntitledCurrent(c, id) ==
  LET r == receipts[id.payment]
  IN /\ r.rev = id.rev /\ r.rev > 0
     /\ Height[r.block] >= Floor
     /\ \/ r.active /\ id.phase = "observed" /\ c \in Observer
        \/ r.active /\ id.phase = "confirmed" /\ r.confirmed
        \/ /\ ~r.active /\ id.phase = "revoked"
           /\ HasPositive(c, id.payment, r.rev) \/ <<c, id.payment>> \in subs

EntitledHistory(c, id) ==
  /\ id.phase = "revoked"
  /\ id.rev < receipts[id.payment].rev
  /\ \/ HasPositive(c, id.payment, id.rev)
     \/ \E ph \in Positive : <<c, [id EXCEPT !.phase = ph]>> \in queued

Eligible(configured) ==
  {d \in configured \X Published :
     EntitledCurrent(d[1], d[2]) \/ EntitledHistory(d[1], d[2])}

\* What the status command counts as missing_deliveries.
Missing(configured) == Eligible(configured) \ queued

(***************************************************************************)
(* The lineage checks of handoff_plan; the first error refuses the whole   *)
(* command, and `status` then reports its inventory as unavailable.        *)
(***************************************************************************)
CurrentPhase(r) == IF ~r.active THEN "revoked"
                   ELSE IF r.confirmed THEN "confirmed" ELSE "observed"

PriorPositivesRevoked ==
  \A id \in Published :
    id.phase \in Positive /\ id.rev < receipts[id.payment].rev
      => Id(id.payment, id.rev, "revoked") \in Published

CurrentEventRecorded ==
  \A p \in Payment :
    LET r == receipts[p]
    IN r.rev > 0 /\ Height[r.block] >= Floor =>
         /\ \E e \in events : e.id = Id(p, r.rev, CurrentPhase(r))
                              /\ e.block = r.block
         /\ r.active => \E i \in DOMAIN chain : chain[i] = r.block

\* For a consumer that observes, the observation of a current revision must name
\* the receipt's block, also when the receipt is confirmed by now.
CurrentObservationAgrees(configured) ==
  configured \cap Observer # {} =>
    \A e \in events :
      LET r == receipts[e.id.payment]
      IN /\ e.id.phase = "observed" /\ e.id.rev = r.rev
         /\ r.active /\ Height[r.block] >= Floor
         => e.block = r.block

PlanAccepted(configured) ==
  /\ PriorPositivesRevoked
  /\ CurrentEventRecorded
  /\ CurrentObservationAgrees(configured)

EnqueueMissing(configured) ==
  /\ configured # {}
  /\ PlanAccepted(configured)
  /\ Register(configured)
  /\ subs' = subs \cup {<<d[1], d[2].payment>> : d \in Eligible(configured)}
  /\ queued' = queued \cup Eligible(configured)
  /\ UNCHANGED <<chain, receipts, events, lastSeq, acked>>

-----------------------------------------------------------------------------
(***************************************************************************)
(* The journal by itself: any caller may run any transaction.              *)
(***************************************************************************)
JournalNext ==
  \/ \E configured \in SUBSET Consumer :
       Open(configured) \/ EnqueueMissing(configured)
  \/ \E b \in Block, confirmed \in BOOLEAN : AppendState(b, confirmed)
  \/ RollbackOne
  \/ \E safe \in {Height[b] : b \in Block} : ReconcileConfirmations(safe)
  \/ \E d \in queued : Acknowledge(d[1], d[2])
  \/ \E c \in Consumer, id \in Published : Replay(c, id)

JournalSpec == JournalInit /\ [][JournalNext]_jvars

-----------------------------------------------------------------------------
(***************************************************************************)
(* Properties.                                                             *)
(***************************************************************************)
\* The journal never loses a revocation, and always records the events its
\* receipts stand for, at their blocks; so handoff_plan and status accept every
\* journal the daemon itself wrote, whichever consumers they are asked about.
LineageComplete == \A configured \in SUBSET Consumer : PlanAccepted(configured)

\* A recorded revocation stays true: its revision is over for good, even when
\* the very same block becomes canonical again (proof_event relies on it).
RevocationIsFinal ==
  \A id \in Published :
    id.phase = "revoked" =>
      LET r == receipts[id.payment]
      IN r.rev > id.rev \/ (r.rev = id.rev /\ ~r.active)

\* Work that is still queued is never stale: a positive event that no hook has
\* acknowledged describes the current revision of an active receipt, confirmed
\* if the event says so.
NoStalePositiveQueued ==
  \A d \in queued \ acked : d[2].phase \in Positive => Current(d[2])

\* Whoever was ever handed a positive event of a revision is also handed the
\* revocation of that revision, once it is published: consumers may have been
\* disabled, re-enabled, enrolled by replay or by a handoff in between.
RevocationFollowsPositive ==
  \A d \in queued :
    /\ d[2].phase \in Positive
    /\ [d[2] EXCEPT !.phase = "revoked"] \in Published
    => <<d[1], [d[2] EXCEPT !.phase = "revoked"]>> \in queued

\* Nothing but an operator's replay takes an acknowledgement back, and no
\* transaction drops a delivery or an event.
AcksAreDurable ==
  [][/\ events \subseteq events'
     /\ queued \subseteq queued'
     /\ \A d \in acked \ acked' : d[1] \in active /\ Current(d[2])]_jvars

\* enqueue-missing leaves nothing missing for the consumers it was run for:
\* its report says "missing_deliveries_after": 0.
HandoffIsComplete ==
  [][\A configured \in SUBSET Consumer :
       EnqueueMissing(configured) => Missing(configured)' = {}]_jvars
=============================================================================
