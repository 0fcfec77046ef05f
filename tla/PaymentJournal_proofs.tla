------------------------ MODULE PaymentJournal_proofs ------------------------
(***************************************************************************)
(* Proofs about the payment journal, for every block tree, every set of    *)
(* payments and consumers, every automation floor and any number of        *)
(* revisions: the journal's invariants hold in every reachable state.      *)
(***************************************************************************)
EXTENDS PaymentJournal, FiniteSetTheorems, TLAPS

-----------------------------------------------------------------------------
(***************************************************************************)
(* The inductive invariant.                                                *)
(***************************************************************************)
\* A receipt that was ever mined names its block; an active one was mined.
ReceiptsMined ==
  \A p \in Payment : /\ receipts[p].active => receipts[p].rev > 0
                     /\ receipts[p].rev > 0 => receipts[p].block \in Block

\* No event is ahead of its receipt, and none of the current revision was
\* published below the automation floor.
EventsBehindReceipts ==
  \A id \in Published :
    /\ id.rev > 0
    /\ id.rev <= receipts[id.payment].rev
    /\ id.rev = receipts[id.payment].rev => Height[receipts[id.payment].block] >= Floor

\* A confirmed event of the current revision says the receipt is confirmed, or
\* the receipt is off the chain.
ConfirmedEventsConfirmed ==
  \A id \in Published :
    id.phase = "confirmed" /\ id.rev = receipts[id.payment].rev
      => receipts[id.payment].confirmed \/ ~receipts[id.payment].active

\* Deliveries are made of published events, for subscribers of the payment.
DeliveriesBacked ==
  \A d \in queued : d[2] \in Published /\ <<d[1], d[2].payment>> \in subs

\* An event of the current revision names the block of its receipt.
EventsAtReceipts ==
  \A e \in events :
    LET r == receipts[e.id.payment] IN e.id.rev = r.rev => e.block = r.block

Inv == /\ JournalTypeOK
       /\ ReceiptsMined
       /\ EventsBehindReceipts
       /\ ConfirmedEventsConfirmed
       /\ RevocationIsFinal
       /\ DeliveriesBacked
       /\ NoStalePositiveQueued
       /\ RevocationFollowsPositive
       /\ PriorPositivesRevoked
       /\ CurrentEventRecorded
       /\ EventsAtReceipts

-----------------------------------------------------------------------------
(***************************************************************************)
(* Publishing.                                                             *)
(***************************************************************************)
\* The events of one kind in one transaction are finitely many: one per payment.
LEMMA OnePerPaymentFinite ==
  ASSUME JournalAssumption, NEW T,
         \A e \in T : e.id.payment \in Payment,
         \A e, f \in T : e.id.payment = f.id.payment => e = f
  PROVE  IsFiniteSet(T)
<1> DEFINE g == [e \in T |-> e.id.payment]
<1>1. g \in Injection(T, Payment)
  BY DEF Injection, IsInjective
<1> QED
  BY <1>1, FS_Injection DEF JournalAssumption

\* What a transaction that publishes the bodies in `new` does to the four tables.
LEMMA PublishEffect ==
  ASSUME JournalTypeOK, NEW new, IsFiniteSet(new),
         new \subseteq [id : EventId, block : Block], Publish(new)
  PROVE  /\ events' \subseteq [id : EventId, block : Block, seq : Nat]
         /\ lastSeq' \in Nat
         /\ subs' \subseteq Consumer \X Payment
         /\ subs \subseteq subs'
         /\ queued' \subseteq Consumer \X EventId
         /\ queued \subseteq queued'
         /\ Published' = Published \cup {e.id : e \in new}
         /\ events \subseteq events'
         /\ \A e \in new : \E f \in events' : f.id = e.id /\ f.block = e.block
         /\ \A f \in events' :
              f \in events \/ \E e \in new : f.id = e.id /\ f.block = e.block
<1>1. Cardinality(new) \in Nat
  BY FS_CardinalityType
<1>2. PICK n \in Numberings(new) :
        events' = events \cup {[id |-> e.id, block |-> e.block, seq |-> n[e]] : e \in new}
  BY DEF Publish
<1>3. n \in [new -> lastSeq + 1 .. lastSeq + Cardinality(new)]
  BY <1>2 DEF Numberings
<1>4. \A e \in new : n[e] \in Nat
  BY <1>1, <1>3 DEF JournalTypeOK
<1>5. events' \subseteq [id : EventId, block : Block, seq : Nat]
  BY <1>2, <1>4 DEF JournalTypeOK
<1>6. lastSeq' \in Nat
  BY <1>1 DEF Publish, JournalTypeOK
<1>7. subs' \subseteq Consumer \X Payment /\ subs \subseteq subs'
  BY DEF Publish, JournalTypeOK, Enrolled
<1>8. {e.id : e \in new} \subseteq EventId
  OBVIOUS
<1>9. queued' \subseteq Consumer \X EventId /\ queued \subseteq queued'
  BY <1>8 DEF Publish, JournalTypeOK, NewDeliveries
<1> DEFINE row(e) == [id |-> e.id, block |-> e.block, seq |-> n[e]]
<1>10. \A e \in new : row(e) \in events' /\ row(e).id = e.id /\ row(e).block = e.block
  BY <1>2
<1>11. \A f \in events' :
         f \in events \/ \E e \in new : f.id = e.id /\ f.block = e.block
  BY <1>2
<1>12. events \subseteq events'
  BY <1>2
<1>13. Published' = {f.id : f \in events'}
  BY DEF Published
<1>14. ASSUME NEW x PROVE x \in Published' <=> x \in Published \cup {e.id : e \in new}
  <2>1. CASE x \in Published'
    <3>1. PICK f \in events' : x = f.id
      BY <1>13, <2>1
    <3> QED
      BY <3>1, <1>11 DEF Published
  <2>2. CASE x \in Published
    <3>1. PICK f \in events : x = f.id
      BY <2>2 DEF Published
    <3> QED
      BY <2>2, <3>1, <1>12, <1>13
  <2>3. CASE x \in {e.id : e \in new}
    <3>1. PICK e \in new : x = e.id
      BY <2>3
    <3>2. row(e) \in events' /\ x = row(e).id
      BY <3>1, <1>10
    <3> QED
      BY <3>2, <1>13
  <2> QED
    BY <2>1, <2>2, <2>3
<1>15. Published' = Published \cup {e.id : e \in new}
  BY <1>14
<1> HIDE DEF row
<1> QED
  BY <1>5, <1>6, <1>7, <1>9, <1>10, <1>11, <1>12, <1>15

\* Whatever is queued is published and its consumer subscribed; a revocation is
\* queued to everyone who was subscribed before.
LEMMA PublishQueues ==
  ASSUME JournalTypeOK, DeliveriesBacked, NEW new, IsFiniteSet(new),
         new \subseteq [id : EventId, block : Block], Publish(new)
  PROVE  /\ DeliveriesBacked'
         /\ \A d \in queued' : d \in queued \/ \E e \in new : d[2] = e.id
         /\ \A e \in new, c \in Consumer :
              e.id.phase = "revoked" /\ <<c, e.id.payment>> \in subs
                => <<c, e.id>> \in queued'
<1>1. /\ Published' = Published \cup {e.id : e \in new}
      /\ subs \subseteq subs'
  BY PublishEffect
<1>2. queued' = queued \cup NewDeliveries(new) /\ subs' = subs \cup Enrolled(new)
  BY DEF Publish
<1>3. \A d \in NewDeliveries(new) : /\ \E e \in new : d[2] = e.id
                                   /\ <<d[1], d[2].payment>> \in subs'
  BY <1>2 DEF NewDeliveries, Audience
<1>4. DeliveriesBacked'
  BY <1>1, <1>2, <1>3 DEF DeliveriesBacked
<1>5. ASSUME NEW e \in new, NEW c \in Consumer,
             e.id.phase = "revoked", <<c, e.id.payment>> \in subs
      PROVE  <<c, e.id>> \in queued'
  <2>1. c \in Audience(new, e.id)
    BY <1>5 DEF Audience, MayObserve
  <2> QED
    BY <2>1, <1>2 DEF NewDeliveries
<1> QED
  BY <1>2, <1>3, <1>4, <1>5

-----------------------------------------------------------------------------
(***************************************************************************)
(* The initial state.                                                      *)
(***************************************************************************)
LEMMA InitInv ==
  ASSUME JournalAssumption, JournalInit
  PROVE  Inv
<1>1. Published = {}
  BY DEF JournalInit, Published
<1>2. JournalTypeOK
  <2>1. receipts \in [Payment -> Receipt]
    BY DEF JournalInit, Receipt
  <2>2. chain \in Seq(Block)
    BY DEF JournalInit
  <2> QED
    BY <2>1, <2>2 DEF JournalInit, JournalTypeOK
<1>3. \A p \in Payment : receipts[p].rev = 0 /\ ~receipts[p].active
  BY DEF JournalInit
<1>4. PriorPositivesRevoked /\ CurrentEventRecorded /\ EventsAtReceipts
  BY <1>1, <1>3 DEF PriorPositivesRevoked, CurrentEventRecorded, EventsAtReceipts,
                    JournalInit
<1>5. queued = {}
  BY DEF JournalInit
<1> QED
  BY <1>1, <1>2, <1>3, <1>4, <1>5
     DEF Inv, ReceiptsMined, EventsBehindReceipts, ConfirmedEventsConfirmed,
         RevocationIsFinal, DeliveriesBacked, NoStalePositiveQueued, RevocationFollowsPositive

-----------------------------------------------------------------------------
(***************************************************************************)
(* Appending a block.                                                      *)
(***************************************************************************)
LEMMA AppendInv ==
  ASSUME JournalAssumption, Inv, NEW b \in Block, NEW confirmed \in BOOLEAN,
         AppendState(b, confirmed)
  PROVE  Inv'
<1> DEFINE paid == Carries[b]
           phase == IF confirmed THEN "confirmed" ELSE "observed"
           new == IF Height[b] < Floor THEN {}
                  ELSE {Body(Id(p, NextRev(p), phase), b) : p \in paid}
<1>0. /\ JournalTypeOK
      /\ paid \subseteq Payment
      /\ Height[b] \in Nat /\ Floor \in Nat
      /\ \A p \in paid : ~receipts[p].active
      /\ receipts' = [p \in Payment |->
           IF p \in paid
             THEN [rev |-> NextRev(p), block |-> b, active |-> TRUE,
                   confirmed |-> confirmed]
             ELSE receipts[p]]
      /\ Publish(new)
      /\ chain' = Append(chain, b)
      /\ acked' = acked /\ active' = active /\ early' = early
  BY DEF Inv, AppendState, JournalAssumption
<1>1. \A p \in Payment : receipts[p] \in Receipt /\ receipts[p].rev \in Nat
  BY <1>0 DEF JournalTypeOK, Receipt
<1>2. new \subseteq [id : EventId, block : Block]
  BY <1>0, <1>1 DEF Body, Id, EventId, Phase, Positive, NextRev
<1>3. \A e \in new : /\ e.id.payment \in paid
                     /\ e.id.rev = receipts[e.id.payment].rev + 1
                     /\ e.id.phase = phase
                     /\ e.block = b
                     /\ Height[b] >= Floor
                     /\ e = Body(Id(e.id.payment, NextRev(e.id.payment), phase), b)
  BY <1>0 DEF Body, Id, NextRev
<1>4. IsFiniteSet(new)
  BY <1>0, <1>3, OnePerPaymentFinite
<1>5. ASSUME NEW p \in paid, Height[b] >= Floor
      PROVE  \E e \in new : e.id = Id(p, receipts[p].rev + 1, phase) /\ e.block = b
  <2>1. Body(Id(p, NextRev(p), phase), b) \in new
    BY <1>0, <1>5
  <2> QED
    BY <2>1 DEF Body, NextRev
<1> HIDE DEF new
<1>6. /\ events' \subseteq [id : EventId, block : Block, seq : Nat]
      /\ lastSeq' \in Nat
      /\ subs' \subseteq Consumer \X Payment
      /\ queued' \subseteq Consumer \X EventId
      /\ queued \subseteq queued'
      /\ Published' = Published \cup {e.id : e \in new}
      /\ events \subseteq events'
      /\ \A e \in new : \E f \in events' : f.id = e.id /\ f.block = e.block
      /\ \A f \in events' :
           f \in events \/ \E e \in new : f.id = e.id /\ f.block = e.block
  BY <1>0, <1>2, <1>4, PublishEffect
<1>7. /\ DeliveriesBacked'
      /\ \A d \in queued' : d \in queued \/ \E e \in new : d[2] = e.id
  BY <1>0, <1>2, <1>4, PublishQueues DEF Inv
<1>8. Published \subseteq EventId /\ Published' \subseteq EventId
  BY <1>0, <1>6 DEF Published, JournalTypeOK
<1>9. /\ \A p \in paid : /\ receipts'[p].rev = receipts[p].rev + 1
                         /\ receipts'[p].block = b
                         /\ receipts'[p].active = TRUE
                         /\ receipts'[p].confirmed = confirmed
      /\ \A p \in Payment : p \notin paid => receipts'[p] = receipts[p]
  BY <1>0 DEF NextRev
<1>10. JournalTypeOK'
  <2>1. receipts' \in [Payment -> Receipt]
    BY <1>0, <1>1 DEF Receipt, NextRev
  <2>2. chain' \in Seq(Block)
    BY <1>0 DEF JournalTypeOK
  <2> QED
    BY <1>0, <1>6, <2>1, <2>2 DEF JournalTypeOK
<1>11. ReceiptsMined'
  BY <1>1, <1>9 DEF Inv, ReceiptsMined
<1>12. EventsBehindReceipts'
  <2> SUFFICES ASSUME NEW id \in Published'
               PROVE  /\ id.rev > 0
                      /\ id.rev <= receipts'[id.payment].rev
                      /\ id.rev = receipts'[id.payment].rev
                           => Height[receipts'[id.payment].block] >= Floor
    BY DEF EventsBehindReceipts
  <2>0. id.payment \in Payment /\ id.rev \in Nat
    BY <1>8 DEF EventId
  <2>1. CASE id \in Published
    BY <2>0, <2>1, <1>1, <1>9 DEF Inv, EventsBehindReceipts
  <2>2. CASE id \in {e.id : e \in new}
    BY <2>0, <2>2, <1>1, <1>3, <1>9
  <2> QED
    BY <1>6, <2>1, <2>2
<1>13. ConfirmedEventsConfirmed'
  <2> SUFFICES ASSUME NEW id \in Published', id.phase = "confirmed",
                      id.rev = receipts'[id.payment].rev
               PROVE  receipts'[id.payment].confirmed \/ ~receipts'[id.payment].active
    BY DEF ConfirmedEventsConfirmed
  <2>0. id.payment \in Payment /\ id.rev \in Nat
    BY <1>8 DEF EventId
  <2>1. CASE id \in Published
    BY <2>0, <2>1, <1>1, <1>9 DEF Inv, ConfirmedEventsConfirmed, EventsBehindReceipts
  <2>2. CASE id \in {e.id : e \in new}
    BY <2>0, <2>2, <1>1, <1>3, <1>9
  <2> QED
    BY <1>6, <2>1, <2>2
<1>14. RevocationIsFinal'
  <2> SUFFICES ASSUME NEW id \in Published', id.phase = "revoked"
               PROVE  \/ receipts'[id.payment].rev > id.rev
                      \/ receipts'[id.payment].rev = id.rev /\ ~receipts'[id.payment].active
    BY DEF RevocationIsFinal
  <2>0. id.payment \in Payment /\ id.rev \in Nat
    BY <1>8 DEF EventId
  <2>1. id \in Published
    BY <1>3, <1>6
  <2> QED
    BY <2>0, <2>1, <1>1, <1>9 DEF Inv, RevocationIsFinal
<1>15. NoStalePositiveQueued'
  <2> SUFFICES ASSUME NEW d \in queued' \ acked', d[2].phase \in Positive
               PROVE  Current(d[2])'
    BY DEF NoStalePositiveQueued
  <2>0. d[2].payment \in Payment /\ d[2].rev \in Nat
    BY <1>6 DEF EventId
  <2>1. CASE d \in queued
    <3>1. Current(d[2])
      BY <2>1, <1>0 DEF Inv, NoStalePositiveQueued
    <3>2. d[2].payment \notin paid
      BY <1>0, <3>1 DEF Current, Positive
    <3> QED
      BY <2>0, <3>1, <3>2, <1>9 DEF Current
  <2>2. CASE \E e \in new : d[2] = e.id
    <3>1. /\ d[2].payment \in paid /\ d[2].phase = phase
          /\ d[2].rev = receipts[d[2].payment].rev + 1
      BY <2>2, <1>3
    <3>2. receipts'[d[2].payment].rev = d[2].rev /\ receipts'[d[2].payment].active = TRUE
      BY <3>1, <1>9
    <3>3. d[2].phase = "confirmed" => receipts'[d[2].payment].confirmed
      BY <3>1, <1>9
    <3> QED
      BY <3>1, <3>2, <3>3 DEF Current
  <2> QED
    BY <1>7, <2>1, <2>2
<1>16. RevocationFollowsPositive'
  <2> SUFFICES ASSUME NEW d \in queued', d[2].phase \in Positive,
                      [d[2] EXCEPT !.phase = "revoked"] \in Published'
               PROVE  <<d[1], [d[2] EXCEPT !.phase = "revoked"]>> \in queued'
    BY DEF RevocationFollowsPositive
  <2> DEFINE rv == [d[2] EXCEPT !.phase = "revoked"]
  <2>0. /\ d[2].payment \in Payment /\ d[2].rev \in Nat
        /\ rv.payment = d[2].payment /\ rv.rev = d[2].rev /\ rv.phase = "revoked"
    BY <1>6 DEF EventId
  <2>1. rv \in Published
    BY <2>0, <1>3, <1>6
  <2>2. d \in queued
    <3> SUFFICES ASSUME NEW e \in new, d[2] = e.id
                 PROVE  FALSE
      BY <1>7
    <3>1. rv.rev = receipts[rv.payment].rev + 1
      BY <2>0, <1>3
    <3>2. rv.rev <= receipts[rv.payment].rev
      BY <2>1 DEF Inv, EventsBehindReceipts
    <3> QED
      BY <2>0, <3>1, <3>2, <1>1
  <2> QED
    BY <2>1, <2>2, <1>6 DEF Inv, RevocationFollowsPositive
<1>17. PriorPositivesRevoked'
  <2> SUFFICES ASSUME NEW id \in Published', id.phase \in Positive,
                      id.rev < receipts'[id.payment].rev
               PROVE  Id(id.payment, id.rev, "revoked") \in Published'
    BY DEF PriorPositivesRevoked
  <2>0. id.payment \in Payment /\ id.rev \in Nat
    BY <1>8 DEF EventId
  <2>1. id \in Published
    BY <2>0, <1>1, <1>3, <1>6, <1>9
  <2>2. CASE id.rev < receipts[id.payment].rev
    BY <2>1, <2>2, <1>6 DEF Inv, PriorPositivesRevoked
  <2>3. CASE id.rev = receipts[id.payment].rev
    <3>1. id.payment \in paid
      BY <2>0, <2>3, <1>9
    <3>2. id.rev > 0 /\ Height[receipts[id.payment].block] >= Floor
      BY <2>1, <2>3 DEF Inv, EventsBehindReceipts
    <3>3. CurrentPhase(receipts[id.payment]) = "revoked"
      BY <3>1, <1>0 DEF CurrentPhase
    <3>4. \E e \in events : e.id = Id(id.payment, id.rev, "revoked")
      BY <2>0, <2>3, <3>2, <3>3 DEF Inv, CurrentEventRecorded
    <3> QED
      BY <3>4, <1>6 DEF Published
  <2>4. id.rev <= receipts[id.payment].rev
    BY <2>1 DEF Inv, EventsBehindReceipts
  <2> QED
    BY <2>0, <2>2, <2>3, <2>4, <1>1
<1>18. CurrentEventRecorded'
  <2> SUFFICES ASSUME NEW p \in Payment, receipts'[p].rev > 0,
                      Height[receipts'[p].block] >= Floor
               PROVE  /\ \E e \in events' : /\ e.id = Id(p, receipts'[p].rev, CurrentPhase(receipts'[p]))
                                            /\ e.block = receipts'[p].block
                      /\ receipts'[p].active => \E i \in DOMAIN chain' : chain'[i] = receipts'[p].block
    BY DEF CurrentEventRecorded, CurrentPhase
  <2>1. CASE p \in paid
    <3>1. CurrentPhase(receipts'[p]) = phase
      BY <2>1, <1>9 DEF CurrentPhase
    <3>2. \E e \in new : e.id = Id(p, receipts'[p].rev, phase) /\ e.block = b
      BY <2>1, <1>5, <1>9
    <3>3. Len(chain') \in DOMAIN chain' /\ chain'[Len(chain')] = b
      BY <1>0 DEF JournalTypeOK
    <3> QED
      BY <2>1, <3>1, <3>2, <3>3, <1>6, <1>9
  <2>2. CASE p \notin paid
    <3>1. receipts'[p] = receipts[p]
      BY <2>2, <1>9
    <3>2. /\ \E e \in events : /\ e.id = Id(p, receipts[p].rev, CurrentPhase(receipts[p]))
                               /\ e.block = receipts[p].block
          /\ receipts[p].active => \E i \in DOMAIN chain : chain[i] = receipts[p].block
      BY <3>1 DEF Inv, CurrentEventRecorded
    <3>3. \A i \in DOMAIN chain : i \in DOMAIN chain' /\ chain'[i] = chain[i]
      BY <1>0 DEF JournalTypeOK
    <3> QED
      BY <3>1, <3>2, <3>3, <1>6
  <2> QED
    BY <2>1, <2>2
<1>19. EventsAtReceipts'
  <2> SUFFICES ASSUME NEW f \in events', f.id.rev = receipts'[f.id.payment].rev
               PROVE  f.block = receipts'[f.id.payment].block
    BY DEF EventsAtReceipts
  <2>1. CASE f \in events
    <3>1. f.id \in Published /\ f.id.payment \in Payment
      BY <2>1, <1>8 DEF Published, EventId
    <3>2. f.id.payment \notin paid
      BY <3>1, <1>1, <1>9 DEF Inv, EventsBehindReceipts
    <3> QED
      BY <2>1, <3>1, <3>2, <1>9 DEF Inv, EventsAtReceipts
  <2>2. CASE \E e \in new : f.id = e.id /\ f.block = e.block
    BY <2>2, <1>3, <1>9
  <2> QED
    BY <1>6, <2>1, <2>2
<1> QED
  BY <1>7, <1>10, <1>11, <1>12, <1>13, <1>14, <1>15, <1>16, <1>17, <1>18, <1>19 DEF Inv

-----------------------------------------------------------------------------
(***************************************************************************)
(* Rolling back the top block.                                             *)
(***************************************************************************)
LEMMA RollbackInv ==
  ASSUME JournalAssumption, Inv, RollbackOne
  PROVE  Inv'
<1> DEFINE lost == Mined(Cursor)
           told == AboveFloor(lost)
           new == Revocations(told)
<1>0. /\ JournalTypeOK
      /\ chain # <<>>
      /\ receipts' = [p \in Payment |-> [receipts[p] EXCEPT !.active = @ /\ p \notin lost]]
      /\ acked' = acked \cup Superseded(PositiveIds(told))
      /\ Publish(new)
      /\ chain' = SubSeq(chain, 1, Len(chain) - 1)
      /\ active' = active /\ early' = early
  BY DEF Inv, RollbackOne
<1>1. /\ \A p \in Payment : receipts[p] \in Receipt /\ receipts[p].rev \in Nat
      /\ chain \in Seq(Block) /\ Len(chain) \in Nat /\ Len(chain) > 0
      /\ Cursor \in Block /\ Cursor = chain[Len(chain)]
      /\ \A x \in Block : Height[x] \in Nat
  BY <1>0 DEF JournalTypeOK, Receipt, Cursor, JournalAssumption
<1>2. \A p \in Payment : p \in lost <=> receipts[p].active /\ Height[receipts[p].block] = Height[Cursor]
  BY DEF Mined
<1>3. \A p : p \in told <=> p \in lost /\ Height[receipts[p].block] >= Floor
  BY DEF AboveFloor
<1>4. /\ lost \subseteq Payment /\ told \subseteq Payment
      /\ \A p \in told : receipts[p].rev > 0 /\ receipts[p].block \in Block
  BY <1>2, <1>3 DEF Mined, Inv, ReceiptsMined
<1>5. \A e \in new : /\ e.id.payment \in told
                     /\ e.id.rev = receipts[e.id.payment].rev
                     /\ e.id.phase = "revoked"
                     /\ e.block = receipts[e.id.payment].block
                     /\ e = Body(Id(e.id.payment, receipts[e.id.payment].rev, "revoked"),
                                 receipts[e.id.payment].block)
  BY DEF Revocations, Body, Id
<1>6. ASSUME NEW p \in told
      PROVE  \E e \in new : e.id = Id(p, receipts[p].rev, "revoked") /\ e.block = receipts[p].block
  <2>1. Body(Id(p, receipts[p].rev, "revoked"), receipts[p].block) \in new
    BY DEF Revocations
  <2> QED
    BY <2>1 DEF Body
<1>7. new \subseteq [id : EventId, block : Block]
  BY <1>1, <1>4 DEF Revocations, Body, Id, EventId, Phase
<1>8. IsFiniteSet(new)
  BY <1>4, <1>5, OnePerPaymentFinite
<1> HIDE DEF new, told, lost
<1>9. /\ events' \subseteq [id : EventId, block : Block, seq : Nat]
      /\ lastSeq' \in Nat
      /\ subs' \subseteq Consumer \X Payment
      /\ queued' \subseteq Consumer \X EventId
      /\ queued \subseteq queued'
      /\ Published' = Published \cup {e.id : e \in new}
      /\ events \subseteq events'
      /\ \A e \in new : \E f \in events' : f.id = e.id /\ f.block = e.block
      /\ \A f \in events' :
           f \in events \/ \E e \in new : f.id = e.id /\ f.block = e.block
  BY <1>0, <1>7, <1>8, PublishEffect
<1>10. /\ DeliveriesBacked'
       /\ \A d \in queued' : d \in queued \/ \E e \in new : d[2] = e.id
       /\ \A e \in new, c \in Consumer :
            e.id.phase = "revoked" /\ <<c, e.id.payment>> \in subs => <<c, e.id>> \in queued'
  BY <1>0, <1>7, <1>8, PublishQueues DEF Inv
<1>11. Published \subseteq EventId /\ Published' \subseteq EventId
  BY <1>0, <1>9 DEF Published, JournalTypeOK
<1>12. \A p \in Payment : /\ receipts'[p].rev = receipts[p].rev
                          /\ receipts'[p].block = receipts[p].block
                          /\ receipts'[p].confirmed = receipts[p].confirmed
                          /\ receipts'[p].active = (receipts[p].active /\ p \notin lost)
  BY <1>0, <1>1 DEF Receipt
<1>13. JournalTypeOK'
  <2>1. receipts' \in [Payment -> Receipt]
    BY <1>0, <1>1 DEF Receipt
  <2>2. chain' \in Seq(Block)
    BY <1>0, <1>1
  <2>3. acked' \subseteq queued'
    BY <1>0, <1>9 DEF JournalTypeOK, Superseded
  <2> QED
    BY <1>0, <1>9, <2>1, <2>2, <2>3 DEF JournalTypeOK
<1>14. ReceiptsMined'
  BY <1>12 DEF Inv, ReceiptsMined
<1>15. EventsBehindReceipts'
  <2> SUFFICES ASSUME NEW id \in Published'
               PROVE  /\ id.rev > 0
                      /\ id.rev <= receipts'[id.payment].rev
                      /\ id.rev = receipts'[id.payment].rev
                           => Height[receipts'[id.payment].block] >= Floor
    BY DEF EventsBehindReceipts
  <2>0. id.payment \in Payment /\ id.rev \in Nat
    BY <1>11 DEF EventId
  <2>1. CASE id \in Published
    BY <2>0, <2>1, <1>12 DEF Inv, EventsBehindReceipts
  <2>2. CASE id \in {e.id : e \in new}
    BY <2>0, <2>2, <1>3, <1>4, <1>5, <1>12
  <2> QED
    BY <1>9, <2>1, <2>2
<1>16. ConfirmedEventsConfirmed'
  <2> SUFFICES ASSUME NEW id \in Published', id.phase = "confirmed",
                      id.rev = receipts'[id.payment].rev
               PROVE  receipts'[id.payment].confirmed \/ ~receipts'[id.payment].active
    BY DEF ConfirmedEventsConfirmed
  <2>0. id.payment \in Payment
    BY <1>11 DEF EventId
  <2>1. id \in Published
    BY <1>5, <1>9
  <2> QED
    BY <2>0, <2>1, <1>12 DEF Inv, ConfirmedEventsConfirmed
<1>17. RevocationIsFinal'
  <2> SUFFICES ASSUME NEW id \in Published', id.phase = "revoked"
               PROVE  \/ receipts'[id.payment].rev > id.rev
                      \/ receipts'[id.payment].rev = id.rev /\ ~receipts'[id.payment].active
    BY DEF RevocationIsFinal
  <2>0. id.payment \in Payment
    BY <1>11 DEF EventId
  <2>1. CASE id \in Published
    BY <2>0, <2>1, <1>12 DEF Inv, RevocationIsFinal
  <2>2. CASE id \in {e.id : e \in new}
    <3>1. id.payment \in lost /\ id.rev = receipts[id.payment].rev
      BY <2>2, <1>3, <1>5
    <3> QED
      BY <2>0, <3>1, <1>12
  <2> QED
    BY <1>9, <2>1, <2>2
<1>18. NoStalePositiveQueued'
  <2> SUFFICES ASSUME NEW d \in queued' \ acked', d[2].phase \in Positive
               PROVE  Current(d[2])'
    BY DEF NoStalePositiveQueued
  <2>0. d[2] \in EventId /\ d[2].payment \in Payment /\ d[2].rev \in Nat
    BY <1>9 DEF EventId
  <2>1. d \in queued /\ d \notin acked
    BY <1>0, <1>5, <1>10 DEF Positive
  <2>2. Current(d[2])
    BY <2>1 DEF Inv, NoStalePositiveQueued
  <2>3. d[2].payment \notin lost
    <3> SUFFICES ASSUME d[2].payment \in lost
                 PROVE  FALSE
      OBVIOUS
    <3>1. d[2] \in Published /\ d[2].rev = receipts[d[2].payment].rev
      BY <2>1, <2>2 DEF Inv, DeliveriesBacked, Current
    <3>2. d[2].payment \in told
      BY <3>1, <1>3 DEF Inv, EventsBehindReceipts
    <3>3. d[2] = Id(d[2].payment, receipts[d[2].payment].rev, d[2].phase)
      BY <2>0, <3>1 DEF Id, EventId
    <3>4. d[2] \in PositiveIds(told)
      BY <3>2, <3>3 DEF PositiveIds
    <3> QED
      BY <2>1, <3>4, <1>0 DEF Superseded
  <2> QED
    BY <2>0, <2>2, <2>3, <1>12 DEF Current
<1>19. RevocationFollowsPositive'
  <2> SUFFICES ASSUME NEW d \in queued', d[2].phase \in Positive,
                      [d[2] EXCEPT !.phase = "revoked"] \in Published'
               PROVE  <<d[1], [d[2] EXCEPT !.phase = "revoked"]>> \in queued'
    BY DEF RevocationFollowsPositive
  <2> DEFINE rv == [d[2] EXCEPT !.phase = "revoked"]
  <2>0. /\ d[1] \in Consumer
        /\ rv.payment = d[2].payment /\ rv.phase = "revoked"
    BY <1>9 DEF EventId
  <2>1. d \in queued
    BY <1>5, <1>10 DEF Positive
  <2>2. CASE rv \in Published
    BY <2>1, <2>2, <1>9 DEF Inv, RevocationFollowsPositive
  <2>3. CASE rv \in {e.id : e \in new}
    <3>1. <<d[1], rv.payment>> \in subs
      BY <2>0, <2>1 DEF Inv, DeliveriesBacked
    <3> QED
      BY <2>0, <2>3, <3>1, <1>10
  <2> QED
    BY <2>2, <2>3, <1>9
<1>20. PriorPositivesRevoked'
  <2> SUFFICES ASSUME NEW id \in Published', id.phase \in Positive,
                      id.rev < receipts'[id.payment].rev
               PROVE  Id(id.payment, id.rev, "revoked") \in Published'
    BY DEF PriorPositivesRevoked
  <2>1. id \in Published /\ id.payment \in Payment
    BY <1>5, <1>9, <1>11 DEF Positive, EventId
  <2> QED
    BY <2>1, <1>9, <1>12 DEF Inv, PriorPositivesRevoked
<1>21. CurrentEventRecorded'
  <2> SUFFICES ASSUME NEW p \in Payment, receipts'[p].rev > 0,
                      Height[receipts'[p].block] >= Floor
               PROVE  /\ \E e \in events' : /\ e.id = Id(p, receipts'[p].rev, CurrentPhase(receipts'[p]))
                                            /\ e.block = receipts'[p].block
                      /\ receipts'[p].active => \E i \in DOMAIN chain' : chain'[i] = receipts'[p].block
    BY DEF CurrentEventRecorded, CurrentPhase
  <2>1. CASE p \in lost
    <3>1. CurrentPhase(receipts'[p]) = "revoked" /\ ~receipts'[p].active
      BY <2>1, <1>12 DEF CurrentPhase
    <3>2. p \in told
      BY <2>1, <1>3, <1>12
    <3> QED
      BY <3>1, <3>2, <1>6, <1>9, <1>12
  <2>2. CASE p \notin lost
    <3>1. CurrentPhase(receipts'[p]) = CurrentPhase(receipts[p])
      BY <2>2, <1>1, <1>12 DEF CurrentPhase, Receipt
    <3>2. /\ \E e \in events : /\ e.id = Id(p, receipts[p].rev, CurrentPhase(receipts[p]))
                               /\ e.block = receipts[p].block
          /\ receipts[p].active => \E i \in DOMAIN chain : chain[i] = receipts[p].block
      BY <1>12 DEF Inv, CurrentEventRecorded
    <3>3. ASSUME receipts'[p].active
          PROVE  \E i \in DOMAIN chain' : chain'[i] = receipts'[p].block
      <4>1. PICK i \in DOMAIN chain : chain[i] = receipts[p].block
        BY <3>2, <3>3, <1>12
      <4>2. i # Len(chain)
        BY <2>2, <3>3, <4>1, <1>1, <1>2, <1>12
      <4>3. i \in DOMAIN chain' /\ chain'[i] = chain[i]
        BY <4>1, <4>2, <1>0, <1>1
      <4> QED
        BY <4>1, <4>3, <1>12
    <3> QED
      BY <3>1, <3>2, <3>3, <1>9, <1>12
  <2> QED
    BY <2>1, <2>2
<1>22. EventsAtReceipts'
  <2> SUFFICES ASSUME NEW f \in events', f.id.rev = receipts'[f.id.payment].rev
               PROVE  f.block = receipts'[f.id.payment].block
    BY DEF EventsAtReceipts
  <2>1. CASE f \in events
    <3>1. f.id.payment \in Payment
      BY <2>1, <1>11 DEF Published, EventId
    <3> QED
      BY <2>1, <3>1, <1>12 DEF Inv, EventsAtReceipts
  <2>2. CASE \E e \in new : f.id = e.id /\ f.block = e.block
    BY <2>2, <1>4, <1>5, <1>12
  <2> QED
    BY <1>9, <2>1, <2>2
<1> QED
  BY <1>10, <1>13, <1>14, <1>15, <1>16, <1>17, <1>18, <1>19, <1>20, <1>21, <1>22 DEF Inv

-----------------------------------------------------------------------------
(***************************************************************************)
(* Reconciling confirmations.                                              *)
(***************************************************************************)
LEMMA ReconcileInv ==
  ASSUME JournalAssumption, Inv, NEW safe \in Nat, ReconcileConfirmations(safe)
  PROVE  Inv'
<1> DEFINE lost == Shallow(safe)
           gained == Deep(safe)
           told == AboveFloor(lost)
           heard == AboveFloor(gained)
           new == Revocations(told) \cup Observations(told) \cup Confirmed(heard)
<1>0. /\ JournalTypeOK
      /\ receipts' = [p \in Payment |->
           [receipts[p] EXCEPT
              !.confirmed = (@ /\ p \notin lost) \/ p \in gained,
              !.rev = IF p \in lost THEN NextRev(p) ELSE @]]
      /\ acked' = acked \cup Superseded(PositiveIds(lost))
      /\ Publish(new)
      /\ chain' = chain /\ active' = active /\ early' = early
  BY DEF Inv, ReconcileConfirmations
<1>1. \A p \in Payment : receipts[p] \in Receipt /\ receipts[p].rev \in Nat
  BY <1>0 DEF JournalTypeOK, Receipt
<1>2. /\ \A p \in lost : p \in Payment /\ receipts[p].active /\ receipts[p].confirmed
                         /\ p \notin gained
      /\ \A p \in gained : p \in Payment /\ receipts[p].active /\ ~receipts[p].confirmed
  BY DEF Shallow, Deep
<1>3. /\ \A p : p \in told <=> p \in lost /\ Height[receipts[p].block] >= Floor
      /\ \A p : p \in heard <=> p \in gained /\ Height[receipts[p].block] >= Floor
  BY DEF AboveFloor
<1>4. \A p \in told \cup heard :
        p \in Payment /\ receipts[p].rev > 0 /\ receipts[p].block \in Block
  BY <1>2, <1>3 DEF Inv, ReceiptsMined
<1> DEFINE Revokes(e)  == /\ e.id.payment \in told /\ e.id.phase = "revoked"
                          /\ e.id.rev = receipts[e.id.payment].rev
           Observes(e) == /\ e.id.payment \in told /\ e.id.phase = "observed"
                          /\ e.id.rev = receipts[e.id.payment].rev + 1
           Confirms(e) == /\ e.id.payment \in heard /\ e.id.phase = "confirmed"
                          /\ e.id.rev = receipts[e.id.payment].rev
<1>5. /\ \A e \in Revocations(told) : /\ Revokes(e)
           /\ e = Body(Id(e.id.payment, receipts[e.id.payment].rev, "revoked"), receipts[e.id.payment].block)
      /\ \A e \in Observations(told) : /\ Observes(e)
           /\ e = Body(Id(e.id.payment, NextRev(e.id.payment), "observed"), receipts[e.id.payment].block)
      /\ \A e \in Confirmed(heard) : /\ Confirms(e)
           /\ e = Body(Id(e.id.payment, receipts[e.id.payment].rev, "confirmed"), receipts[e.id.payment].block)
  BY DEF Revocations, Observations, Confirmed, Body, Id, NextRev
<1>6. /\ \A p \in told : /\ \E e \in new : e.id = Id(p, receipts[p].rev, "revoked")
                         /\ \E e \in new : /\ e.id = Id(p, receipts[p].rev + 1, "observed")
                                           /\ e.block = receipts[p].block
      /\ \A p \in heard : \E e \in new : /\ e.id = Id(p, receipts[p].rev, "confirmed")
                                          /\ e.block = receipts[p].block
  <2>1. ASSUME NEW p \in told
        PROVE  /\ Body(Id(p, receipts[p].rev, "revoked"), receipts[p].block) \in new
               /\ Body(Id(p, receipts[p].rev + 1, "observed"), receipts[p].block) \in new
    BY DEF Revocations, Observations, NextRev
  <2>2. ASSUME NEW p \in heard
        PROVE  Body(Id(p, receipts[p].rev, "confirmed"), receipts[p].block) \in new
    BY DEF Confirmed
  <2> QED
    BY <2>1, <2>2 DEF Body
<1>7. new \subseteq [id : EventId, block : Block]
  BY <1>1, <1>4 DEF Revocations, Observations, Confirmed, NextRev, Body, Id, EventId, Phase, Positive
<1>8. IsFiniteSet(new)
  <2>1. IsFiniteSet(Revocations(told))
    BY <1>4, <1>5, OnePerPaymentFinite
  <2>2. IsFiniteSet(Observations(told))
    BY <1>4, <1>5, OnePerPaymentFinite
  <2>3. IsFiniteSet(Confirmed(heard))
    BY <1>4, <1>5, OnePerPaymentFinite
  <2> QED
    BY <2>1, <2>2, <2>3, FS_Union
<1>9. \A e \in new : /\ Revokes(e) \/ Observes(e) \/ Confirms(e)
                     /\ e.block = receipts[e.id.payment].block
  BY <1>5 DEF Body
<1> HIDE DEF new, told, heard, lost, gained
<1>10. /\ events' \subseteq [id : EventId, block : Block, seq : Nat]
       /\ lastSeq' \in Nat
       /\ subs' \subseteq Consumer \X Payment
       /\ queued' \subseteq Consumer \X EventId
       /\ queued \subseteq queued'
       /\ Published' = Published \cup {e.id : e \in new}
       /\ events \subseteq events'
       /\ \A e \in new : \E f \in events' : f.id = e.id /\ f.block = e.block
       /\ \A f \in events' :
            f \in events \/ \E e \in new : f.id = e.id /\ f.block = e.block
  BY <1>0, <1>7, <1>8, PublishEffect
<1>11. /\ DeliveriesBacked'
       /\ \A d \in queued' : d \in queued \/ \E e \in new : d[2] = e.id
       /\ \A e \in new, c \in Consumer :
            e.id.phase = "revoked" /\ <<c, e.id.payment>> \in subs => <<c, e.id>> \in queued'
  BY <1>0, <1>7, <1>8, PublishQueues DEF Inv
<1>12. Published \subseteq EventId /\ Published' \subseteq EventId
  <2>1. Published \subseteq EventId
    BY DEF Inv, Published, JournalTypeOK
  <2>2. {e.id : e \in new} \subseteq EventId
    BY <1>7
  <2> QED
    BY <2>1, <2>2, <1>10
<1>13. \A p \in Payment :
          /\ p \in lost => receipts'[p].rev = receipts[p].rev + 1
          /\ p \notin lost => receipts'[p].rev = receipts[p].rev
          /\ receipts'[p].block = receipts[p].block
          /\ receipts'[p].active = receipts[p].active
          /\ p \in lost => receipts'[p].confirmed = FALSE
          /\ p \in gained => receipts'[p].confirmed = TRUE
          /\ p \notin lost /\ p \notin gained => receipts'[p].confirmed = receipts[p].confirmed
  <2> SUFFICES ASSUME NEW p \in Payment
               PROVE  /\ p \in lost => receipts'[p].rev = receipts[p].rev + 1
                      /\ p \notin lost => receipts'[p].rev = receipts[p].rev
                      /\ receipts'[p].block = receipts[p].block
                      /\ receipts'[p].active = receipts[p].active
                      /\ p \in lost => receipts'[p].confirmed = FALSE
                      /\ p \in gained => receipts'[p].confirmed = TRUE
                      /\ p \notin lost /\ p \notin gained => receipts'[p].confirmed = receipts[p].confirmed
    OBVIOUS
  <2>1. receipts[p] = [rev |-> receipts[p].rev, block |-> receipts[p].block,
                       active |-> receipts[p].active, confirmed |-> receipts[p].confirmed]
    BY <1>1 DEF Receipt
  <2>2. receipts[p].confirmed \in BOOLEAN
    BY <1>1 DEF Receipt
  <2>3. receipts'[p] = [receipts[p] EXCEPT
              !.confirmed = (@ /\ p \notin lost) \/ p \in gained,
              !.rev = IF p \in lost THEN NextRev(p) ELSE @]
    BY <1>0
  <2>4. /\ receipts'[p].block = receipts[p].block
        /\ receipts'[p].active = receipts[p].active
        /\ receipts'[p].confirmed = ((receipts[p].confirmed /\ p \notin lost) \/ p \in gained)
    BY <2>1, <2>3
  <2>5. receipts'[p].rev = IF p \in lost THEN NextRev(p) ELSE receipts[p].rev
    BY <2>1, <2>3
  <2>6. p \in lost => p \notin gained
    BY <1>2
  <2>7. /\ p \in lost => receipts'[p].confirmed = FALSE
        /\ p \in gained => receipts'[p].confirmed = TRUE
        /\ p \notin lost /\ p \notin gained => receipts'[p].confirmed = receipts[p].confirmed
    BY <2>2, <2>4, <2>6
  <2> QED
    BY <2>4, <2>5, <2>7 DEF NextRev
<1>14. JournalTypeOK'
  <2>1. receipts' \in [Payment -> Receipt]
    <3>1. ASSUME NEW p \in Payment
          PROVE  [receipts[p] EXCEPT
                    !.confirmed = (@ /\ p \notin lost) \/ p \in gained,
                    !.rev = IF p \in lost THEN NextRev(p) ELSE @] \in Receipt
      <4>1. (IF p \in lost THEN NextRev(p) ELSE receipts[p].rev) \in Nat
        BY <1>1 DEF NextRev
      <4>2. ((receipts[p].confirmed /\ p \notin lost) \/ p \in gained) \in BOOLEAN
        OBVIOUS
      <4> QED
        BY <4>1, <4>2, <1>1 DEF Receipt
    <3> QED
      BY <3>1, <1>0
  <2>2. acked' \subseteq queued'
    BY <1>0, <1>10 DEF JournalTypeOK, Superseded
  <2> QED
    BY <1>0, <1>10, <2>1, <2>2 DEF JournalTypeOK
<1>15. ReceiptsMined'
  <2> SUFFICES ASSUME NEW p \in Payment
               PROVE  /\ receipts'[p].active => receipts'[p].rev > 0
                      /\ receipts'[p].rev > 0 => receipts'[p].block \in Block
    BY DEF ReceiptsMined
  <2>1. /\ receipts[p].active => receipts[p].rev > 0
        /\ receipts[p].rev > 0 => receipts[p].block \in Block
    BY DEF Inv, ReceiptsMined
  <2>2. CASE p \in lost
    BY <2>1, <2>2, <1>1, <1>2, <1>13
  <2>3. CASE p \notin lost
    BY <2>1, <2>3, <1>13
  <2> QED
    BY <2>2, <2>3
<1>16. EventsBehindReceipts'
  <2> SUFFICES ASSUME NEW id \in Published'
               PROVE  /\ id.rev > 0
                      /\ id.rev <= receipts'[id.payment].rev
                      /\ id.rev = receipts'[id.payment].rev
                           => Height[receipts'[id.payment].block] >= Floor
    BY DEF EventsBehindReceipts
  <2>0. id.payment \in Payment /\ id.rev \in Nat
    BY <1>12 DEF EventId
  <2>1. CASE id \in Published
    BY <2>0, <2>1, <1>1, <1>13 DEF Inv, EventsBehindReceipts
  <2>2. CASE id \in {e.id : e \in new}
    BY <2>0, <2>2, <1>1, <1>3, <1>4, <1>9, <1>13
  <2> QED
    BY <1>10, <2>1, <2>2
<1>17. ConfirmedEventsConfirmed'
  <2> SUFFICES ASSUME NEW id \in Published', id.phase = "confirmed",
                      id.rev = receipts'[id.payment].rev
               PROVE  receipts'[id.payment].confirmed \/ ~receipts'[id.payment].active
    BY DEF ConfirmedEventsConfirmed
  <2>0. id.payment \in Payment /\ id.rev \in Nat
    BY <1>12 DEF EventId
  <2>1. CASE id \in Published
    <3>1. id.rev <= receipts[id.payment].rev
      BY <2>1 DEF Inv, EventsBehindReceipts
    <3>2. id.payment \notin lost /\ id.rev = receipts[id.payment].rev
      BY <2>0, <3>1, <1>1, <1>13
    <3>3. receipts[id.payment].confirmed \/ ~receipts[id.payment].active
      BY <2>1, <3>2 DEF Inv, ConfirmedEventsConfirmed
    <3> QED
      BY <2>0, <3>2, <3>3, <1>13
  <2>2. CASE id \in {e.id : e \in new}
    <3>1. id.payment \in gained
      BY <2>2, <1>3, <1>9
    <3> QED
      BY <2>0, <3>1, <1>13
  <2> QED
    BY <1>10, <2>1, <2>2
<1>18. RevocationIsFinal'
  <2> SUFFICES ASSUME NEW id \in Published', id.phase = "revoked"
               PROVE  \/ receipts'[id.payment].rev > id.rev
                      \/ receipts'[id.payment].rev = id.rev /\ ~receipts'[id.payment].active
    BY DEF RevocationIsFinal
  <2>0. id.payment \in Payment /\ id.rev \in Nat
    BY <1>12 DEF EventId
  <2>1. CASE id \in Published
    BY <2>0, <2>1, <1>1, <1>13 DEF Inv, RevocationIsFinal
  <2>2. CASE id \in {e.id : e \in new}
    <3>1. id.payment \in lost /\ id.rev = receipts[id.payment].rev
      BY <2>2, <1>3, <1>9
    <3> QED
      BY <2>0, <3>1, <1>1, <1>13
  <2> QED
    BY <1>10, <2>1, <2>2
<1>19. NoStalePositiveQueued'
  <2> SUFFICES ASSUME NEW d \in queued' \ acked', d[2].phase \in Positive
               PROVE  Current(d[2])'
    BY DEF NoStalePositiveQueued
  <2>0. d[2] \in EventId /\ d[2].payment \in Payment /\ d[2].rev \in Nat
    BY <1>10 DEF EventId
  <2>1. CASE d \in queued
    <3>1. Current(d[2])
      BY <2>1, <1>0 DEF Inv, NoStalePositiveQueued
    <3>2. d[2].payment \notin lost
      <4> SUFFICES ASSUME d[2].payment \in lost
                   PROVE  FALSE
        OBVIOUS
      <4>1. d[2] = Id(d[2].payment, receipts[d[2].payment].rev, d[2].phase)
        BY <2>0, <3>1 DEF Id, EventId, Current
      <4>2. d[2] \in PositiveIds(lost)
        BY <4>1 DEF PositiveIds
      <4> QED
        BY <2>1, <4>2, <1>0 DEF Superseded
    <3> QED
      BY <2>0, <3>1, <3>2, <1>13 DEF Current
  <2>2. CASE \E e \in new : d[2] = e.id
    <3>1. PICK e \in new : d[2] = e.id
      BY <2>2
    <3>2. CASE Observes(e)
      <4>1. /\ d[2].payment \in lost /\ d[2].phase = "observed"
            /\ d[2].rev = receipts[d[2].payment].rev + 1
        BY <3>1, <3>2, <1>3
      <4>2. receipts[d[2].payment].active = TRUE
        BY <4>1, <1>1, <1>2 DEF Receipt
      <4> QED
        BY <2>0, <4>1, <4>2, <1>13 DEF Current
    <3>3. CASE Confirms(e)
      <4>1. /\ d[2].payment \in gained /\ d[2].phase = "confirmed"
            /\ d[2].rev = receipts[d[2].payment].rev
        BY <3>1, <3>3, <1>3
      <4>2. receipts[d[2].payment].active = TRUE /\ d[2].payment \notin lost
        BY <4>1, <1>1, <1>2 DEF Receipt
      <4> QED
        BY <2>0, <4>1, <4>2, <1>13 DEF Current
    <3> QED
      BY <3>1, <3>2, <3>3, <1>9 DEF Positive
  <2> QED
    BY <1>11, <2>1, <2>2
<1>20. RevocationFollowsPositive'
  <2> SUFFICES ASSUME NEW d \in queued', d[2].phase \in Positive,
                      [d[2] EXCEPT !.phase = "revoked"] \in Published'
               PROVE  <<d[1], [d[2] EXCEPT !.phase = "revoked"]>> \in queued'
    BY DEF RevocationFollowsPositive
  <2> DEFINE rv == [d[2] EXCEPT !.phase = "revoked"]
  <2>0. /\ d[1] \in Consumer /\ d[2].payment \in Payment /\ d[2].rev \in Nat
        /\ rv.payment = d[2].payment /\ rv.rev = d[2].rev /\ rv.phase = "revoked"
    BY <1>10 DEF EventId
  <2>1. \/ rv \in Published
        \/ /\ rv \in {e.id : e \in new}
           /\ rv.payment \in told
           /\ rv.rev = receipts[rv.payment].rev
    <3>1. ASSUME NEW e \in new, rv = e.id
          PROVE  rv.payment \in told /\ rv.rev = receipts[rv.payment].rev
      <4>1. ~Observes(e) /\ ~Confirms(e)
        BY <2>0, <3>1
      <4> QED
        BY <3>1, <4>1, <1>9
    <3>2. rv \in Published'
      OBVIOUS
    <3>3. rv \in Published \/ \E e \in new : rv = e.id
      BY <3>2, <1>10
    <3> HIDE DEF rv
    <3> QED
      BY <3>1, <3>3
  <2>2. d \in queued
    <3> SUFFICES ASSUME NEW e \in new, d[2] = e.id
                 PROVE  FALSE
      BY <1>11
    <3>1. ASSUME rv \in Published
          PROVE  \/ d[2].rev < receipts[d[2].payment].rev
                 \/ d[2].rev = receipts[d[2].payment].rev /\ ~receipts[d[2].payment].active
      <4>1. \/ receipts[rv.payment].rev > rv.rev
            \/ receipts[rv.payment].rev = rv.rev /\ ~receipts[rv.payment].active
        BY <2>0, <3>1 DEF Inv, RevocationIsFinal
      <4>2. receipts[d[2].payment].rev \in Nat
        BY <2>0, <1>1
      <4> QED
        BY <2>0, <4>1, <4>2
    <3>2. CASE Observes(e)
      BY <2>0, <2>1, <3>1, <3>2, <1>1
    <3>3. CASE Confirms(e)
      BY <2>0, <2>1, <3>1, <3>3, <1>1, <1>2, <1>3
    <3> QED
      BY <3>2, <3>3, <1>9 DEF Positive
  <2>3. CASE rv \in Published
    BY <2>2, <2>3, <1>10 DEF Inv, RevocationFollowsPositive
  <2>4. CASE rv \in {e.id : e \in new}
    <3>1. <<d[1], rv.payment>> \in subs
      BY <2>0, <2>2 DEF Inv, DeliveriesBacked
    <3> QED
      BY <2>0, <2>4, <3>1, <1>11
  <2> QED
    BY <2>1, <2>3, <2>4
<1>21. PriorPositivesRevoked'
  <2> SUFFICES ASSUME NEW id \in Published', id.phase \in Positive,
                      id.rev < receipts'[id.payment].rev
               PROVE  Id(id.payment, id.rev, "revoked") \in Published'
    BY DEF PriorPositivesRevoked
  <2>0. id.payment \in Payment /\ id.rev \in Nat
    BY <1>12 DEF EventId
  <2>1. id \in Published
    <3> SUFFICES ASSUME NEW e \in new, id = e.id
                 PROVE  FALSE
      BY <1>10
    <3>1. CASE Observes(e)
      BY <2>0, <3>1, <1>1, <1>3, <1>13
    <3>2. CASE Confirms(e)
      BY <2>0, <3>2, <1>1, <1>2, <1>3, <1>13
    <3> QED
      BY <3>1, <3>2, <1>9 DEF Positive
  <2>2. CASE id.rev < receipts[id.payment].rev
    BY <2>1, <2>2, <1>10 DEF Inv, PriorPositivesRevoked
  <2>3. CASE id.rev = receipts[id.payment].rev
    <3>1. id.payment \in lost /\ Height[receipts[id.payment].block] >= Floor
      BY <2>0, <2>1, <2>3, <1>13 DEF Inv, EventsBehindReceipts
    <3>2. id.payment \in told
      BY <3>1, <1>3
    <3> QED
      BY <2>3, <3>2, <1>6, <1>10
  <2>4. id.rev <= receipts[id.payment].rev
    BY <2>1 DEF Inv, EventsBehindReceipts
  <2> QED
    BY <2>0, <2>2, <2>3, <2>4, <1>1
<1>22. CurrentEventRecorded'
  <2> SUFFICES ASSUME NEW p \in Payment, receipts'[p].rev > 0,
                      Height[receipts'[p].block] >= Floor
               PROVE  /\ \E e \in events' : /\ e.id = Id(p, receipts'[p].rev, CurrentPhase(receipts'[p]))
                                            /\ e.block = receipts'[p].block
                      /\ receipts'[p].active => \E i \in DOMAIN chain' : chain'[i] = receipts'[p].block
    BY DEF CurrentEventRecorded, CurrentPhase
  <2>1. receipts[p].rev > 0
    BY <1>2, <1>13 DEF Inv, ReceiptsMined
  <2>2. /\ \E e \in events : /\ e.id = Id(p, receipts[p].rev, CurrentPhase(receipts[p]))
                             /\ e.block = receipts[p].block
        /\ receipts[p].active => \E i \in DOMAIN chain : chain[i] = receipts[p].block
    BY <2>1, <1>13 DEF Inv, CurrentEventRecorded
  <2>6. receipts'[p].active => \E i \in DOMAIN chain' : chain'[i] = receipts'[p].block
    <3>1. chain' = chain
      BY <1>0
    <3> QED
      BY <2>2, <3>1, <1>13
  <2>3. CASE p \in lost
    <3>1. CurrentPhase(receipts'[p]) = "observed"
      BY <2>3, <1>2, <1>13 DEF CurrentPhase
    <3>2. p \in told
      BY <2>3, <1>3, <1>13
    <3>3. PICK e \in new : e.id = Id(p, receipts[p].rev + 1, "observed") /\ e.block = receipts[p].block
      BY <3>2, <1>6
    <3>4. e.id = Id(p, receipts'[p].rev, CurrentPhase(receipts'[p])) /\ e.block = receipts'[p].block
      BY <2>3, <3>1, <3>3, <1>13
    <3> QED
      BY <2>6, <3>4, <1>10
  <2>4. CASE p \in gained
    <3>1. CurrentPhase(receipts'[p]) = "confirmed" /\ p \notin lost
      BY <2>4, <1>2, <1>13 DEF CurrentPhase
    <3>2. p \in heard
      BY <2>4, <1>3, <1>13
    <3>3. PICK e \in new : e.id = Id(p, receipts[p].rev, "confirmed") /\ e.block = receipts[p].block
      BY <3>2, <1>6
    <3>4. e.id = Id(p, receipts'[p].rev, CurrentPhase(receipts'[p])) /\ e.block = receipts'[p].block
      BY <3>1, <3>3, <1>13
    <3> QED
      BY <2>6, <3>4, <1>10
  <2>5. CASE p \notin lost /\ p \notin gained
    <3>1. CurrentPhase(receipts'[p]) = CurrentPhase(receipts[p])
      BY <2>5, <1>1, <1>13 DEF CurrentPhase, Receipt
    <3>2. PICK e \in events : /\ e.id = Id(p, receipts[p].rev, CurrentPhase(receipts[p]))
                              /\ e.block = receipts[p].block
      BY <2>2
    <3>3. /\ e.id = Id(p, receipts'[p].rev, CurrentPhase(receipts'[p]))
          /\ e.block = receipts'[p].block /\ e \in events'
      BY <2>5, <3>1, <3>2, <1>10, <1>13
    <3> QED
      BY <2>6, <3>3
  <2> QED
    BY <2>3, <2>4, <2>5
<1>23. EventsAtReceipts'
  <2> SUFFICES ASSUME NEW f \in events', f.id.rev = receipts'[f.id.payment].rev
               PROVE  f.block = receipts'[f.id.payment].block
    BY DEF EventsAtReceipts
  <2>1. CASE f \in events
    <3>1. f.id \in Published /\ f.id.payment \in Payment /\ f.id.rev \in Nat
      BY <2>1, <1>12 DEF Published, EventId
    <3>2. f.id.rev <= receipts[f.id.payment].rev
      BY <3>1 DEF Inv, EventsBehindReceipts
    <3>3. f.id.rev = receipts[f.id.payment].rev
      BY <3>1, <3>2, <1>1, <1>13
    <3> QED
      BY <2>1, <3>1, <3>3, <1>13 DEF Inv, EventsAtReceipts
  <2>2. ASSUME NEW e \in new, f.id = e.id, f.block = e.block
        PROVE  f.block = receipts'[f.id.payment].block
    <3>1. e.id.payment \in told \cup heard /\ e.block = receipts[e.id.payment].block
      BY <2>2, <1>9
    <3> QED
      BY <2>2, <3>1, <1>4, <1>13
  <2> QED
    BY <1>10, <2>1, <2>2
<1> QED
  BY <1>11, <1>14, <1>15, <1>16, <1>17, <1>18, <1>19, <1>20, <1>21, <1>22, <1>23 DEF Inv
-----------------------------------------------------------------------------
(***************************************************************************)
(* The transactions that leave receipts and events alone.                  *)
(***************************************************************************)
\* Seven parts of the invariant speak of the chain, the receipts and the events
\* only.
LEMMA TablesKept ==
  ASSUME Inv, UNCHANGED <<chain, receipts, events>>
  PROVE  /\ Published' = Published
         /\ ReceiptsMined' /\ EventsBehindReceipts' /\ ConfirmedEventsConfirmed'
         /\ RevocationIsFinal' /\ PriorPositivesRevoked' /\ CurrentEventRecorded'
         /\ EventsAtReceipts'
<1>1. Published' = Published
  BY DEF Published
<1>2. ReceiptsMined'
  BY DEF Inv, ReceiptsMined
<1>3. EventsBehindReceipts'
  BY <1>1 DEF Inv, EventsBehindReceipts
<1>4. ConfirmedEventsConfirmed'
  BY <1>1 DEF Inv, ConfirmedEventsConfirmed
<1>5. RevocationIsFinal'
  BY <1>1 DEF Inv, RevocationIsFinal
<1>6. PriorPositivesRevoked' /\ CurrentEventRecorded'
  BY <1>1 DEF Inv, PriorPositivesRevoked, CurrentEventRecorded, CurrentPhase
<1>7. EventsAtReceipts'
  BY DEF Inv, EventsAtReceipts
<1> QED
  BY <1>1, <1>2, <1>3, <1>4, <1>5, <1>6, <1>7

\* A hook's success only shrinks the work that is still queued.
LEMMA AcknowledgeInv ==
  ASSUME Inv, NEW d \in queued, Acknowledge(d[1], d[2])
  PROVE  Inv'
<1>1. /\ UNCHANGED <<chain, receipts, events, lastSeq, subs, active, queued, early>>
      /\ acked' = acked \cup ({<<d[1], d[2]>>} \cap queued)
  BY DEF Acknowledge, tables
<1>2. JournalTypeOK'
  BY <1>1 DEF Inv, JournalTypeOK
<1>3. /\ Published' = Published
      /\ ReceiptsMined' /\ EventsBehindReceipts' /\ ConfirmedEventsConfirmed'
      /\ RevocationIsFinal' /\ PriorPositivesRevoked' /\ CurrentEventRecorded'
      /\ EventsAtReceipts'
  BY <1>1, TablesKept
<1>4. DeliveriesBacked'
  BY <1>1, <1>3 DEF Inv, DeliveriesBacked
<1>5. NoStalePositiveQueued'
  BY <1>1 DEF Inv, NoStalePositiveQueued, Current
<1>6. RevocationFollowsPositive'
  BY <1>1, <1>3 DEF Inv, RevocationFollowsPositive
<1> QED
  BY <1>2, <1>3, <1>4, <1>5, <1>6 DEF Inv

\* Opening the journal changes the configured consumers, not one row about them.
LEMMA OpenInv ==
  ASSUME Inv, NEW configured \in SUBSET Consumer, Open(configured)
  PROVE  Inv'
<1>1. /\ UNCHANGED <<chain, receipts, events, lastSeq, subs, queued, acked>>
      /\ active' = configured
      /\ early' = (early \/ configured \cap Observer # {})
  BY DEF Open, Register, tables, queues
<1>2. JournalTypeOK'
  BY <1>1 DEF Inv, JournalTypeOK
<1>3. /\ Published' = Published
      /\ ReceiptsMined' /\ EventsBehindReceipts' /\ ConfirmedEventsConfirmed'
      /\ RevocationIsFinal' /\ PriorPositivesRevoked' /\ CurrentEventRecorded'
      /\ EventsAtReceipts'
  BY <1>1, TablesKept
<1>4. DeliveriesBacked'
  BY <1>1, <1>3 DEF Inv, DeliveriesBacked
<1>5. NoStalePositiveQueued'
  BY <1>1 DEF Inv, NoStalePositiveQueued, Current
<1>6. RevocationFollowsPositive'
  BY <1>1, <1>3 DEF Inv, RevocationFollowsPositive
<1> QED
  BY <1>2, <1>3, <1>4, <1>5, <1>6 DEF Inv

\* A current positive event has no recorded revocation: the revision it belongs
\* to is still going on.
LEMMA CurrentNotRevoked ==
  ASSUME Inv, NEW id \in EventId, id.phase \in Positive, Current(id)
  PROVE  [id EXCEPT !.phase = "revoked"] \notin Published
<1> DEFINE rv == [id EXCEPT !.phase = "revoked"]
<1>1. /\ rv.payment = id.payment /\ rv.rev = id.rev /\ rv.phase = "revoked"
      /\ id.payment \in Payment /\ id.rev \in Nat
  BY DEF EventId
<1>2. receipts[id.payment].rev = id.rev /\ receipts[id.payment].active
  BY DEF Current, Positive
<1>3. rv \in Published => \/ receipts[rv.payment].rev > rv.rev
                          \/ receipts[rv.payment].rev = rv.rev /\ ~receipts[rv.payment].active
  BY <1>1 DEF Inv, RevocationIsFinal
<1> QED
  BY <1>1, <1>2, <1>3

\* Adding deliveries of published events to subscribers of their payments is
\* safe when each positive one among them is current.
LEMMA EnqueueInv ==
  ASSUME Inv, NEW D, D \subseteq Consumer \X Published,
         \A d \in D : d[2].phase \in Positive => Current(d[2]),
         UNCHANGED <<chain, receipts, events, lastSeq>>,
         subs' = subs \cup {<<d[1], d[2].payment>> : d \in D},
         queued' = queued \cup D, acked \ D \subseteq acked', acked' \subseteq acked,
         active' \subseteq Consumer, early' \in BOOLEAN
  PROVE  Inv'
<1>1. /\ Published' = Published
      /\ ReceiptsMined' /\ EventsBehindReceipts' /\ ConfirmedEventsConfirmed'
      /\ RevocationIsFinal' /\ PriorPositivesRevoked' /\ CurrentEventRecorded'
      /\ EventsAtReceipts'
  BY TablesKept
<1>2. Published \subseteq EventId /\ D \subseteq Consumer \X EventId
  BY DEF Inv, JournalTypeOK, Published
<1>3. JournalTypeOK'
  <2>1. {<<d[1], d[2].payment>> : d \in D} \subseteq Consumer \X Payment
    BY <1>2 DEF EventId
  <2> QED
    BY <1>2, <2>1 DEF Inv, JournalTypeOK
<1>4. DeliveriesBacked'
  <2> SUFFICES ASSUME NEW d \in queued'
               PROVE  d[2] \in Published' /\ <<d[1], d[2].payment>> \in subs'
    BY DEF DeliveriesBacked
  <2>1. CASE d \in queued
    BY <2>1, <1>1 DEF Inv, DeliveriesBacked
  <2>2. CASE d \in D
    BY <2>2, <1>1
  <2> QED
    BY <2>1, <2>2
<1>5. NoStalePositiveQueued'
  <2> SUFFICES ASSUME NEW d \in queued' \ acked', d[2].phase \in Positive
               PROVE  Current(d[2])'
    BY DEF NoStalePositiveQueued
  <2>1. Current(d[2])
    BY DEF Inv, NoStalePositiveQueued
  <2> QED
    BY <2>1 DEF Current
<1>6. RevocationFollowsPositive'
  <2> SUFFICES ASSUME NEW d \in queued', d[2].phase \in Positive,
                      [d[2] EXCEPT !.phase = "revoked"] \in Published
               PROVE  <<d[1], [d[2] EXCEPT !.phase = "revoked"]>> \in queued'
    BY <1>1 DEF RevocationFollowsPositive
  <2>1. d \notin D
    <3>1. d \in D => d[2] \in EventId
      BY <1>2
    <3> QED
      BY <3>1, CurrentNotRevoked
  <2> QED
    BY <2>1 DEF Inv, RevocationFollowsPositive
<1> QED
  BY <1>1, <1>3, <1>4, <1>5, <1>6 DEF Inv

\* A replay queues a current event again.
LEMMA ReplayInv ==
  ASSUME JournalAssumption, Inv, NEW c \in Consumer, NEW id \in Published, Replay(c, id)
  PROVE  Inv'
<1> DEFINE D == {<<c, id>>}
<1>1. /\ UNCHANGED <<chain, receipts, events, lastSeq, active, early>>
      /\ subs' = subs \cup {<<c, id.payment>>}
      /\ queued' = queued \cup D
      /\ acked' = acked \ D
      /\ Current(id)
  BY DEF Replay, Replayable
<1>2. {<<d[1], d[2].payment>> : d \in D} = {<<c, id.payment>>}
  OBVIOUS
<1>3. D \subseteq Consumer \X Published /\ \A d \in D : Current(d[2])
  BY <1>1
<1>4. active' \subseteq Consumer /\ early' \in BOOLEAN
  BY <1>1 DEF Inv, JournalTypeOK
<1> HIDE DEF D
<1> QED
  BY <1>1, <1>2, <1>3, <1>4, EnqueueInv

\* The handoff queues only what its consumers are entitled to, and a positive
\* event is never entitled unless it is current.
LEMMA EnqueueMissingInv ==
  ASSUME JournalAssumption, Inv, NEW configured \in SUBSET Consumer,
         EnqueueMissing(configured)
  PROVE  Inv'
<1> DEFINE D == Eligible(configured)
<1>1. /\ UNCHANGED <<chain, receipts, events, lastSeq, acked>>
      /\ active' = configured
      /\ early' = (early \/ configured \cap Observer # {})
      /\ subs' = subs \cup {<<d[1], d[2].payment>> : d \in D}
      /\ queued' = queued \cup D
  BY DEF EnqueueMissing, Register
<1>2. D \subseteq Consumer \X Published
  BY DEF Eligible
<1>3. ASSUME NEW d \in D, d[2].phase \in Positive
      PROVE  Current(d[2])
  <2>1. EntitledCurrent(d[1], d[2])
    BY <1>3 DEF Eligible, EntitledHistory, Positive
  <2>2. d[2].payment \in Payment
    BY <1>2 DEF Inv, JournalTypeOK, Published, EventId
  <2>3. receipts[d[2].payment].active \in BOOLEAN
    BY <2>2 DEF Inv, JournalTypeOK, Receipt
  <2>4. /\ receipts[d[2].payment].rev = d[2].rev
        /\ receipts[d[2].payment].active = TRUE
        /\ d[2].phase = "confirmed" => receipts[d[2].payment].confirmed
    BY <1>3, <2>1, <2>3 DEF EntitledCurrent, Positive
  <2> QED
    BY <1>3, <2>4 DEF Current, Positive
<1>4. active' \subseteq Consumer /\ early' \in BOOLEAN
  BY <1>1 DEF Inv, JournalTypeOK
<1> HIDE DEF D
<1> QED
  BY <1>1, <1>2, <1>3, <1>4, EnqueueInv

-----------------------------------------------------------------------------
(***************************************************************************)
(* Every reachable journal.                                                *)
(***************************************************************************)
\* One transaction of the journal, whoever runs it, keeps the invariant.
LEMMA NextInv ==
  ASSUME JournalAssumption, Inv, [JournalNext]_jvars
  PROVE  Inv'
<1>1. ASSUME NEW configured \in SUBSET Consumer, Open(configured)
      PROVE  Inv'
  BY <1>1, OpenInv
<1>2. ASSUME NEW configured \in SUBSET Consumer, EnqueueMissing(configured)
      PROVE  Inv'
  BY <1>2, EnqueueMissingInv
<1>3. ASSUME NEW b \in Block, NEW confirmed \in BOOLEAN, AppendState(b, confirmed)
      PROVE  Inv'
  BY <1>3, AppendInv
<1>4. CASE RollbackOne
  BY <1>4, RollbackInv
<1>5. ASSUME NEW safe \in {Height[b] : b \in Block}, ReconcileConfirmations(safe)
      PROVE  Inv'
  <2>1. safe \in Nat
    BY DEF JournalAssumption
  <2> QED
    BY <1>5, <2>1, ReconcileInv
<1>6. ASSUME NEW d \in queued, Acknowledge(d[1], d[2])
      PROVE  Inv'
  BY <1>6, AcknowledgeInv
<1>7. ASSUME NEW c \in Consumer, NEW id \in Published, Replay(c, id)
      PROVE  Inv'
  BY <1>7, ReplayInv
<1>8. CASE UNCHANGED jvars
  <2>1. UNCHANGED <<chain, receipts, events, lastSeq, active, subs, queued, acked, early>>
    BY <1>8 DEF jvars
  <2>2. Published' = Published
    BY <2>1 DEF Published
  <2>3. JournalTypeOK' /\ DeliveriesBacked' /\ NoStalePositiveQueued' /\ RevocationFollowsPositive'
    BY <2>1, <2>2 DEF Inv, JournalTypeOK, DeliveriesBacked, NoStalePositiveQueued, Current,
                      RevocationFollowsPositive
  <2> QED
    BY <2>1, <2>3, TablesKept DEF Inv
<1> QED
  BY <1>1, <1>2, <1>3, <1>4, <1>5, <1>6, <1>7, <1>8 DEF JournalNext

\* The journal's invariant, the strengthening the theorems below rest on.
THEOREM JournalInvariant == JournalSpec => []Inv
<1>1. JournalInit => Inv
  BY JournalAssumption, InitInv
<1>2. Inv /\ [JournalNext]_jvars => Inv'
  BY JournalAssumption, NextInv
<1> QED
  BY <1>1, <1>2, PTL DEF JournalSpec

\* Type correctness of the tables.
THEOREM TypeCorrect == JournalSpec => []JournalTypeOK
<1>1. Inv => JournalTypeOK
  BY DEF Inv
<1> QED
  BY <1>1, JournalInvariant, PTL

\* A recorded revocation is final: its revision never comes back, not even when
\* the block that held the payment becomes canonical again.
THEOREM RevocationsAreFinal == JournalSpec => []RevocationIsFinal
<1>1. Inv => RevocationIsFinal
  BY DEF Inv
<1> QED
  BY <1>1, JournalInvariant, PTL

\* No worker can be handed a positive event that has gone stale: what is queued
\* and not acknowledged is what the receipt says now.
THEOREM NoStaleWork == JournalSpec => []NoStalePositiveQueued
<1>1. Inv => NoStalePositiveQueued
  BY DEF Inv
<1> QED
  BY <1>1, JournalInvariant, PTL

\* Whoever was handed a positive event of a revision is handed the revision's
\* revocation too, however it came to be subscribed.
THEOREM RevocationsReachThePaid == JournalSpec => []RevocationFollowsPositive
<1>1. Inv => RevocationFollowsPositive
  BY DEF Inv
<1> QED
  BY <1>1, JournalInvariant, PTL

\* Every journal the daemon writes passes the lineage checks of handoff_plan, for
\* whichever consumers they are made.
THEOREM LineageIsComplete == JournalSpec => []LineageComplete
<1>1. ASSUME Inv PROVE LineageComplete
  <2>1. ASSUME NEW configured \in SUBSET Consumer
        PROVE  CurrentObservationAgrees(configured)
    BY <1>1 DEF Inv, EventsAtReceipts, CurrentObservationAgrees
  <2> QED
    BY <1>1, <2>1 DEF Inv, LineageComplete, PlanAccepted
<1> QED
  BY <1>1, JournalInvariant, PTL

\* Acknowledgements are durable but for an operator's replay of a current event,
\* and no transaction drops an event or a delivery.
THEOREM AcknowledgementsAreDurable == JournalSpec => AcksAreDurable
<1> DEFINE Durable == /\ events \subseteq events'
                      /\ queued \subseteq queued'
                      /\ \A d \in acked \ acked' : d[1] \in active /\ Current(d[2])
<1>1. ASSUME NEW new, Publish(new)
      PROVE  events \subseteq events' /\ queued \subseteq queued'
  BY <1>1 DEF Publish
<1>2. ASSUME [JournalNext]_jvars
      PROVE  [Durable]_jvars
  <2>1. ASSUME NEW configured \in SUBSET Consumer,
               Open(configured) \/ EnqueueMissing(configured)
        PROVE  Durable
    BY <2>1 DEF Open, EnqueueMissing, Register, tables, queues
  <2>2. ASSUME NEW b \in Block, NEW confirmed \in BOOLEAN, AppendState(b, confirmed)
        PROVE  Durable
    <3>1. acked' = acked /\ \E new : Publish(new)
      BY <2>2 DEF AppendState
    <3> QED
      BY <3>1, <1>1
  <2>3. CASE RollbackOne
    <3>1. acked \subseteq acked' /\ \E new : Publish(new)
      BY <2>3 DEF RollbackOne
    <3> QED
      BY <3>1, <1>1
  <2>4. ASSUME NEW safe, ReconcileConfirmations(safe)
        PROVE  Durable
    <3>1. acked \subseteq acked' /\ \E new : Publish(new)
      BY <2>4 DEF ReconcileConfirmations
    <3> QED
      BY <3>1, <1>1
  <2>5. ASSUME NEW d \in queued, Acknowledge(d[1], d[2])
        PROVE  Durable
    BY <2>5 DEF Acknowledge, tables
  <2>6. ASSUME NEW c \in Consumer, NEW id \in Published, Replay(c, id)
        PROVE  Durable
    <3>1. /\ UNCHANGED events /\ queued \subseteq queued'
          /\ acked' = acked \ {<<c, id>>} /\ c \in active /\ Current(id)
      BY <2>6 DEF Replay, Replayable
    <3>2. \A d \in acked \ acked' : d[1] = c /\ d[2] = id
      BY <3>1
    <3> QED
      BY <3>1, <3>2
  <2> QED
    BY <1>2, <2>1, <2>2, <2>3, <2>4, <2>5, <2>6 DEF JournalNext
<1> QED
  BY <1>2, PTL DEF JournalSpec, AcksAreDurable
=============================================================================
