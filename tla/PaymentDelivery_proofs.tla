------------------------ MODULE PaymentDelivery_proofs ------------------------
(***************************************************************************)
(* Proofs about the workers of the payment daemon, for every block tree,   *)
(* every scan, any number of consumers, crashes and replays: no delivery   *)
(* is lost, none is made against the log's order, and every hook call      *)
(* keeps the promise of PaymentPromise.  And about the composed daemon: it *)
(* implements PaymentDelivery, and the work it offers is canonical.        *)
(***************************************************************************)
EXTENDS PaymentDaemon, PaymentScanner_proofs

-----------------------------------------------------------------------------
(***************************************************************************)
(* The order of the event log.                                             *)
(***************************************************************************)
Numbered == \A e \in events : e.seq <= lastSeq

OnePerId == \A e, f \in events : e.id = f.id => e = f

\* The story of a payment is told revision by revision.
InOrder ==
  \A e, f \in events :
    e.id.payment = f.id.payment /\ e.id.rev < f.id.rev => e.seq < f.seq

RevsBounded == \A p \in Payment : receipts[p].rev <= MaxRev

LogOrder == Numbered /\ OnePerId /\ InOrder /\ RevsBounded

\* Publishing keeps the order if it adds nothing that is there, nothing older
\* than what is there, and two events of a payment only behind a revocation.
LEMMA PublishOrder ==
  ASSUME JournalTypeOK, LogOrder, NEW new, IsFiniteSet(new),
         new \subseteq [id : EventId, block : Block], Publish(new),
         \A x \in new : x.id \notin Published,
         \A x \in new : \A id \in Published : id.payment = x.id.payment => id.rev <= x.id.rev,
         \A x, y \in new : x.id = y.id => x = y,
         \A x, y \in new : x.id.payment = y.id.payment /\ x.id.rev < y.id.rev
                             => x.id.phase = "revoked"
  PROVE  Numbered' /\ OnePerId' /\ InOrder'
<1>1. Cardinality(new) \in Nat /\ lastSeq \in Nat
  BY FS_CardinalityType DEF JournalTypeOK
<1>2. PICK n \in Numberings(new) :
        events' = events \cup {[id |-> e.id, block |-> e.block, seq |-> n[e]] : e \in new}
  BY DEF Publish
<1>3. /\ n \in [new -> lastSeq + 1 .. lastSeq + Cardinality(new)]
      /\ \A x, y \in new : n[x] = n[y] => x = y
      /\ \A x, y \in new : x.id.payment = y.id.payment /\ x.id.phase = "revoked" /\ x # y
                             => n[y] = n[x] + 1
  BY <1>2 DEF Numberings
<1>4. \A x \in new : n[x] \in Nat /\ lastSeq < n[x] /\ n[x] <= lastSeq + Cardinality(new)
  BY <1>1, <1>3
<1>5. lastSeq' = lastSeq + Cardinality(new)
  BY DEF Publish
<1>6. \A e \in events : e.id \in Published /\ e.seq \in Nat /\ e.seq <= lastSeq /\ e.id.rev \in Nat
  BY DEF LogOrder, Numbered, Published, JournalTypeOK, EventId
<1>7. \A x \in new : x.id.rev \in Nat
  BY DEF EventId
<1>8. \A e \in events' : e \in events \/ \E x \in new : e.id = x.id /\ e.seq = n[x] /\ e.block = x.block
  BY <1>2
<1>9. Numbered'
  BY <1>1, <1>4, <1>5, <1>6, <1>8 DEF Numbered
<1>10. OnePerId'
  <2> SUFFICES ASSUME NEW e \in events', NEW f \in events', e.id = f.id PROVE e = f
    BY DEF OnePerId
  <2>1. CASE e \in events /\ f \in events
    BY <2>1 DEF LogOrder, OnePerId
  <2>2. CASE e \notin events /\ f \notin events
    <3>1. PICK x \in new : e = [id |-> x.id, block |-> x.block, seq |-> n[x]]
      BY <1>2, <2>2
    <3>2. PICK y \in new : f = [id |-> y.id, block |-> y.block, seq |-> n[y]]
      BY <1>2, <2>2
    <3>3. x = y
      BY <3>1, <3>2
    <3> QED
      BY <3>1, <3>2, <3>3
  <2> QED
    BY <1>6, <1>8, <2>1, <2>2
<1>11. InOrder'
  <2> SUFFICES ASSUME NEW e \in events', NEW f \in events',
                      e.id.payment = f.id.payment, e.id.rev < f.id.rev
               PROVE  e.seq < f.seq
    BY DEF InOrder
  <2>1. CASE e \in events /\ f \in events
    BY <2>1 DEF LogOrder, InOrder
  <2>2. CASE e \in events /\ f \notin events
    BY <2>2, <1>1, <1>4, <1>6, <1>8
  <2>3. CASE e \notin events /\ f \in events
    BY <2>3, <1>6, <1>7, <1>8
  <2>4. CASE e \notin events /\ f \notin events
    <3>1. PICK x \in new : e.id = x.id /\ e.seq = n[x]
      BY <1>8, <2>4
    <3>2. PICK y \in new : f.id = y.id /\ f.seq = n[y]
      BY <1>8, <2>4
    <3>3. x # y
      BY <3>1, <3>2, <1>7
    <3>4. n[y] = n[x] + 1
      BY <3>1, <3>2, <3>3, <1>3
    <3> QED
      BY <3>1, <3>2, <3>4, <1>4
  <2> QED
    BY <2>1, <2>2, <2>3, <2>4
<1> QED
  BY <1>9, <1>10, <1>11

LEMMA AppendOrder ==
  ASSUME JournalAssumption, Inv, LogOrder, NEW b \in Block, NEW confirmed \in BOOLEAN,
         AppendState(b, confirmed)
  PROVE  LogOrder'
<1> DEFINE paid == Carries[b]
           phase == IF confirmed THEN "confirmed" ELSE "observed"
           new == IF Height[b] < Floor THEN {}
                  ELSE {Body(Id(p, NextRev(p), phase), b) : p \in paid}
<1>0. /\ JournalTypeOK /\ EventsBehindReceipts
      /\ paid \subseteq Payment
      /\ \A p \in paid : receipts[p].rev < MaxRev
      /\ receipts' = [p \in Payment |->
           IF p \in paid
             THEN [rev |-> NextRev(p), block |-> b, active |-> TRUE,
                   confirmed |-> confirmed]
             ELSE receipts[p]]
      /\ Publish(new)
  BY DEF Inv, AppendState, JournalAssumption
<1>1. \A p \in Payment : receipts[p].rev \in Nat
  BY <1>0 DEF JournalTypeOK, Receipt
<1>2. new \subseteq [id : EventId, block : Block]
  BY <1>0, <1>1 DEF Body, Id, EventId, Phase, Positive, NextRev
<1>3. \A e \in new : /\ e.id.payment \in paid
                     /\ e.id.rev = receipts[e.id.payment].rev + 1
                     /\ e = Body(Id(e.id.payment, NextRev(e.id.payment), phase), b)
  BY <1>0 DEF Body, Id, NextRev
<1>4. IsFiniteSet(new)
  BY <1>0, <1>3, OnePerPaymentFinite
<1> HIDE DEF new
<1>5. \A x \in new, id \in Published :
        id.payment = x.id.payment => id.rev < x.id.rev /\ id.rev <= x.id.rev
  <2> SUFFICES ASSUME NEW x \in new, NEW id \in Published, id.payment = x.id.payment
               PROVE  id.rev < x.id.rev /\ id.rev <= x.id.rev
    OBVIOUS
  <2>1. id.rev \in Nat /\ id.rev <= receipts[x.id.payment].rev
    BY <1>0 DEF EventsBehindReceipts, Published, JournalTypeOK, EventId
  <2> QED
    BY <2>1, <1>0, <1>1, <1>3
<1>6. \A x \in new : x.id \notin Published
  BY <1>0, <1>1, <1>3, <1>5
<1>7. \A x, y \in new : x.id.payment = y.id.payment => x = y
  BY <1>3
<1>8. \A x, y \in new : ~(x.id.payment = y.id.payment /\ x.id.rev < y.id.rev)
  BY <1>0, <1>1, <1>3
<1>9. Numbered' /\ OnePerId' /\ InOrder'
  BY <1>0, <1>2, <1>4, <1>5, <1>6, <1>7, <1>8, PublishOrder
<1>10. RevsBounded'
  BY <1>0, <1>1, JournalAssumption DEF LogOrder, RevsBounded, NextRev, JournalAssumption
<1> QED
  BY <1>9, <1>10 DEF LogOrder

LEMMA RollbackOrder ==
  ASSUME JournalAssumption, Inv, LogOrder, RollbackOne
  PROVE  LogOrder'
<1> DEFINE lost == Mined(Cursor)
           told == AboveFloor(lost)
           new == Revocations(told)
<1>0. /\ JournalTypeOK /\ EventsBehindReceipts /\ RevocationIsFinal /\ ReceiptsMined
      /\ receipts' = [p \in Payment |-> [receipts[p] EXCEPT !.active = @ /\ p \notin lost]]
      /\ Publish(new)
  BY DEF Inv, RollbackOne
<1>1. \A p \in Payment : receipts[p] \in Receipt /\ receipts[p].rev \in Nat
  BY <1>0 DEF JournalTypeOK, Receipt
<1>2. \A p \in told : p \in Payment /\ receipts[p].active /\ receipts[p].block \in Block
  BY <1>0 DEF AboveFloor, Mined, ReceiptsMined
<1>3. \A e \in new : /\ e.id.payment \in told
                     /\ e.id.rev = receipts[e.id.payment].rev
                     /\ e.id.phase = "revoked"
                     /\ e = Body(Id(e.id.payment, receipts[e.id.payment].rev, "revoked"),
                                 receipts[e.id.payment].block)
  BY DEF Revocations, Body, Id
<1>4. new \subseteq [id : EventId, block : Block]
  BY <1>1, <1>2 DEF Revocations, Body, Id, EventId, Phase
<1>5. IsFiniteSet(new)
  BY <1>2, <1>3, OnePerPaymentFinite
<1> HIDE DEF new, told, lost
<1>6. \A x \in new, id \in Published : id.payment = x.id.payment => id.rev <= x.id.rev
  BY <1>0, <1>3 DEF EventsBehindReceipts
<1>7. \A x \in new : x.id \notin Published
  BY <1>0, <1>1, <1>2, <1>3 DEF RevocationIsFinal
<1>8. Numbered' /\ OnePerId' /\ InOrder'
  BY <1>0, <1>3, <1>4, <1>5, <1>6, <1>7, PublishOrder
<1>9. RevsBounded'
  <2>1. \A p \in Payment : receipts'[p].rev = receipts[p].rev
    BY <1>0, <1>1 DEF Receipt
  <2> QED
    BY <2>1 DEF LogOrder, RevsBounded
<1> QED
  BY <1>8, <1>9 DEF LogOrder

LEMMA ReconcileOrder ==
  ASSUME JournalAssumption, Inv, LogOrder, NEW safe \in Nat, ReconcileConfirmations(safe)
  PROVE  LogOrder'
<1> DEFINE lost == Shallow(safe)
           gained == Deep(safe)
           told == AboveFloor(lost)
           heard == AboveFloor(gained)
           new == Revocations(told) \cup Observations(told) \cup Confirmed(heard)
<1>0. /\ JournalTypeOK /\ EventsBehindReceipts /\ RevocationIsFinal
      /\ ConfirmedEventsConfirmed /\ ReceiptsMined
      /\ \A p \in lost : receipts[p].rev < MaxRev
      /\ receipts' = [p \in Payment |->
           [receipts[p] EXCEPT
              !.confirmed = (@ /\ p \notin lost) \/ p \in gained,
              !.rev = IF p \in lost THEN NextRev(p) ELSE @]]
      /\ Publish(new)
  BY DEF Inv, ReconcileConfirmations
<1>1. \A p \in Payment : receipts[p] \in Receipt /\ receipts[p].rev \in Nat
  BY <1>0 DEF JournalTypeOK, Receipt
<1>2. /\ \A p \in told : p \in Payment /\ receipts[p].active /\ receipts[p].confirmed
                         /\ receipts[p].block \in Block
      /\ \A p \in heard : p \in Payment /\ receipts[p].active /\ ~receipts[p].confirmed
                         /\ receipts[p].block \in Block
  BY <1>0 DEF Shallow, Deep, AboveFloor, ReceiptsMined
<1> DEFINE Revokes(e)  == /\ e.id.payment \in told /\ e.id.phase = "revoked"
                          /\ e.id.rev = receipts[e.id.payment].rev
           Observes(e) == /\ e.id.payment \in told /\ e.id.phase = "observed"
                          /\ e.id.rev = receipts[e.id.payment].rev + 1
           Confirms(e) == /\ e.id.payment \in heard /\ e.id.phase = "confirmed"
                          /\ e.id.rev = receipts[e.id.payment].rev
<1>3. /\ \A e \in Revocations(told) : /\ Revokes(e)
           /\ e = Body(Id(e.id.payment, receipts[e.id.payment].rev, "revoked"), receipts[e.id.payment].block)
      /\ \A e \in Observations(told) : /\ Observes(e)
           /\ e = Body(Id(e.id.payment, NextRev(e.id.payment), "observed"), receipts[e.id.payment].block)
      /\ \A e \in Confirmed(heard) : /\ Confirms(e)
           /\ e = Body(Id(e.id.payment, receipts[e.id.payment].rev, "confirmed"), receipts[e.id.payment].block)
  BY DEF Revocations, Observations, Confirmed, Body, Id, NextRev
<1>4. new \subseteq [id : EventId, block : Block]
  BY <1>1, <1>2 DEF Revocations, Observations, Confirmed, NextRev, Body, Id, EventId, Phase, Positive
<1>5. IsFiniteSet(new)
  <2>1. IsFiniteSet(Revocations(told))
    BY <1>2, <1>3, OnePerPaymentFinite
  <2>2. IsFiniteSet(Observations(told))
    BY <1>2, <1>3, OnePerPaymentFinite
  <2>3. IsFiniteSet(Confirmed(heard))
    BY <1>2, <1>3, OnePerPaymentFinite
  <2> QED
    BY <2>1, <2>2, <2>3, FS_Union
<1>6. /\ \A e \in new : Revokes(e) \/ Observes(e) \/ Confirms(e)
      /\ \A e \in new : e.block = receipts[e.id.payment].block
  BY <1>3 DEF Body
<1>7. \A p \in told : p \notin heard
  BY <1>2
<1>8. \A e \in new : e = [id |-> e.id, block |-> e.block]
  BY <1>4
<1> HIDE DEF new, told, heard, lost, gained
<1>9. \A x \in new, id \in Published : id.payment = x.id.payment => id.rev <= x.id.rev
  <2> SUFFICES ASSUME NEW x \in new, NEW id \in Published, id.payment = x.id.payment
               PROVE  id.rev <= x.id.rev
    OBVIOUS
  <2>1. id.rev \in Nat /\ id.rev <= receipts[x.id.payment].rev
    BY <1>0 DEF EventsBehindReceipts, Published, JournalTypeOK, EventId
  <2> QED
    BY <2>1, <1>1, <1>2, <1>6
<1>10. \A x \in new : x.id \notin Published
  <2> SUFFICES ASSUME NEW x \in new, x.id \in Published PROVE FALSE
    OBVIOUS
  <2>1. x.id.rev <= receipts[x.id.payment].rev
    BY <1>0 DEF EventsBehindReceipts
  <2>2. CASE Revokes(x)
    <3>1. x.id.payment \in Payment /\ receipts[x.id.payment].active
          /\ x.id.rev = receipts[x.id.payment].rev /\ x.id.rev \in Nat
      BY <2>2, <1>1, <1>2
    <3>2. x.id.phase = "revoked"
      BY <2>2
    <3>3. RevocationIsFinal
      BY <1>0
    <3> QED
      BY <3>1, <3>2, <3>3 DEF RevocationIsFinal
  <2>3. CASE Observes(x)
    BY <2>1, <2>3, <1>1, <1>2
  <2>4. CASE Confirms(x)
    BY <2>4, <1>0, <1>2 DEF ConfirmedEventsConfirmed
  <2> QED
    BY <2>2, <2>3, <2>4, <1>6
<1>11. \A x, y \in new : x.id = y.id => x = y
  BY <1>6, <1>8
<1>12. ASSUME NEW x \in new, NEW y \in new, x.id.payment = y.id.payment, x.id.rev < y.id.rev
       PROVE  x.id.phase = "revoked"
  BY <1>12, <1>1, <1>2, <1>6, <1>7
<1>13. Numbered' /\ OnePerId' /\ InOrder'
  BY <1>0, <1>4, <1>5, <1>9, <1>10, <1>11, <1>12, PublishOrder
<1>14. RevsBounded'
  <2> SUFFICES ASSUME NEW p \in Payment PROVE receipts'[p].rev <= MaxRev
    BY DEF RevsBounded
  <2>1. receipts'[p].rev = IF p \in lost THEN receipts[p].rev + 1 ELSE receipts[p].rev
    BY <1>0, <1>1 DEF NextRev, Receipt
  <2> QED
    <3>1. CASE p \in lost
      <4>1. receipts[p].rev < MaxRev /\ MaxRev \in Nat /\ receipts[p].rev \in Nat
        BY <3>1, <1>0, <1>1 DEF JournalAssumption
      <4> QED
        BY <2>1, <3>1, <4>1
    <3>2. CASE p \notin lost
      BY <2>1, <3>2 DEF LogOrder, RevsBounded
    <3> QED
      BY <3>1, <3>2
<1> QED
  BY <1>13, <1>14 DEF LogOrder

\* Every transaction of the journal keeps the order.
LEMMA LogOrderStep ==
  ASSUME JournalAssumption, Inv, LogOrder, [JournalNext]_jvars
  PROVE  LogOrder'
<1>1. ASSUME NEW b \in Block, NEW confirmed \in BOOLEAN, AppendState(b, confirmed)
      PROVE  LogOrder'
  BY <1>1, AppendOrder
<1>2. CASE RollbackOne
  BY <1>2, RollbackOrder
<1>3. ASSUME NEW safe \in {Height[b] : b \in Block}, ReconcileConfirmations(safe)
      PROVE  LogOrder'
  BY <1>3, ReconcileOrder DEF JournalAssumption
<1>4. ASSUME UNCHANGED <<receipts, events, lastSeq>>
      PROVE  LogOrder'
  BY <1>4 DEF LogOrder, Numbered, OnePerId, InOrder, RevsBounded
<1> QED
  BY <1>1, <1>2, <1>3, <1>4
     DEF JournalNext, Open, EnqueueMissing, Acknowledge, Replay, tables, jvars

-----------------------------------------------------------------------------
(***************************************************************************)
(* What the workers rely on.                                               *)
(***************************************************************************)
\* The positive events the chain has superseded.
Stale == {id \in Published : id.phase \in Positive /\ ~Current(id)}

\* A worker that is in a hook, or past it, holds a delivery that was begun, and
\* a success whose effect was committed.
InHook == {"hook", "ack", "nack"}

WorkersHold ==
  \A c \in Consumer :
    /\ worker[c].stage \in InHook => <<c, worker[c].id>> \in begun
    /\ worker[c].stage = "ack" => <<c, worker[c].id>> \in done

DInv == Inv /\ LogOrder /\ TypeOK /\ WorkersHold /\ NothingLost

\* No transaction drops an event or a delivery.
LEMMA LogGrows ==
  ASSUME [JournalNext]_jvars
  PROVE  events \subseteq events' /\ queued \subseteq queued' /\ Published \subseteq Published'
<1>1. ASSUME NEW new, Publish(new)
      PROVE  events \subseteq events' /\ queued \subseteq queued'
  BY <1>1 DEF Publish
<1>2. events \subseteq events' /\ queued \subseteq queued'
  BY <1>1 DEF JournalNext, jvars, Open, EnqueueMissing, AppendState, RollbackOne,
    ReconcileConfirmations, Acknowledge, Replay, tables, queues
<1> QED
  BY <1>2 DEF Published

\* What is stale stays stale: no receipt goes back to a revision, and a revision
\* that was published as confirmed is confirmed until it is lost.
LEMMA StaleStays ==
  ASSUME JournalAssumption, Inv, [JournalNext]_jvars
  PROVE  Stale \subseteq Stale'
<1> SUFFICES ASSUME NEW id \in Stale PROVE ~Current(id)'
  BY LogGrows DEF Stale
<1>0. /\ id \in Published /\ id.phase \in Positive /\ ~Current(id)
      /\ id \in EventId /\ id.payment \in Payment /\ id.rev \in Nat
  BY DEF Stale, Published, Inv, JournalTypeOK, EventId
<1>1. /\ receipts[id.payment] \in Receipt /\ receipts[id.payment].rev \in Nat
      /\ receipts \in [Payment -> Receipt]
  BY <1>0 DEF Inv, JournalTypeOK, Receipt
<1>2. /\ id.rev <= receipts[id.payment].rev
      /\ id.phase = "confirmed" /\ id.rev = receipts[id.payment].rev
           => receipts[id.payment].confirmed \/ ~receipts[id.payment].active
  BY <1>0 DEF Inv, EventsBehindReceipts, ConfirmedEventsConfirmed
<1>3. id.rev < receipts[id.payment].rev \/ ~receipts[id.payment].active
  BY <1>0, <1>1, <1>2 DEF Current, Positive, Receipt
<1>4. ASSUME id.rev < receipts'[id.payment].rev \/ ~receipts'[id.payment].active
      PROVE  ~Current(id)'
  <2>1. receipts'[id.payment].rev # id.rev \/ ~receipts'[id.payment].active
    BY <1>0, <1>4
  <2> QED
    BY <1>0, <2>1 DEF Current, Positive
<1>5. ASSUME NEW b \in Block, NEW confirmed \in BOOLEAN, AppendState(b, confirmed)
      PROVE  ~Current(id)'
  <2>1. \/ receipts'[id.payment] = receipts[id.payment]
        \/ receipts'[id.payment].rev = receipts[id.payment].rev + 1
    BY <1>0, <1>5 DEF AppendState, NextRev
  <2> QED
    BY <2>1, <1>0, <1>1, <1>2, <1>3, <1>4
<1>6. CASE RollbackOne
  <2>1. /\ receipts'[id.payment].rev = receipts[id.payment].rev
        /\ receipts'[id.payment].active => receipts[id.payment].active
    BY <1>0, <1>1, <1>6 DEF RollbackOne, Receipt
  <2> QED
    BY <2>1, <1>0, <1>1, <1>3, <1>4
<1>7. ASSUME NEW safe \in {Height[b] : b \in Block}, ReconcileConfirmations(safe)
      PROVE  ~Current(id)'
  <2>1. /\ receipts'[id.payment].rev \in {receipts[id.payment].rev, receipts[id.payment].rev + 1}
        /\ receipts'[id.payment].active = receipts[id.payment].active
    BY <1>0, <1>1, <1>7 DEF ReconcileConfirmations, NextRev, Receipt
  <2> QED
    BY <2>1, <1>0, <1>1, <1>3, <1>4
<1>8. ASSUME UNCHANGED receipts PROVE ~Current(id)'
  BY <1>0, <1>3, <1>4, <1>8
<1> QED
  BY <1>5, <1>6, <1>7, <1>8
     DEF JournalNext, Open, EnqueueMissing, Acknowledge, Replay, tables, jvars

\* What a scan acknowledges unperformed is stale from then on.
LEMMA ScanSupersedes ==
  ASSUME JournalAssumption, Inv,
         \/ \E b \in Block, confirmed \in BOOLEAN : AppendState(b, confirmed)
         \/ RollbackOne
         \/ \E safe \in {Height[b] : b \in Block} : ReconcileConfirmations(safe)
  PROVE  \A d \in acked' : d \in acked \/ (d[2].phase \in Positive /\ ~Current(d[2])')
<1>0. receipts \in [Payment -> Receipt] /\ \A p \in Payment : receipts[p].rev \in Nat
  BY DEF Inv, JournalTypeOK, Receipt
<1>1. ASSUME NEW b \in Block, NEW confirmed \in BOOLEAN, AppendState(b, confirmed)
      PROVE  acked' = acked
  BY <1>1 DEF AppendState
<1>2. ASSUME RollbackOne, NEW d \in acked', d \notin acked
      PROVE  d[2].phase \in Positive /\ ~Current(d[2])'
  <2>1. PICK p \in Mined(Cursor), ph \in Positive : d[2] = Id(p, receipts[p].rev, ph)
    BY <1>2 DEF RollbackOne, Superseded, PositiveIds, AboveFloor
  <2>2. p \in Payment /\ ~receipts'[p].active
    BY <1>0, <1>2, <2>1 DEF RollbackOne, Mined, Receipt
  <2>3. d[2].payment = p /\ d[2].phase \in Positive
    BY <2>1 DEF Id
  <2>4. ~receipts'[d[2].payment].active
    BY <2>2, <2>3
  <2> QED
    BY <2>3, <2>4 DEF Current, Positive
<1>3. ASSUME NEW safe \in {Height[b] : b \in Block}, ReconcileConfirmations(safe),
             NEW d \in acked', d \notin acked
      PROVE  d[2].phase \in Positive /\ ~Current(d[2])'
  <2>1. PICK p \in Shallow(safe), ph \in Positive : d[2] = Id(p, receipts[p].rev, ph)
    <3>1. acked' = acked \cup Superseded(PositiveIds(Shallow(safe)))
      BY <1>3 DEF ReconcileConfirmations
    <3> QED
      BY <3>1, <1>3 DEF Superseded, PositiveIds
  <2>2. p \in Payment /\ receipts'[p].rev = receipts[p].rev + 1
    BY <1>0, <1>3, <2>1 DEF ReconcileConfirmations, Shallow, NextRev, Receipt
  <2>3. /\ d[2].payment = p /\ d[2].rev = receipts[p].rev /\ d[2].phase \in Positive
        /\ receipts[p].rev \in Nat
    BY <1>0, <2>1, <2>2 DEF Id
  <2>4. receipts'[d[2].payment].rev # d[2].rev
    BY <2>2, <2>3
  <2> QED
    BY <2>3, <2>4 DEF Current
<1> QED
  BY <1>1, <1>2, <1>3

\* Every step of the daemon is a transaction of the journal, or none.
LEMMA JournalStep ==
  ASSUME HealthAssumption, TypeOK, WorkersHold, [Next]_vars
  PROVE  [JournalNext]_jvars
<1>1. ASSUME NEW c \in Consumer, Record(c) PROVE [JournalNext]_jvars
  <2>1. CASE worker[c].stage = "ack"
    <3>1. <<c, worker[c].id>> \in queued
      BY <2>1 DEF WorkersHold, InHook, TypeOK
    <3>2. Acknowledge(c, worker[c].id)
      BY <1>1, <2>1 DEF Record
    <3> QED
      BY <3>1, <3>2 DEF JournalNext
  <2> QED
    BY <1>1, <2>1 DEF Record
<1>2. ASSUME NEW configured \in Configs,
             Start(configured) \/ OperatorOpen(configured) \/ OperatorHandoff(configured)
      PROVE  [JournalNext]_jvars
  BY <1>2 DEF HealthAssumption, Start, OperatorOpen, OperatorHandoff, JournalNext
<1>3. ASSUME NEW c \in Consumer, NEW id \in Published, OperatorReplay(c, id)
      PROVE  [JournalNext]_jvars
  BY <1>3 DEF OperatorReplay, JournalNext
<1>4. CASE ScanTransaction
  BY <1>4 DEF ScanTransaction, JournalNext, TypeOK, JournalTypeOK
<1>5. ASSUME UNCHANGED jvars PROVE [JournalNext]_jvars
  BY <1>5
<1> QED
  BY <1>1, <1>2, <1>3, <1>4, <1>5
     DEF Next, vars, Stop, Health, ReadGate, Take, HookSucceeds, HookFails, BackoffElapses

\* What a worker's stage says of its record.
LEMMA WorkerShape ==
  ASSUME TypeOK, NEW c \in Consumer
  PROVE  /\ worker[c].stage = "gate" => worker[c].ready \in BOOLEAN
         /\ worker[c].stage \in InHook =>
              /\ worker[c] = [stage |-> worker[c].stage, id |-> worker[c].id]
              /\ worker[c].id \in EventId
         /\ worker[c] = Idle => worker[c].stage = "idle"
<1>1. worker[c] \in Worker
  BY DEF TypeOK
<1> QED
  BY <1>1 DEF Worker, Idle, InHook

\* The workers' side of the types and of what they hold.
LEMMA WorkersStep ==
  ASSUME TypeOK, WorkersHold, JournalTypeOK', queued \subseteq queued', [Next]_vars
  PROVE  TypeOK' /\ WorkersHold' /\ done \subseteq done'
<1> USE WorkerShape
<1>1. CASE ScanTransaction \/ UNCHANGED vars
            \/ \E configured \in Configs : OperatorOpen(configured) \/ OperatorHandoff(configured)
  BY <1>1 DEF ScanTransaction, OperatorOpen, OperatorHandoff, vars, dvars, TypeOK, WorkersHold
<1>2. CASE \E configured \in Configs : Start(configured)
  BY <1>2 DEF Start, TypeOK, WorkersHold
<1>3. CASE Stop
  <2>1. worker' \in [Consumer -> Worker] /\ stops' \in 0 .. MaxStops
    BY <1>3, HealthAssumption DEF Stop, TypeOK, Worker, HealthAssumption
  <2>2. \A c \in Consumer : worker'[c].stage = "idle"
    BY <1>3 DEF Stop, Idle
  <2> QED
    BY <1>3, <2>1, <2>2 DEF Stop, TypeOK, WorkersHold, InHook
<1>4. CASE \E verdict \in BOOLEAN : Health(verdict)
  BY <1>4 DEF Health, TypeOK, WorkersHold
<1>5. CASE \E c \in Consumer, id \in Published : OperatorReplay(c, id)
  BY <1>5 DEF OperatorReplay, TypeOK, WorkersHold
<1>6. ASSUME NEW c \in Consumer, ReadGate(c) PROVE TypeOK' /\ WorkersHold' /\ done \subseteq done'
  BY <1>6 DEF ReadGate, TypeOK, WorkersHold, Worker, InHook
<1>7. ASSUME NEW c \in Consumer, Take(c) PROVE TypeOK' /\ WorkersHold' /\ done \subseteq done'
  <2>1. CASE worker' = [worker EXCEPT ![c] = Idle] /\ UNCHANGED begun
    BY <1>7, <2>1 DEF Take, TypeOK, WorkersHold, Worker, Idle, InHook
  <2>2. ASSUME NEW e \in events, <<c, e.id>> \in queued,
               worker' = [worker EXCEPT ![c] = [stage |-> "hook", id |-> e.id]],
               begun' = begun \cup {<<c, e.id>>}
        PROVE  TypeOK' /\ WorkersHold' /\ done \subseteq done'
    <3>1. e.id \in EventId
      BY DEF TypeOK, JournalTypeOK
    <3>2. worker' \in [Consumer -> Worker]
      BY <3>1, <2>2 DEF TypeOK, Worker
    <3> QED
      BY <1>7, <2>2, <3>2 DEF Take, TypeOK, WorkersHold, InHook
  <2> QED
    BY <1>7, <2>1, <2>2 DEF Take, QueueHead, Pending
<1>8. ASSUME NEW c \in Consumer, HookSucceeds(c) \/ HookFails(c)
      PROVE  TypeOK' /\ WorkersHold' /\ done \subseteq done'
  <2>1. /\ worker[c].stage = "hook" /\ worker[c].id \in EventId
        /\ worker[c] = [stage |-> "hook", id |-> worker[c].id]
        /\ <<c, worker[c].id>> \in begun
    BY <1>8 DEF HookSucceeds, HookFails, InHook, WorkersHold
  <2>2. PICK outcome \in {"ack", "nack"} :
          /\ worker' = [worker EXCEPT ![c] = [stage |-> outcome, id |-> worker[c].id]]
          /\ done' \in {done, done \cup {<<c, worker[c].id>>}}
          /\ outcome = "ack" => <<c, worker[c].id>> \in done'
    BY <1>8, <2>1 DEF HookSucceeds, HookFails, TypeOK
  <2>3. worker' \in [Consumer -> Worker]
    BY <2>1, <2>2 DEF TypeOK, Worker
  <2> QED
    BY <1>8, <2>1, <2>2, <2>3 DEF HookSucceeds, HookFails, TypeOK, WorkersHold, InHook
<1>9. ASSUME NEW c \in Consumer, Record(c) PROVE TypeOK' /\ WorkersHold' /\ done \subseteq done'
  <2>1. worker' = [worker EXCEPT ![c] = Idle] /\ UNCHANGED <<running, ready, begun, done, stops>>
    BY <1>9 DEF Record
  <2>2. waiting' \subseteq queued'
    BY <1>9 DEF Record, TypeOK, WorkersHold, InHook
  <2> QED
    BY <2>1, <2>2 DEF TypeOK, WorkersHold, Worker, Idle, InHook
<1>10. ASSUME NEW c \in Consumer, BackoffElapses(c) PROVE TypeOK' /\ WorkersHold' /\ done \subseteq done'
  BY <1>10 DEF BackoffElapses, TypeOK, WorkersHold
<1> QED
  BY <1>1, <1>2, <1>3, <1>4, <1>5, <1>6, <1>7, <1>8, <1>9, <1>10 DEF Next

\* No step loses a delivery.
LEMMA NothingLostStep ==
  ASSUME JournalAssumption, DInv, [Next]_vars, [JournalNext]_jvars, done \subseteq done'
  PROVE  NothingLost'
<1> SUFFICES ASSUME NEW d \in acked'
             PROVE  d \in done' \/ (d[2].phase \in Positive /\ ~Current(d[2])')
  BY DEF NothingLost
<1>1. CASE d \in acked
  <2>1. CASE d \in done
    BY <2>1
  <2>2. CASE d[2].phase \in Positive /\ ~Current(d[2])
    <3>1. d[2] \in Stale
      BY <1>1, <2>2 DEF DInv, TypeOK, JournalTypeOK, Inv, DeliveriesBacked, Stale
    <3>2. d[2] \in Stale'
      BY <3>1, StaleStays DEF DInv
    <3> QED
      BY <2>2, <3>2 DEF Stale
  <2> QED
    BY <1>1, <2>1, <2>2 DEF DInv, NothingLost
<1>2. CASE d \notin acked
  <2>1. CASE ScanTransaction
    BY <1>2, <2>1, ScanSupersedes DEF ScanTransaction, DInv, TypeOK, JournalTypeOK
  <2>2. ASSUME NEW c \in Consumer, Record(c) PROVE d \in done'
    BY <1>2, <2>2 DEF Record, Acknowledge, DInv, WorkersHold, jvars
  <2>3. CASE ~ScanTransaction /\ ~\E c \in Consumer : Record(c)
    BY <1>2, <2>3 DEF Next, vars, jvars, Start, OperatorOpen, OperatorHandoff, Open,
      EnqueueMissing, OperatorReplay, Replay, queues, Stop, Health, ReadGate, Take,
      HookSucceeds, HookFails, BackoffElapses
  <2> QED
    BY <2>1, <2>2, <2>3
<1> QED
  BY <1>1, <1>2

LEMMA DInvInit == Init => DInv
<1> SUFFICES ASSUME Init PROVE DInv
  OBVIOUS
<1>1. Inv
  BY JournalAssumption, InitInv DEF Init
<1>2. LogOrder
  BY JournalAssumption DEF Init, JournalInit, LogOrder, Numbered, OnePerId, InOrder,
    RevsBounded, JournalAssumption
<1>3. TypeOK
  <2>1. worker \in [Consumer -> Worker]
    BY DEF Init, Worker
  <2>2. stops \in 0 .. MaxStops
    BY HealthAssumption DEF Init, HealthAssumption
  <2> QED
    BY <1>1, <2>1, <2>2 DEF Init, Inv, TypeOK
<1>4. WorkersHold
  BY DEF Init, WorkersHold, Idle, InHook
<1>5. NothingLost
  BY DEF Init, JournalInit, NothingLost
<1> QED
  BY <1>1, <1>2, <1>3, <1>4, <1>5 DEF DInv

LEMMA DInvStep == DInv /\ [Next]_vars => DInv'
<1> SUFFICES ASSUME DInv, [Next]_vars PROVE DInv'
  OBVIOUS
<1>1. [JournalNext]_jvars
  BY JournalStep, HealthAssumption DEF DInv
<1>2. Inv' /\ LogOrder'
  BY <1>1, NextInv, LogOrderStep, JournalAssumption DEF DInv
<1>3. TypeOK' /\ WorkersHold' /\ done \subseteq done'
  BY <1>1, <1>2, WorkersStep, LogGrows DEF DInv, Inv
<1>4. NothingLost'
  BY <1>1, <1>3, NothingLostStep, JournalAssumption
<1> QED
  BY <1>2, <1>3, <1>4 DEF DInv

-----------------------------------------------------------------------------
(***************************************************************************)
(* Starting a hook.                                                        *)
(***************************************************************************)
\* Event e is what worker c takes.
Takes(c, e) ==
  /\ worker[c].stage = "gate" /\ worker' = [worker EXCEPT ![c] = [stage |-> "hook", id |-> e.id]]
  /\ begun' = begun \cup {<<c, e.id>>}
  /\ e \in QueueHead(c, worker[c].ready)
  /\ UNCHANGED <<jvars, done>>

\* No other step starts a hook or begins a delivery.
LEMMA OnlyTakes ==
  ASSUME TypeOK, [Next]_vars
  PROVE  /\ \/ UNCHANGED begun
            \/ \E c \in Consumer, e \in events : Takes(c, e)
         /\ \A c \in Consumer, id \in Published : Begins(c, id) =>
              \E e \in events : e.id = id /\ Takes(c, e)
<1>1. ASSUME NEW c \in Consumer, Take(c)
      PROVE  \/ \E e \in events : Takes(c, e)
             \/ worker' = [worker EXCEPT ![c] = Idle] /\ UNCHANGED begun
  BY <1>1 DEF Take, Takes, QueueHead, Pending
<1>2. ASSUME NEW c \in Consumer, NEW id \in Published, Begins(c, id)
      PROVE  Take(c)
  <2>1. worker'[c] # worker[c] /\ worker'[c].stage = "hook" /\ worker[c].stage = "gate"
    BY <1>2 DEF Begins
  <2>2. ASSUME NEW a \in Consumer,
               ReadGate(a) \/ HookSucceeds(a) \/ HookFails(a) \/ Record(a) \/ BackoffElapses(a)
        PROVE  FALSE
    <3>1. CASE a = c
      BY <2>1, <2>2, <3>1 DEF ReadGate, HookSucceeds, HookFails, Record, BackoffElapses, Idle, TypeOK
    <3>2. CASE a # c
      BY <2>1, <2>2, <3>2 DEF ReadGate, HookSucceeds, HookFails, Record, BackoffElapses, TypeOK
    <3> QED
      BY <3>1, <3>2
  <2>3. ASSUME NEW a \in Consumer, Take(a), a # c PROVE FALSE
    BY <1>1, <2>1, <2>3 DEF Takes, TypeOK
  <2>4. ASSUME Stop PROVE FALSE
    <3>1. worker'[c] = Idle /\ Idle.stage = "idle"
      BY <2>4 DEF Stop, Idle
    <3> QED
      BY <2>1, <3>1
  <2> QED
    BY <2>1, <2>2, <2>3, <2>4 DEF Next, vars, dvars, Start, OperatorOpen, OperatorHandoff,
      OperatorReplay, Health, ScanTransaction
<1>3. ASSUME NEW c \in Consumer, NEW id \in Published, Begins(c, id)
      PROVE  \E e \in events : e.id = id /\ Takes(c, e)
  <2>1. worker'[c] = [stage |-> "hook", id |-> id]
    BY <1>3 DEF Begins
  <2>2. PICK e \in events : Takes(c, e)
    BY <1>1, <1>2, <1>3, <2>1 DEF TypeOK, Idle
  <2>3. e.id = id
    BY <2>1, <2>2 DEF Takes, TypeOK
  <2> QED
    BY <2>2, <2>3
<1>4. UNCHANGED begun \/ \E c \in Consumer, e \in events : Takes(c, e)
  BY <1>1 DEF Next, vars, dvars, Start, OperatorOpen, OperatorHandoff, OperatorReplay, Stop,
    Health, ScanTransaction, ReadGate, HookSucceeds, HookFails, Record, BackoffElapses
<1> QED
  BY <1>3, <1>4

\* A positive event that is taken is current, and nothing of its consumer and
\* payment is pending before it.  A revocation is taken before all later work.
LEMMA HeadOfQueue ==
  ASSUME DInv, NEW c \in Consumer, NEW e \in events, e \in QueueHead(c, worker[c].ready)
  PROVE  /\ <<c, e.id>> \in queued /\ e.id \in Published
         /\ e.id.phase \in Positive => Current(e.id)
         /\ \A f \in events : f.id.payment = e.id.payment /\ f.seq < e.seq
              => <<c, f.id>> \notin queued \ acked
<1>1. /\ <<c, e.id>> \in queued \ acked
      /\ worker[c].ready \/ e.id.phase = "revoked"
      /\ \A f \in Pending(c, worker[c].ready) : e.seq <= f.seq
      /\ e.id \in Published
  BY DEF QueueHead, Pending, Published
<1>2. \A f \in events : f.id \in EventId /\ f.seq \in Nat /\ f.id \in Published
  BY DEF DInv, Inv, JournalTypeOK, Published
<1>3. ASSUME NEW d \in Consumer \X EventId, d \in queued \ acked, d[2].phase \in Positive
      PROVE  Current(d[2])
  BY <1>3 DEF DInv, Inv, NoStalePositiveQueued
<1>4. e.id.phase \in Positive => Current(e.id)
  BY <1>1, <1>2, <1>3
<1>5. ASSUME NEW f \in events, f.id.payment = e.id.payment, f.seq < e.seq,
             <<c, f.id>> \in queued \ acked
      PROVE  FALSE
  <2>1. f \notin Pending(c, worker[c].ready)
    BY <1>1, <1>2, <1>5
  <2>2. e.id.phase = "revoked" /\ f.id.phase \in Positive
    <3>1. ~worker[c].ready /\ f.id.phase # "revoked"
      BY <1>5, <2>1 DEF Pending
    <3> QED
      BY <1>1, <1>2, <3>1 DEF EventId, Phase
  <2>3. Current(f.id)
    BY <1>2, <1>3, <1>5, <2>2
  <2>4. /\ receipts[f.id.payment].rev = f.id.rev
        /\ receipts[f.id.payment].active
    BY <2>2, <2>3 DEF Current, Positive
  <2>5. \/ receipts[e.id.payment].rev > e.id.rev
        \/ receipts[e.id.payment].rev = e.id.rev /\ ~receipts[e.id.payment].active
    BY <1>1, <2>2 DEF DInv, Inv, RevocationIsFinal
  <2>6. e.id.rev < f.id.rev
    BY <1>2, <1>5, <2>4, <2>5 DEF EventId
  <2>7. e.seq < f.seq
    BY <1>5, <2>6 DEF DInv, LogOrder, InOrder
  <2> QED
    BY <1>2, <1>5, <2>7
<1> QED
  BY <1>1, <1>4, <1>5

\* The inductive invariant: the journal's, the log's order, what the workers
\* hold, and that nothing is lost.
THEOREM DeliveryInvariant == Spec => []DInv
  BY DInvInit, DInvStep, PTL DEF Spec

\* The workers' types, under any scan, crash and replay.
THEOREM DeliveryTypeCorrect == Spec => []TypeOK
<1>1. DInv => TypeOK
  BY DEF DInv
<1> QED
  BY <1>1, DeliveryInvariant, PTL

\* acknowledge() and the superseding transactions: what is acknowledged had its
\* effect, or is a positive event that the chain has taken back.
THEOREM NothingIsLost == Spec => []NothingLost
<1>1. DInv => NothingLost
  BY DEF DInv
<1> QED
  BY <1>1, DeliveryInvariant, PTL

\* next_for_automation(): a hook starts after everything earlier of its payment
\* is settled, although readiness and queue are read in two statements and
\* revocations overtake the rest.
THEOREM HooksGoInOrder == Spec => HooksInOrder
<1> DEFINE Ordered ==
      \A c \in Consumer, e, f \in events :
        /\ Begins(c, e.id)
        /\ f.id.payment = e.id.payment /\ f.seq < e.seq
        => <<c, f.id>> \notin queued \ acked
<1>1. ASSUME DInv, [Next]_vars PROVE Ordered
  <2> SUFFICES ASSUME NEW c \in Consumer, NEW e \in events, NEW f \in events,
                      Begins(c, e.id), f.id.payment = e.id.payment, f.seq < e.seq
               PROVE  <<c, f.id>> \notin queued \ acked
    OBVIOUS
  <2>1. PICK g \in events : g.id = e.id /\ Takes(c, g)
    BY <1>1, OnlyTakes DEF DInv, Published
  <2>2. g = e
    BY <1>1, <2>1 DEF DInv, LogOrder, OnePerId
  <2> QED
    BY <1>1, <2>1, <2>2, HeadOfQueue DEF Takes
<1>2. DInv /\ [Next]_vars => [Ordered]_vars
  BY <1>1
<1> QED
  BY <1>2, DeliveryInvariant, PTL DEF Spec, HooksInOrder

\* A revocation that a consumer's hook has begun is the last it hears of its
\* revision, and of all older ones.
THEOREM RevocationsAreLast == Spec => NoPositiveAfterRevocation
<1> DEFINE Last ==
      \A d \in begun' \ begun :
        d[2].phase \in Positive =>
          ~ \E e \in begun : /\ e[1] = d[1] /\ e[2].payment = d[2].payment
                             /\ e[2].phase = "revoked" /\ e[2].rev >= d[2].rev
<1>1. ASSUME DInv, [Next]_vars PROVE Last
  <2> SUFFICES ASSUME NEW d \in begun' \ begun, d[2].phase \in Positive,
                      NEW e \in begun, e[2].payment = d[2].payment,
                      e[2].phase = "revoked", e[2].rev >= d[2].rev
               PROVE  FALSE
    OBVIOUS
  <2>1. PICK c \in Consumer, g \in events : Takes(c, g)
    BY <1>1, OnlyTakes DEF DInv
  <2>2. d = <<c, g.id>>
    BY <2>1 DEF Takes
  <2>3. Current(g.id) /\ g.id.phase \in Positive
    BY <1>1, <2>1, <2>2, HeadOfQueue DEF Takes
  <2>4. e[2] \in Published
    BY <1>1 DEF DInv, TypeOK, Inv, DeliveriesBacked
  <2>5. \/ receipts[e[2].payment].rev > e[2].rev
        \/ receipts[e[2].payment].rev = e[2].rev /\ ~receipts[e[2].payment].active
    BY <1>1, <2>4 DEF DInv, Inv, RevocationIsFinal
  <2>6. /\ receipts[e[2].payment].rev = g.id.rev
        /\ receipts[e[2].payment].active
    BY <2>2, <2>3 DEF Current, Positive
  <2>7. g.id.rev \in Nat /\ e[2].rev \in Nat
    BY <1>1, <2>4 DEF DInv, Inv, JournalTypeOK, Published, EventId
  <2> QED
    BY <2>2, <2>5, <2>6, <2>7
<1>2. DInv /\ [Next]_vars => [Last]_vars
  BY <1>1
<1> QED
  BY <1>2, DeliveryInvariant, PTL DEF Spec, NoPositiveAfterRevocation

-----------------------------------------------------------------------------
(***************************************************************************)
(* The promise.                                                            *)
(***************************************************************************)
Granted == {<<d[1], d[2].payment, d[2].rev>> : d \in {x \in begun : x[2].phase \in Positive}}
Withdrawn == {<<id.payment, id.rev>> : id \in {i \in Published : i.phase = "revoked"}}
Corrected == {<<d[1], d[2].payment, d[2].rev>> : d \in {x \in done : x[2].phase = "revoked"}}

PromiseUnchanged ==
  Granted' = Granted /\ Withdrawn' = Withdrawn /\ Corrected' = Corrected

\* The log names revisions within the bound.
LEMMA RevisionsInRange ==
  DInv => \A id \in Published : id \in EventId /\ id.payment \in Payment /\ id.rev \in Revision
<1> SUFFICES ASSUME DInv, NEW id \in Published
             PROVE  id \in EventId /\ id.payment \in Payment /\ id.rev \in Revision
  OBVIOUS
<1>1. id \in EventId /\ id.payment \in Payment /\ id.rev \in Nat
  BY DEF DInv, Inv, JournalTypeOK, Published, EventId
<1>2. id.rev > 0 /\ id.rev <= receipts[id.payment].rev
  BY DEF DInv, Inv, EventsBehindReceipts
<1>3. receipts[id.payment].rev \in Nat /\ receipts[id.payment].rev <= MaxRev /\ MaxRev \in Nat
  BY <1>1, JournalAssumption
     DEF DInv, LogOrder, RevsBounded, Inv, JournalTypeOK, Receipt, JournalAssumption
<1> QED
  BY <1>1, <1>2, <1>3 DEF Revision

\* A revision a hook acts on is not withdrawn, and earlier ones it acted on
\* were corrected: their revocations are in its queue, before it.
LEMMA TakeGrants ==
  ASSUME DInv, NEW c \in Consumer, NEW e \in events, Takes(c, e), e.id.phase \in Positive
  PROVE  Promise!Grant(c, e.id.payment, e.id.rev)
<1> DEFINE p == e.id.payment
           r == e.id.rev
<1>1. /\ Current(e.id) /\ e.id \in Published
      /\ \A f \in events : f.id.payment = p /\ f.seq < e.seq => <<c, f.id>> \notin queued \ acked
  BY HeadOfQueue DEF Takes
<1>2. e.id \in EventId /\ p \in Payment /\ r \in Nat
  BY <1>1, RevisionsInRange DEF EventId
<1>3. receipts[p].rev = r /\ receipts[p].active
  BY <1>1 DEF Current, Positive
<1>4. <<p, r>> \notin Withdrawn
  <2> SUFFICES ASSUME NEW id \in Published, id.phase = "revoked", id.payment = p, id.rev = r
               PROVE  FALSE
    BY DEF Withdrawn
  <2> QED
    BY <1>2, <1>3 DEF DInv, Inv, RevocationIsFinal
<1>5. ASSUME NEW q \in Revision, q < r, <<c, p, q>> \in Granted
      PROVE  <<c, p, q>> \in Corrected
  <2>1. PICK d \in begun : d[2].phase \in Positive /\ d[1] = c /\ d[2].payment = p /\ d[2].rev = q
    BY <1>5 DEF Granted
  <2>2. d \in queued /\ d[2] \in Published /\ d[2] \in EventId
    BY RevisionsInRange DEF DInv, TypeOK, Inv, DeliveriesBacked
  <2> DEFINE rv == Id(p, q, "revoked")
  <2>3. rv = [d[2] EXCEPT !.phase = "revoked"]
    BY <2>1, <2>2 DEF Id, EventId
  <2>4. rv \in Published
    BY <1>3, <1>5, <2>1, <2>2 DEF DInv, Inv, PriorPositivesRevoked
  <2>5. <<c, rv>> \in queued
    BY <2>1, <2>2, <2>3, <2>4 DEF DInv, Inv, RevocationFollowsPositive
  <2>6. rv.payment = p /\ rv.rev = q /\ rv.phase = "revoked"
    BY DEF Id
  <2>7. PICK f \in events : f.id = rv
    BY <2>4 DEF Published
  <2> HIDE DEF rv
  <2>8. f.seq < e.seq
    BY <1>5, <2>6, <2>7 DEF DInv, LogOrder, InOrder
  <2>9. <<c, rv>> \in acked
    BY <1>1, <2>5, <2>6, <2>7, <2>8
  <2>10. <<c, rv>> \in done
    BY <2>6, <2>9 DEF DInv, NothingLost, Positive
  <2> QED
    BY <2>6, <2>10 DEF Corrected
<1>6. Granted' = Granted \cup {<<c, p, r>>}
  <2>1. begun' = begun \cup {<<c, e.id>>}
    BY DEF Takes
  <2>2. ASSUME NEW t \in Granted' PROVE t \in Granted \cup {<<c, p, r>>}
    <3>1. PICK d \in begun' : d[2].phase \in Positive /\ t = <<d[1], d[2].payment, d[2].rev>>
      BY <2>2 DEF Granted
    <3>2. CASE d \in begun
      BY <3>1, <3>2 DEF Granted
    <3>3. CASE d = <<c, e.id>>
      BY <3>1, <3>3
    <3> QED
      BY <2>1, <3>2, <3>3
  <2>3. Granted \subseteq Granted'
    BY <2>1 DEF Granted
  <2>4. <<c, p, r>> \in Granted'
    <3>1. PICK d \in begun' : d = <<c, e.id>>
      BY <2>1
    <3>2. d[1] = c /\ d[2] = e.id
      BY <3>1
    <3> QED
      BY <3>2 DEF Granted
  <2> QED
    BY <2>2, <2>3, <2>4
<1>7. Withdrawn' = Withdrawn /\ Corrected' = Corrected
  BY DEF Takes, Withdrawn, Corrected, Published, jvars
<1> QED
  BY <1>4, <1>5, <1>6, <1>7 DEF Promise!Grant, Granted, Withdrawn, Corrected

\* Every step is one of the promise's, or none.
LEMMA StepKeepsPromise ==
  ASSUME DInv, DInv', [Next]_vars
  PROVE  [Promise!Next]_(Promise!pvars)
<1> SUFFICES Promise!Next \/ PromiseUnchanged
  BY DEF PromiseUnchanged, Promise!pvars, Granted, Withdrawn, Corrected
<1>1. ASSUME NEW c \in Consumer, NEW e \in events, Takes(c, e)
      PROVE  Promise!Next \/ PromiseUnchanged
  <2>1. CASE e.id.phase \in Positive
    <3>1. e.id.payment \in Payment /\ e.id.rev \in Revision
      BY RevisionsInRange DEF Published
    <3> QED
      BY <1>1, <2>1, <3>1, TakeGrants DEF Promise!Next
  <2>2. CASE e.id.phase \notin Positive
    BY <1>1, <2>2 DEF Takes, PromiseUnchanged, Granted, Withdrawn, Corrected, Published, jvars
  <2> QED
    BY <2>1, <2>2
<1>2. ASSUME NEW c \in Consumer, HookSucceeds(c) \/ HookFails(c)
      PROVE  Promise!Next \/ PromiseUnchanged
  <2>1. PICK d \in begun : /\ d[1] = c
                           /\ UNCHANGED <<events, begun>>
                           /\ done' \in {done, done \cup {d}}
    <3>1. <<c, worker[c].id>> \in begun
      BY <1>2 DEF HookSucceeds, HookFails, DInv, WorkersHold, InHook
    <3> QED
      BY <1>2, <3>1 DEF HookSucceeds, HookFails, jvars
  <2>2. d[2] \in Published
    BY DEF DInv, TypeOK, Inv, DeliveriesBacked
  <2>3. Granted' = Granted /\ Withdrawn' = Withdrawn
    BY <2>1 DEF Granted, Withdrawn, Published
  <2>4. CASE d[2].phase # "revoked" \/ done' = done
    BY <2>1, <2>3, <2>4 DEF PromiseUnchanged, Corrected
  <2>5. CASE d[2].phase = "revoked" /\ done' = done \cup {d}
    <3>1. Corrected' = Corrected \cup {<<c, d[2].payment, d[2].rev>>}
      <4>1. ASSUME NEW t \in Corrected' PROVE t \in Corrected \cup {<<c, d[2].payment, d[2].rev>>}
        <5>1. PICK x \in done' : x[2].phase = "revoked" /\ t = <<x[1], x[2].payment, x[2].rev>>
          BY <4>1 DEF Corrected
        <5>2. CASE x \in done
          BY <5>1, <5>2 DEF Corrected
        <5>3. CASE x = d
          BY <2>1, <5>1, <5>3
        <5> QED
          BY <2>5, <5>2, <5>3
      <4>2. Corrected \subseteq Corrected'
        BY <2>5 DEF Corrected
      <4>3. <<d[1], d[2].payment, d[2].rev>> \in Corrected'
        BY <2>5 DEF Corrected
      <4> QED
        BY <2>1, <4>1, <4>2, <4>3
    <3>2. <<d[2].payment, d[2].rev>> \in Withdrawn
      BY <2>2, <2>5 DEF Withdrawn
    <3>3. d[2].payment \in Payment /\ d[2].rev \in Revision
      BY <2>2, RevisionsInRange
    <3>4. Promise!Correct(c, d[2].payment, d[2].rev)
      BY <2>3, <3>1, <3>2 DEF Promise!Correct, Granted, Withdrawn, Corrected
    <3> QED
      BY <3>3, <3>4 DEF Promise!Next
  <2> QED
    BY <2>1, <2>4, <2>5
<1>3. ASSUME UNCHANGED <<begun, done>> PROVE Promise!Next \/ PromiseUnchanged
  <2>1. Granted' = Granted /\ Corrected' = Corrected
    BY <1>3 DEF Granted, Corrected
  <2>2. Published \subseteq Published'
    BY LogGrows, JournalStep, HealthAssumption DEF DInv
  <2>3. Withdrawn \subseteq Withdrawn' /\ Withdrawn' \subseteq Payment \X Revision
    <3>1. (DInv => \A id \in Published :
                     id \in EventId /\ id.payment \in Payment /\ id.rev \in Revision)'
      BY RevisionsInRange, PTL
    <3>2. \A id \in Published' : id.payment \in Payment /\ id.rev \in Revision
      BY <3>1 DEF Revision
    <3> QED
      BY <2>2, <3>2 DEF Withdrawn
  <2>4. PICK revs \in SUBSET (Payment \X Revision) : revs = Withdrawn'
    BY <2>3
  <2>5. Promise!Withdraw(revs)
    BY <2>1, <2>3, <2>4 DEF Promise!Withdraw, Granted, Withdrawn, Corrected
  <2> QED
    BY <2>5 DEF Promise!Next
<1>4. UNCHANGED done \/ \E c \in Consumer : HookSucceeds(c) \/ HookFails(c)
  BY DEF Next, vars, dvars, Start, OperatorOpen, OperatorHandoff, OperatorReplay, Stop,
    Health, ScanTransaction, ReadGate, Take, Record, BackoffElapses
<1>5. UNCHANGED begun \/ \E c \in Consumer, e \in events : Takes(c, e)
  BY OnlyTakes DEF DInv
<1> QED
  BY <1>1, <1>2, <1>3, <1>4, <1>5

\* The daemon implements the safety half of its promise: no hook acts on a
\* revision that is withdrawn, nor on a new one before it was told of the
\* withdrawal of those it acted on.
THEOREM DaemonKeepsPromise == Spec => Promise!Safe
<1>1. Init => Promise!Init
  BY DEF Init, JournalInit, Promise!Init, Published
<1>2. DInv /\ DInv' /\ [Next]_vars => [Promise!Next]_(Promise!pvars)
  BY StepKeepsPromise
<1> QED
  BY DeliveryInvariant, <1>1, <1>2, PTL DEF Spec, Promise!Safe

-----------------------------------------------------------------------------
(***************************************************************************)
(* The daemon: scanner and workers over one journal.                       *)
(***************************************************************************)
\* What the scanner knows while a daemon runs.  Between two runs an operator
\* writes to the journal, and a killed daemon's readiness says nothing of that.
DaemonInv ==
  /\ Inv /\ ScanTypeOK /\ ScanChain /\ Evidence
  /\ running \in BOOLEAN
  /\ running <=> pc # "off"
  /\ running => ReadyIsCanonical

LEMMA RunningScan ==
  ASSUME DaemonInv, running
  PROVE  ScanInv /\ pc # "off"
  BY DEF DaemonInv, ScanInv

\* Nothing is evidence of a scan that is over.
LEMMA NoScanNoEvidence ==
  ASSUME pc' \notin Scanning
  PROVE  Evidence'
  BY DEF Evidence, Watching, NextAbove, TipSeen, CursorSeen, VerifiedSeen, DepthChecked,
         Scanning

\* An acknowledgement changes nothing a scan relies on.
LEMMA AcknowledgeKeepsScan ==
  ASSUME Inv, ScanTypeOK, ScanChain, Evidence, NEW c, NEW id, Acknowledge(c, id),
         UNCHANGED <<scanVars, ready, stops>>
  PROVE  /\ Inv' /\ ScanTypeOK' /\ ScanChain' /\ Evidence'
         /\ ReadyIsCanonical => ReadyIsCanonical'
<1>1. /\ UNCHANGED <<chain, receipts, events, lastSeq, subs, active, queued, early>>
      /\ acked' = acked \cup ({<<c, id>>} \cap queued)
  BY DEF Acknowledge, tables
<1>2. Inv'
  <2>1. CASE <<c, id>> \in queued
    <3>1. <<c, id>>[1] = c /\ <<c, id>>[2] = id
      OBVIOUS
    <3> QED
      BY <2>1, <3>1, AcknowledgeInv
  <2>2. CASE <<c, id>> \notin queued
    <3>1. UNCHANGED jvars
      BY <1>1, <2>2 DEF jvars
    <3> QED
      BY <3>1, JournalAssumption, NextInv
  <2> QED
    BY <2>1, <2>2
<1>3. UNCHANGED <<best, reorgs, tip, anchor, next, last, fetched, verified, pc, views,
                  fails, ready, stops>>
  BY DEF scanVars, node, local
<1>4. ScanTypeOK'
  BY <1>2, <1>3 DEF ScanTypeOK, Inv
<1>5. ScanChain'
  BY <1>1 DEF ScanChain, ChainLinked, ReceiptsOnChain, ObserversKnown
<1>6. Evidence'
  <2>1. Safe(verified)' = Safe(verified) /\ Cursor' = Cursor
    BY <1>1, <1>3 DEF Safe, Minus, Cursor
  <2> QED
    BY <1>1, <1>3, <2>1 DEF Evidence, Watching, NextAbove, TipSeen, CursorSeen,
                             VerifiedSeen, DepthChecked
<1>7. ReadyIsCanonical => ReadyIsCanonical'
  BY <1>1, <1>3, ReadyStays
<1> QED
  BY <1>2, <1>4, <1>5, <1>6, <1>7

\* The operator's commands enrol nobody as an observer behind the scan mode.
LEMMA HandoffChain ==
  ASSUME Inv, ScanChain, NEW configured \in SUBSET Consumer, EnqueueMissing(configured)
  PROVE  ScanChain'
<1>1. /\ UNCHANGED <<chain, receipts, events, lastSeq, acked>>
      /\ active' = configured
      /\ early' = (early \/ configured \cap Observer # {})
      /\ subs' = subs \cup {<<d[1], d[2].payment>> : d \in Eligible(configured)}
      /\ queued' = queued \cup Eligible(configured)
  BY DEF EnqueueMissing, Register
<1>2. ChainLinked' /\ ReceiptsOnChain'
  BY <1>1 DEF ScanChain, ChainLinked, ReceiptsOnChain
<1>3. \A d \in Eligible(configured) :
        /\ d[1] \in configured
        /\ d[2].phase = "observed" => d[1] \in Observer
  BY DEF Eligible, EntitledCurrent, EntitledHistory
<1>4. \A d \in queued' : d[2].phase = "observed" => d[1] \in Observer
  BY <1>1, <1>3 DEF ScanChain, ObserversKnown
<1>5. ASSUME ~early' PROVE active' \cap Observer = {} /\ \A s \in subs' : s[1] \notin Observer
  <2>1. /\ configured \cap Observer = {}
        /\ \A s \in subs : s[1] \notin Observer
    BY <1>1, <1>5 DEF ScanChain, ObserversKnown
  <2>2. \A s \in subs' : s \in subs \/ s[1] \in configured
    BY <1>1, <1>3
  <2> QED
    BY <1>1, <2>1, <2>2
<1> QED
  BY <1>2, <1>4, <1>5 DEF ScanChain, ObserversKnown

LEMMA ReplayChain ==
  ASSUME Inv, ScanChain, NEW c \in Consumer, NEW id \in Published, Replay(c, id)
  PROVE  ScanChain'
<1>1. /\ UNCHANGED <<chain, receipts, active, early>>
      /\ subs' = subs \cup {<<c, id.payment>>}
      /\ queued' = queued \cup {<<c, id>>}
      /\ c \in active
      /\ id.phase = "observed" => c \in Observer
  BY DEF Replay, Replayable, MayObserve
<1>2. ChainLinked' /\ ReceiptsOnChain'
  BY <1>1 DEF ScanChain, ChainLinked, ReceiptsOnChain
<1>3. \A d \in queued' : d[2].phase = "observed" => d[1] \in Observer
  BY <1>1 DEF ScanChain, ObserversKnown
<1>4. ASSUME ~early' PROVE active' \cap Observer = {} /\ \A s \in subs' : s[1] \notin Observer
  BY <1>1, <1>4 DEF ScanChain, ObserversKnown
<1> QED
  BY <1>2, <1>3, <1>4 DEF ScanChain, ObserversKnown

LEMMA ScannerKeepsDaemon ==
  ASSUME DaemonInv, ScannerStep \/ NodeStep
  PROVE  DaemonInv'
<1>1. /\ ScanNext /\ UNCHANGED running /\ (pc' = "off") = (pc = "off")
      /\ pc = "off" => UNCHANGED jvars
  BY DEF ScannerStep, NodeStep, ScanNext, workVars, ScanStep, FailScan, BeginScan, ReadTip,
     ReadAnchor, RollBack, StopRollingBack, FetchBlock, CheckPredecessor, RecheckTip,
     AppendBlock, BatchDone, CheckFinalTip, CheckFinalCursor, VerifyTip, Reconcile,
     PublishHealth, MismatchEndsScan, Unmoved, Goto, Reorg, Scanning
<1>2. CASE running
  <2>1. ScanInv'
    BY <1>1, <1>2, RunningScan, ScanInvKept, JournalAssumption, ScannerAssumption
  <2> QED
    BY <1>1, <1>2, <2>1 DEF DaemonInv, ScanInv
<1>3. CASE ~running
  <2>1. pc = "off" /\ pc' = "off"
    BY <1>1, <1>3 DEF DaemonInv
  <2>2. Inv' /\ ScanChain'
    BY <1>1, <2>1, SameJournal, JournalAssumption DEF DaemonInv
  <2>3. ScanTypeOK'
    BY <1>1, <2>2, ScanTypes, JournalAssumption, ScannerAssumption DEF DaemonInv, Inv
  <2>4. Evidence'
    BY <2>1, NoScanNoEvidence DEF Scanning
  <2> QED
    BY <1>1, <1>3, <2>1, <2>2, <2>3, <2>4 DEF DaemonInv
<1> QED
  BY <1>2, <1>3 DEF DaemonInv

LEMMA LifecycleKeepsDaemon ==
  ASSUME DaemonInv, Halt \/ \E configured \in Configs : Launch(configured)
  PROVE  DaemonInv'
<1>1. CASE Halt
  <2>1. /\ UNCHANGED jvars /\ pc' = "off" /\ running' = FALSE /\ ScanNext
    BY <1>1 DEF Halt, Stop, StopScanner, Goto, ScanNext
  <2>2. Inv' /\ ScanChain'
    BY <2>1, SameJournal, JournalAssumption DEF DaemonInv
  <2>3. ScanTypeOK'
    BY <2>1, <2>2, ScanTypes, JournalAssumption, ScannerAssumption DEF DaemonInv, Inv
  <2>4. Evidence'
    BY <2>1, NoScanNoEvidence DEF Scanning
  <2> QED
    BY <2>1, <2>2, <2>3, <2>4 DEF DaemonInv
<1>2. ASSUME NEW configured \in Configs, Launch(configured)
      PROVE  DaemonInv'
  <2>1. /\ Open(configured) /\ configured \in SUBSET Consumer /\ pc' = "sleep"
        /\ running' = TRUE /\ ready' = FALSE /\ ScanNext
    BY <1>2, HealthAssumption DEF Launch, Start, StartScanner, Goto, ScanNext, HealthAssumption
  <2>2. Inv' /\ ScanChain'
    BY <2>1, OpenInv, OpenChain DEF DaemonInv
  <2>3. ScanTypeOK'
    BY <2>1, <2>2, ScanTypes, JournalAssumption, ScannerAssumption DEF DaemonInv, Inv
  <2>4. Evidence'
    BY <2>1, NoScanNoEvidence DEF Scanning
  <2>5. ReadyIsCanonical'
    BY <2>1 DEF ReadyIsCanonical
  <2> QED
    BY <2>1, <2>2, <2>3, <2>4, <2>5 DEF DaemonInv
<1> QED
  BY <1>1, <1>2

LEMMA ExpiryKeepsDaemon ==
  ASSUME DaemonInv, EvidenceExpires
  PROVE  DaemonInv'
<1>1. /\ running /\ running' = running /\ ready' = FALSE
      /\ UNCHANGED <<jvars, node, local, pc, views, fails, stops>>
  BY DEF EvidenceExpires, Health, scanVars
<1>2. ScanInv
  BY <1>1, RunningScan
<1>3. CASE ready
  <2>1. ScanInv'
    BY <1>1, <1>2, <1>3, LapseKeepsScan, JournalAssumption, ScannerAssumption
       DEF EvidenceLapses
  <2> QED
    BY <1>1, <2>1 DEF DaemonInv, ScanInv
<1>4. CASE ~ready
  <2>1. UNCHANGED svars
    BY <1>1, <1>2, <1>4 DEF svars, ScanInv, ScanTypeOK
  <2>2. ScanInv'
    BY <1>2, <2>1, VerifierKeepsScan, JournalAssumption, ScannerAssumption
  <2> QED
    BY <1>1, <2>2 DEF DaemonInv, ScanInv
<1> QED
  BY <1>3, <1>4

LEMMA StillKeepsDaemon ==
  ASSUME DaemonInv, UNCHANGED <<svars, running>>
  PROVE  DaemonInv'
<1>1. UNCHANGED <<jvars, pc, ready, running>> /\ ScanTypeOK
  BY DEF svars, DaemonInv
<1>2. Inv' /\ ScanChain'
  BY <1>1, SameJournal, JournalAssumption DEF DaemonInv
<1>3. CASE running
  <2>1. ScanInv'
    BY <1>3, RunningScan, VerifierKeepsScan, JournalAssumption, ScannerAssumption
  <2> QED
    BY <1>1, <2>1 DEF DaemonInv, ScanInv
<1>4. CASE ~running
  <2>1. pc' = "off"
    BY <1>1, <1>4 DEF DaemonInv
  <2>2. ScanTypeOK'
    BY <1>1, <1>2, ScanTypes, JournalAssumption, ScannerAssumption DEF Inv
  <2> QED
    BY <1>1, <1>2, <1>4, <2>1, <2>2, NoScanNoEvidence DEF DaemonInv, Scanning
<1> QED
  BY <1>3, <1>4 DEF DaemonInv

LEMMA WorkerKeepsDaemon ==
  ASSUME DaemonInv, WorkerStep
  PROVE  DaemonInv'
<1>1. UNCHANGED <<scanVars, ready, stops, running>>
  BY DEF WorkerStep, ReadGate, Take, HookSucceeds, HookFails, Record, BackoffElapses
<1>2. UNCHANGED jvars \/ \E c \in Consumer : Acknowledge(c, worker[c].id)
  BY DEF WorkerStep, ReadGate, Take, HookSucceeds, HookFails, Record, BackoffElapses
<1>3. CASE UNCHANGED jvars
  <2>1. UNCHANGED <<svars, running>>
    BY <1>1, <1>3 DEF svars, scanVars
  <2> QED
    BY <2>1, StillKeepsDaemon
<1>4. ASSUME NEW c \in Consumer, Acknowledge(c, worker[c].id)
      PROVE  DaemonInv'
  <2>1. /\ Inv' /\ ScanTypeOK' /\ ScanChain' /\ Evidence'
        /\ ReadyIsCanonical => ReadyIsCanonical'
    BY <1>1, <1>4, AcknowledgeKeepsScan DEF DaemonInv
  <2>2. UNCHANGED <<pc, running>>
    BY <1>1 DEF scanVars
  <2> QED
    BY <2>1, <2>2 DEF DaemonInv
<1> QED
  BY <1>2, <1>3, <1>4

LEMMA OperatorKeepsDaemon ==
  ASSUME DaemonInv, OperatorStep
  PROVE  DaemonInv'
<1>1. /\ ~running /\ running' = running
      /\ UNCHANGED <<best, reorgs, tip, anchor, next, last, fetched, verified, pc, views,
                     fails, ready, stops>>
  BY DEF OperatorStep, OperatorOpen, OperatorHandoff, OperatorReplay, dvars, scanVars, node,
         local
<1>2. pc = "off"
  BY <1>1 DEF DaemonInv
<1>3. \/ \E configured \in Configs : Open(configured) \/ EnqueueMissing(configured)
      \/ \E c \in Consumer, id \in Published : Replay(c, id)
  BY DEF OperatorStep, OperatorOpen, OperatorHandoff, OperatorReplay
<1>4. Inv' /\ ScanChain'
  <2>1. ASSUME NEW configured \in Configs, Open(configured)
        PROVE  Inv' /\ ScanChain'
    BY <2>1, OpenInv, OpenChain, HealthAssumption DEF DaemonInv, HealthAssumption
  <2>2. ASSUME NEW configured \in Configs, EnqueueMissing(configured)
        PROVE  Inv' /\ ScanChain'
    BY <2>2, EnqueueMissingInv, HandoffChain, HealthAssumption, JournalAssumption
       DEF DaemonInv, HealthAssumption
  <2>3. ASSUME NEW c \in Consumer, NEW id \in Published, Replay(c, id)
        PROVE  Inv' /\ ScanChain'
    BY <2>3, ReplayInv, ReplayChain, JournalAssumption DEF DaemonInv
  <2> QED
    BY <1>3, <2>1, <2>2, <2>3
<1>5. ScanTypeOK'
  BY <1>1, <1>4 DEF DaemonInv, ScanTypeOK, Inv
<1>6. Evidence'
  BY <1>1, <1>2, NoScanNoEvidence DEF Scanning
<1> QED
  BY <1>1, <1>4, <1>5, <1>6 DEF DaemonInv

LEMMA DaemonInvKept == DaemonInv /\ [DaemonNext]_daemonVars => DaemonInv'
<1> SUFFICES ASSUME DaemonInv, [DaemonNext]_daemonVars PROVE DaemonInv'
  OBVIOUS
<1>1. CASE UNCHANGED daemonVars
  <2>1. UNCHANGED <<svars, running>>
    BY <1>1 DEF daemonVars, vars, dvars, scanVars, svars
  <2> QED
    BY <2>1, StillKeepsDaemon
<1>2. CASE DaemonNext
  BY <1>2, LifecycleKeepsDaemon, ScannerKeepsDaemon, ExpiryKeepsDaemon, WorkerKeepsDaemon,
     OperatorKeepsDaemon DEF DaemonNext
<1> QED
  BY <1>1, <1>2

LEMMA DaemonInvBegins == DaemonInit => DaemonInv
<1> SUFFICES ASSUME DaemonInit PROVE DaemonInv
  OBVIOUS
<1>1. ScanInv
  BY ScanInvBegins, JournalAssumption, ScannerAssumption DEF DaemonInit
<1>2. running = FALSE /\ pc = "off"
  BY DEF DaemonInit, Init, ScanInit
<1> QED
  BY <1>1, <1>2 DEF DaemonInv, ScanInv

\* The scanner's own invariant, with the workers and the operator beside it.
THEOREM DaemonInvariant == DaemonSpec => []DaemonInv
  BY DaemonInvBegins, DaemonInvKept, PTL DEF DaemonSpec

-----------------------------------------------------------------------------
(***************************************************************************)
(* The daemon implements PaymentDelivery.                                  *)
(***************************************************************************)
\* The height a scan confirms up to is the height of some block.
LEMMA SafeIsAHeight ==
  ASSUME ScanInv, pc = "verifyTip"
  PROVE  Safe(verified) \in {Height[b] : b \in Block}
<1>1. PICK t \in views : Height[t] = verified
  BY DEF ScanInv, Evidence, VerifiedSeen
<1>2. t \in Block /\ verified \in Nat /\ Branch[t] \subseteq Block
  BY <1>1, ScannerAssumption DEF ScanInv, ScanTypeOK, ScannerAssumption
<1>3. Safe(verified) \in 0 .. Height[t]
  <2>1. Depth \in Nat /\ Depth >= 1
    BY ScannerAssumption DEF ScannerAssumption
  <2> QED
    BY <1>1, <1>2, <2>1 DEF Safe, Minus
<1>4. \E x \in Branch[t] : Height[x] = Safe(verified)
  BY <1>2, <1>3, TreeIsOrdered, JournalAssumption, ScannerAssumption DEF BranchHasHeights
<1> QED
  BY <1>2, <1>4

\* A step of the scan is a verdict, a transaction while unready, or nothing to
\* the workers.
LEMMA ScanStepDelivers ==
  ASSUME DaemonInv, ScannerStep
  PROVE  [Next]_vars
<1>1. /\ UNCHANGED <<running, worker, waiting, begun, done>>
      /\ ScanStep \/ FailScan
  BY DEF ScannerStep, workVars
<1>2. /\ pc # "off" /\ UNCHANGED stops
  BY <1>1 DEF ScanStep, FailScan, BeginScan, ReadTip,
     ReadAnchor, RollBack, StopRollingBack, FetchBlock, CheckPredecessor, RecheckTip,
     AppendBlock, BatchDone, CheckFinalTip, CheckFinalCursor, VerifyTip, Reconcile,
     PublishHealth, MismatchEndsScan, Unmoved, Scanning
<1>3. running /\ ScanInv
  BY <1>2, RunningScan DEF DaemonInv
<1>4. ASSUME NEW verdict \in BOOLEAN, ready' = verdict, UNCHANGED jvars
      PROVE  [Next]_vars
  BY <1>1, <1>2, <1>3, <1>4 DEF Next, Health
<1>5. CASE BeginScan \/ FailScan \/ MismatchEndsScan
  BY <1>4, <1>5 DEF BeginScan, FailScan, MismatchEndsScan
<1>6. CASE PublishHealth
  BY <1>4, <1>6 DEF PublishHealth, CaughtUp
<1>7. CASE UNCHANGED <<jvars, ready>>
  BY <1>1, <1>2, <1>7 DEF vars, dvars
<1>8. ASSUME pc \in Scanning, UNCHANGED ready,
             \/ \E b \in Block : AppendState(b, ~early)
             \/ RollbackOne
             \/ \E safe \in {Height[b] : b \in Block} : ReconcileConfirmations(safe)
      PROVE  [Next]_vars
  <2>1. ~ready
    BY <1>3, <1>8 DEF ScanInv, Evidence, Watching
  <2> QED
    BY <1>1, <1>2, <1>3, <1>8, <2>1 DEF Next, ScanTransaction, dvars
<1>9. CASE RollBack
  BY <1>8, <1>9 DEF RollBack, Scanning
<1>10. CASE AppendBlock
  <2>1. pc = "recheckBlock" /\ fetched \in HashAt(next) /\ AppendState(fetched, ~early)
        /\ next \in Nat /\ UNCHANGED ready
    BY <1>3, <1>10 DEF AppendBlock, ScanInv, ScanTypeOK
  <2>2. fetched \in Block
    BY <1>3, <2>1, NodeAnswers, JournalAssumption, ScannerAssumption DEF ScanInv
  <2> QED
    BY <1>8, <2>1, <2>2 DEF Scanning
<1>11. CASE Reconcile
  <2>1. pc = "verifyTip" /\ ReconcileConfirmations(Safe(verified)) /\ UNCHANGED ready
    BY <1>11 DEF Reconcile
  <2>2. Safe(verified) \in {Height[b] : b \in Block}
    BY <1>3, <2>1, SafeIsAHeight
  <2> QED
    BY <1>8, <2>1, <2>2 DEF Scanning
<1>12. CASE \/ ReadTip \/ ReadAnchor \/ StopRollingBack \/ FetchBlock \/ CheckPredecessor
            \/ RecheckTip \/ BatchDone \/ CheckFinalTip \/ CheckFinalCursor \/ VerifyTip
  BY <1>7, <1>12 DEF ReadTip, ReadAnchor, StopRollingBack, FetchBlock, CheckPredecessor,
     RecheckTip, BatchDone, CheckFinalTip, CheckFinalCursor, VerifyTip, Unmoved
<1> QED
  BY <1>1, <1>5, <1>6, <1>9, <1>10, <1>11, <1>12 DEF ScanStep

LEMMA DaemonStepDelivers == DaemonInv /\ [DaemonNext]_daemonVars => [Next]_vars
<1> SUFFICES ASSUME DaemonInv, [DaemonNext]_daemonVars PROVE [Next]_vars
  OBVIOUS
<1>1. CASE UNCHANGED daemonVars
  BY <1>1 DEF daemonVars
<1>2. CASE Halt \/ \E configured \in Configs : Launch(configured)
  BY <1>2 DEF Halt, Launch, Next
<1>3. CASE ScannerStep
  BY <1>3, ScanStepDelivers
<1>4. CASE NodeStep
  BY <1>4 DEF NodeStep, Reorg, workVars, vars, dvars
<1>5. CASE EvidenceExpires
  BY <1>5 DEF EvidenceExpires, Next
<1>6. CASE WorkerStep
  BY <1>6 DEF WorkerStep, Next
<1>7. CASE OperatorStep
  BY <1>7 DEF OperatorStep, Next
<1> QED
  BY <1>1, <1>2, <1>3, <1>4, <1>5, <1>6, <1>7 DEF DaemonNext

\* What PaymentDelivery lets a scanner do, the real scanner keeps to: each of its
\* transactions runs while the workers are told the journal is unready.
THEOREM DaemonImplementsDelivery == DaemonSpec => ImplementsDelivery
<1>1. DaemonInit => Init
  BY DEF DaemonInit
<1> QED
  BY <1>1, DaemonStepDelivers, DaemonInvariant, PTL DEF DaemonSpec, ImplementsDelivery, Spec

\* So whatever holds of PaymentDelivery holds of the daemon: it loses nothing,
\* acts in order, and keeps its promise.
THEOREM DaemonDelivers ==
  DaemonSpec => []NothingLost /\ HooksInOrder /\ NoPositiveAfterRevocation /\ Promise!Safe
  BY DaemonImplementsDelivery, NothingIsLost, HooksGoInOrder, RevocationsAreLast,
     DaemonKeepsPromise, PTL DEF ImplementsDelivery

\* What a running daemon offers its workers as ready is what the node's best
\* chain held, as deep as claimed, while the journal was last scanned.
THEOREM OfferedWorkCanonical == DaemonSpec => []OfferedWorkIsCanonical
<1>1. ASSUME DaemonInv, running, ready, NEW d \in queued \ acked, d[2].phase \in Positive
      PROVE  LET b == receipts[d[2].payment].block
             IN /\ \E t \in views : b \in Branch[t]
                /\ d[2].phase = "confirmed" => IsBuried(b)
  <2> DEFINE p == d[2].payment
  <2>1. /\ JournalTypeOK /\ NoStalePositiveQueued /\ ReceiptsOnChain
        /\ ChainIsCanonical
        /\ \A q \in Payment : receipts[q].active /\ receipts[q].confirmed
                                => IsBuried(receipts[q].block)
    BY <1>1 DEF DaemonInv, Inv, ScanChain, ReadyIsCanonical
  <2>2. d[2] \in EventId
    BY <2>1 DEF JournalTypeOK
  <2>3. p \in Payment
    BY <2>2 DEF EventId
  <2>4. receipts[p].active /\ (d[2].phase = "confirmed" => receipts[p].confirmed)
    BY <1>1, <2>1 DEF NoStalePositiveQueued, Current, Positive
  <2>5. \E t \in views : receipts[p].block \in Branch[t]
    BY <2>1, <2>3, <2>4 DEF ReceiptsOnChain, ChainIsCanonical
  <2> QED
    BY <2>1, <2>3, <2>4, <2>5
<1>2. DaemonInv => OfferedWorkIsCanonical
  BY <1>1 DEF OfferedWorkIsCanonical
<1> QED
  BY <1>2, DaemonInvariant, PTL

\* No hook is told to take back a payment that the chain kept: the daemon, with
\* its crashes, restarts, replays and handoffs, revokes a revision only for a
\* reason its scan has seen.
THEOREM DaemonRevokesWithCause == DaemonSpec => RevocationIsJustified
<1> DEFINE Step == \A e \in events' \ events :
                     e.id.phase = "revoked" =>
                       \E t \in views :
                         \/ e.block \notin Branch[t]
                         \/ /\ ~HasDepth(e.block, t)
                            /\ receipts[e.id.payment].confirmed \/ ~ToldUnconfirmed(e.id)
<1>1. ASSUME DaemonInv, [DaemonNext]_daemonVars
      PROVE  Step
  <2>1. CASE UNCHANGED events
    BY <2>1
  <2>2. CASE ScannerStep
    <3>1. ScanStep \/ FailScan
      BY <2>2 DEF ScannerStep
    <3>2. pc # "off" /\ ScanNext
      BY <3>1 DEF ScanNext, ScanStep, FailScan, BeginScan, ReadTip, ReadAnchor, RollBack,
         StopRollingBack, FetchBlock, CheckPredecessor, RecheckTip, AppendBlock, BatchDone,
         CheckFinalTip, CheckFinalCursor, VerifyTip, Reconcile, PublishHealth,
         MismatchEndsScan, Scanning
    <3>3. ScanInv
      BY <1>1, <3>2, RunningScan DEF DaemonInv
    <3> QED
      BY <3>2, <3>3, ScanJustifies DEF Justified
  <2>3. ASSUME ~ScannerStep PROVE UNCHANGED events
    <3>1. CASE \E c \in Consumer : Record(c)
      BY <3>1 DEF Record, Acknowledge, tables, jvars
    <3> QED
      BY <1>1, <2>3, <3>1 DEF DaemonNext, daemonVars, vars, jvars, Launch, Start, Halt, Stop,
         NodeStep, Reorg, EvidenceExpires, Health, WorkerStep, ReadGate, Take, HookSucceeds,
         HookFails, BackoffElapses, OperatorStep, OperatorOpen, OperatorHandoff,
         OperatorReplay, Open, tables, EnqueueMissing, Replay
  <2> QED
    BY <2>1, <2>2, <2>3
<1>2. DaemonInv /\ [DaemonNext]_daemonVars => [Step]_svars
  BY <1>1
<1> HIDE DEF Step
<1>3. DaemonSpec => [][Step]_svars
  BY <1>2, DaemonInvariant, PTL DEF DaemonSpec
<1> QED
  BY <1>3 DEF RevocationIsJustified, Step

=============================================================================
