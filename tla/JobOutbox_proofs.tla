-------------------------- MODULE JobOutbox_proofs --------------------------
(***************************************************************************)
(* Proofs about JobOutbox: no committed promise is lost, one message goes  *)
(* out for a dedup_key, first publishes do not meet, every publish after   *)
(* the first has its own fault to answer for it, and the outbox implements *)
(* the safety half of MessagePromise.                                      *)
(***************************************************************************)
EXTENDS JobOutbox, FiniteSetTheorems, TLAPS

\* A transaction's own row is there from its enqueue on, unless it rolled back.
RowsFollowTx ==
  \A m \in Message :
    /\ tx[m] \in {"idle", "aborted"} => row[m] = "none"
    /\ tx[m] = "idle" => carrier[m] = m /\ older[m] = {}
    /\ tx[m] # "committed" => ahead[m] = {}
    /\ tx[m] = "open" /\ carrier[m] = m => row[m] = "pending"
    /\ tx[m] = "committed" /\ carrier[m] = m => row[m] # "none"

\* A collapsed promise has no row and points to one that was committed.
CarriersAreRows ==
  \A m \in Message :
    carrier[m] # m => /\ row[m] = "none" /\ older[m] = {}
                      /\ tx[carrier[m]] = "committed"
                      /\ carrier[carrier[m]] = carrier[m]

\* What a row must not overtake are older rows that were committed before it.
AheadIsOlder ==
  \A m \in Message :
    /\ \A q \in older[m] : tx[q] # "idle" /\ carrier[q] = q
    /\ ahead[m] \subseteq {q \in older[m] : SameKey(m, q) /\ tx[q] = "committed"}

\* Only the broker's acceptance makes a row published, and only a committed
\* row is sent.
PublishedIsDelivered ==
  \A m \in Message :
    /\ row[m] \in {"published", "pruned"} => m \in Delivered
    /\ m \in Delivered => row[m] # "none" /\ tx[m] = "committed"

\* The UNIQUE index outlives retention.
KeysAreUnique ==
  \A m, q \in Message :
    /\ row[m] = "pruned" => DedupKey[m] = NoKey
    /\ m # q /\ DedupKey[m] # NoKey /\ DedupKey[m] = DedupKey[q]
         => row[m] \in {"none", "abandoned"} \/ row[q] \in {"none", "abandoned"}

\* The rows a pass claimed and has not settled.
Claimed(s) == todo[s] \cup IF stage[s] \in Working THEN {cur[s]} ELSE {}

WorkIsClaimed ==
  \A s \in Relay :
    /\ stage[s] \in Working => cur[s] \in Message /\ cur[s] \notin todo[s]
    /\ stage[s] = "ok" => cur[s] \in Delivered
    /\ stage[s] = "idle" => todo[s] = {}

\* A claimed row is committed, and nothing it must not overtake is waiting.
ClaimsAreInOrder ==
  \A s \in Relay : \A m \in Claimed(s) :
    /\ tx[m] = "committed" /\ row[m] # "none"
    /\ \A q \in ahead[m] : ~Pending(q)

\* Until its lease runs out, a pass owns what it claimed.
PassesHoldLeases ==
  \A s \in Relay : \A m \in Claimed(s) :
    ~late[s] /\ Pending(m) => token[m] = s /\ ~due[m]

IInv ==
  /\ RowsFollowTx /\ CarriersAreRows /\ AheadIsOlder
  /\ PublishedIsDelivered /\ KeysAreUnique
  /\ WorkIsClaimed /\ ClaimsAreInOrder /\ PassesHoldLeases

-----------------------------------------------------------------------------
\* The broker's count stays a number, whatever the pass publishes.
LEMMA CopiesTyped ==
  ASSUME TypeOK, NEW m, Arrives(m)
  PROVE  copies' \in [Message -> Nat]
<1>1. CASE m \in Message
  BY <1>1 DEF TypeOK, Arrives
<1>2. CASE m \notin Message
  BY <1>2 DEF TypeOK, Arrives
<1> QED
  BY <1>1, <1>2

\* The variables keep their types.
LEMMA TypeStep ==
  ASSUME TypeOK, [Next]_vars
  PROVE  TypeOK'
<1> USE OutboxAssumption DEF TypeOK, InTable, Working, pvars, rvars, wvars
<1>1. ASSUME NEW s \in Relay, Claim(s) PROVE TypeOK'
  BY <1>1 DEF Claim, OldestOf, DueMessages
<1>2. ASSUME NEW s \in Relay, BuildClient(s) PROVE TypeOK'
  BY <1>2 DEF BuildClient, Happens
<1>3. ASSUME NEW s \in Relay, SettleBroken(s) PROVE TypeOK'
  <2>1. PICK m \in todo[s] : /\ RecordFailure(s, m)
                             /\ todo' = [todo EXCEPT ![s] = @ \ {m}]
    BY <1>3 DEF SettleBroken
  <2>2. /\ failed' \in [Message -> BOOLEAN] /\ due' \in [Message -> BOOLEAN]
        /\ token' \in [Message -> Relay \cup {NoPass}]
    BY <2>1 DEF RecordFailure
  <2>3. todo' \in [Relay -> SUBSET Message]
    BY <2>1
  <2> QED
    BY <2>2, <2>3, <1>3 DEF SettleBroken
<1>4. ASSUME NEW s \in Relay, StartPublish(s) PROVE TypeOK'
  BY <1>4 DEF StartPublish
<1>5. ASSUME NEW s \in Relay, HitDeadline(s) PROVE TypeOK'
  BY <1>5 DEF HitDeadline, Idle, Forget, Released
<1>6. ASSUME NEW s \in Relay, EndPass(s) PROVE TypeOK'
  BY <1>6 DEF EndPass, Idle, Forget
<1>7. ASSUME NEW s \in Relay, Accepted(s) PROVE TypeOK'
  <2>1. copies' \in [Message -> Nat]
    BY <1>7, CopiesTyped DEF Accepted
  <2> QED
    BY <2>1, <1>7 DEF Accepted
<1>8. ASSUME NEW s \in Relay, PublishError(s) PROVE TypeOK'
  BY <1>8 DEF PublishError, Arrives, Happens
<1>9. ASSUME NEW s \in Relay, SettleSuccess(s) PROVE TypeOK'
  BY <1>9 DEF SettleSuccess, NextRow
<1>10. ASSUME NEW s \in Relay, SettleFailure(s) PROVE TypeOK'
  BY <1>10 DEF SettleFailure, RecordFailure, NextRow
<1>11. ASSUME NEW s \in Relay, Crash(s) PROVE TypeOK'
  BY <1>11 DEF Crash, Idle, Forget, Happens
<1>12. ASSUME NEW s \in Relay, OutliveLease(s) PROVE TypeOK'
  BY <1>12 DEF OutliveLease, Happens
<1>13. ASSUME NEW m \in Message, Enqueue(m) PROVE TypeOK'
  BY <1>13 DEF Enqueue, Holders
<1>14. ASSUME NEW m \in Message, EnqueueDuplicate(m) PROVE TypeOK'
  BY <1>14 DEF EnqueueDuplicate, Holders
<1>15. ASSUME NEW m \in Message, Commit(m) PROVE TypeOK'
  BY <1>15 DEF Commit
<1>16. ASSUME NEW m \in Message, Rollback(m) PROVE TypeOK'
  BY <1>16 DEF Rollback
<1>17. ASSUME NEW m \in Message, BecomeDue(m) PROVE TypeOK'
  BY <1>17 DEF BecomeDue
<1>18. ASSUME NEW m \in Message, Abandon(m) PROVE TypeOK'
  BY <1>18 DEF Abandon
<1>19. ASSUME NEW m \in Message, Prune(m) PROVE TypeOK'
  BY <1>19 DEF Prune
<1>20. CASE UNCHANGED vars
  BY <1>20 DEF vars
<1> QED
  BY <1>1, <1>2, <1>3, <1>4, <1>5, <1>6, <1>7, <1>8, <1>9, <1>10, <1>11, <1>12,
    <1>13, <1>14, <1>15, <1>16, <1>17, <1>18, <1>19, <1>20 DEF Next, Pass, Table

-----------------------------------------------------------------------------
\* Every step keeps the invariant.
LEMMA InvStep ==
  ASSUME TypeOK, TypeOK', IInv, [Next]_vars
  PROVE  IInv'
<1> USE OutboxAssumption DEF TypeOK, IInv, InTable, Working, Pending, Visible, Delivered,
    Claimed, pvars, rvars, wvars, RowsFollowTx, CarriersAreRows, AheadIsOlder,
    PublishedIsDelivered, KeysAreUnique, WorkIsClaimed, ClaimsAreInOrder, PassesHoldLeases
<1>1. ASSUME NEW s \in Relay, Claim(s) PROVE IInv'
  <2>1. RowsFollowTx' /\ CarriersAreRows' /\ AheadIsOlder'
      /\ PublishedIsDelivered' /\ KeysAreUnique'
    BY <1>1 DEF Claim, OldestOf, DueMessages
  <2>2. WorkIsClaimed'
    BY <1>1 DEF Claim, OldestOf, DueMessages
  <2>3. ClaimsAreInOrder'
    BY <1>1 DEF Claim, OldestOf, DueMessages
  <2>4. PassesHoldLeases'
    <3> DEFINE batch == OldestOf(DueMessages)
    <3>0. batch \in SUBSET Message /\ \A m \in batch : due[m]
      BY DEF OldestOf, DueMessages
    <3>1. /\ stage' = [stage EXCEPT ![s] = "prologue"]
          /\ todo' = [todo EXCEPT ![s] = batch]
          /\ due' = [m \in Message |-> due[m] /\ m \notin batch]
          /\ token' = [m \in Message |-> IF m \in batch THEN s ELSE token[m]]
          /\ UNCHANGED <<tx, row, cur, late>>
      BY <1>1 DEF Claim
    <3> HIDE DEF batch
    <3>2. Claimed(s)' = batch
      BY <3>0, <3>1
    <3>3. ASSUME NEW t \in Relay, t # s PROVE Claimed(t)' = Claimed(t)
      BY <3>1, <3>3
    <3> HIDE DEF Claimed
    <3>4. ASSUME NEW t \in Relay, NEW m \in Claimed(t)', ~late'[t], Pending(m)'
          PROVE  token'[m] = t /\ ~due'[m]
      <4>1. m \in Message
        BY <3>0, <3>1, <3>2, <3>3, <3>4 DEF Claimed
      <4>2. CASE t = s
        BY <3>0, <3>1, <3>2, <3>4, <4>1, <4>2
      <4>3. CASE t # s
        <5>1. m \in Claimed(t) /\ Pending(m) /\ ~late[t]
          BY <3>1, <3>3, <3>4, <4>3
        <5>2. token[m] = t /\ ~due[m]
          BY <5>1
        <5> QED
          BY <5>2, <3>0, <3>1, <4>1
      <4> QED
        BY <4>2, <4>3
    <3> QED
      BY <3>4
  <2> QED
    BY <2>1, <2>2, <2>3, <2>4
<1>2. ASSUME NEW s \in Relay, BuildClient(s) PROVE IInv'
  BY <1>2 DEF BuildClient, Happens
<1>3. ASSUME NEW s \in Relay, SettleBroken(s) PROVE IInv'
  <2>1. RowsFollowTx' /\ CarriersAreRows' /\ AheadIsOlder'
      /\ PublishedIsDelivered' /\ KeysAreUnique'
    BY <1>3 DEF SettleBroken, RecordFailure
  <2>2. WorkIsClaimed'
    BY <1>3 DEF SettleBroken, RecordFailure
  <2>3. ClaimsAreInOrder'
    BY <1>3 DEF SettleBroken, RecordFailure
  <2>4. PassesHoldLeases'
    BY <1>3 DEF SettleBroken, RecordFailure
  <2> QED
    BY <2>1, <2>2, <2>3, <2>4
<1>4. ASSUME NEW s \in Relay, StartPublish(s) PROVE IInv'
  <2>1. RowsFollowTx' /\ CarriersAreRows' /\ AheadIsOlder'
      /\ PublishedIsDelivered' /\ KeysAreUnique'
    BY <1>4 DEF StartPublish
  <2>2. WorkIsClaimed'
    BY <1>4 DEF StartPublish
  <2>3. ClaimsAreInOrder'
    BY <1>4 DEF StartPublish
  <2>4. PassesHoldLeases'
    BY <1>4 DEF StartPublish
  <2> QED
    BY <2>1, <2>2, <2>3, <2>4
<1>5. ASSUME NEW s \in Relay, HitDeadline(s) PROVE IInv'
  <2>1. RowsFollowTx' /\ CarriersAreRows' /\ AheadIsOlder'
      /\ PublishedIsDelivered' /\ KeysAreUnique'
    BY <1>5 DEF HitDeadline, Idle, Forget, Released
  <2>2. WorkIsClaimed'
    BY <1>5 DEF HitDeadline, Idle, Forget, Released
  <2>3. ClaimsAreInOrder'
    BY <1>5 DEF HitDeadline, Idle, Forget, Released
  <2>4. PassesHoldLeases'
    BY <1>5 DEF HitDeadline, Idle, Forget, Released
  <2> QED
    BY <2>1, <2>2, <2>3, <2>4
<1>6. ASSUME NEW s \in Relay, EndPass(s) PROVE IInv'
  <2>1. RowsFollowTx' /\ CarriersAreRows' /\ AheadIsOlder'
      /\ PublishedIsDelivered' /\ KeysAreUnique'
    BY <1>6 DEF EndPass, Idle, Forget
  <2>2. WorkIsClaimed'
    BY <1>6 DEF EndPass, Idle, Forget
  <2>3. ClaimsAreInOrder'
    BY <1>6 DEF EndPass, Idle, Forget
  <2>4. PassesHoldLeases'
    BY <1>6 DEF EndPass, Idle, Forget
  <2> QED
    BY <2>1, <2>2, <2>3, <2>4
<1>7. ASSUME NEW s \in Relay, Accepted(s) PROVE IInv'
  <2>1. RowsFollowTx' /\ CarriersAreRows' /\ AheadIsOlder' /\ KeysAreUnique'
    BY <1>7 DEF Accepted, Arrives
  <2>2. PublishedIsDelivered'
    BY <1>7 DEF Accepted, Arrives
  <2>3. WorkIsClaimed' /\ ClaimsAreInOrder' /\ PassesHoldLeases'
    BY <1>7 DEF Accepted, Arrives
  <2> QED
    BY <2>1, <2>2, <2>3
<1>8. ASSUME NEW s \in Relay, PublishError(s) PROVE IInv'
  <2>1. RowsFollowTx' /\ CarriersAreRows' /\ AheadIsOlder' /\ KeysAreUnique'
    BY <1>8 DEF PublishError, Arrives, Happens
  <2>2. PublishedIsDelivered'
    <3>1. cur[s] \in Message /\ cur[s] \in Claimed(s) /\ UNCHANGED <<tx, row>>
      BY <1>8 DEF PublishError
    <3>2. CASE UNCHANGED copies
      BY <3>1, <3>2
    <3>3. CASE copies' = [copies EXCEPT ![cur[s]] = @ + 1]
      BY <3>1, <3>3
    <3> QED
      BY <3>2, <3>3, <1>8 DEF PublishError, Arrives
  <2>3. WorkIsClaimed' /\ ClaimsAreInOrder' /\ PassesHoldLeases'
    BY <1>8 DEF PublishError, Arrives, Happens
  <2> QED
    BY <2>1, <2>2, <2>3
<1>9. ASSUME NEW s \in Relay, SettleSuccess(s) PROVE IInv'
  <2>1. RowsFollowTx' /\ CarriersAreRows' /\ AheadIsOlder'
    BY <1>9 DEF SettleSuccess, NextRow
  <2>2. PublishedIsDelivered'
    BY <1>9 DEF SettleSuccess, NextRow
  <2>3. KeysAreUnique'
    BY <1>9 DEF SettleSuccess, NextRow
  <2>4. WorkIsClaimed'
    BY <1>9 DEF SettleSuccess, NextRow
  <2>5. ClaimsAreInOrder'
    BY <1>9 DEF SettleSuccess, NextRow
  <2>6. PassesHoldLeases'
    BY <1>9 DEF SettleSuccess, NextRow
  <2> QED
    BY <2>1, <2>2, <2>3, <2>4, <2>5, <2>6
<1>10. ASSUME NEW s \in Relay, SettleFailure(s) PROVE IInv'
  <2>1. RowsFollowTx' /\ CarriersAreRows' /\ AheadIsOlder'
      /\ PublishedIsDelivered' /\ KeysAreUnique'
    BY <1>10 DEF SettleFailure, RecordFailure, NextRow
  <2>2. WorkIsClaimed'
    BY <1>10 DEF SettleFailure, RecordFailure, NextRow
  <2>3. ClaimsAreInOrder'
    BY <1>10 DEF SettleFailure, RecordFailure, NextRow
  <2>4. PassesHoldLeases'
    BY <1>10 DEF SettleFailure, RecordFailure, NextRow
  <2> QED
    BY <2>1, <2>2, <2>3, <2>4
<1>11. ASSUME NEW s \in Relay, Crash(s) PROVE IInv'
  <2>1. RowsFollowTx' /\ CarriersAreRows' /\ AheadIsOlder'
      /\ PublishedIsDelivered' /\ KeysAreUnique'
    BY <1>11 DEF Crash, Idle, Forget, Happens
  <2>2. WorkIsClaimed'
    BY <1>11 DEF Crash, Idle, Forget, Happens
  <2>3. ClaimsAreInOrder'
    BY <1>11 DEF Crash, Idle, Forget, Happens
  <2>4. PassesHoldLeases'
    BY <1>11 DEF Crash, Idle, Forget, Happens
  <2> QED
    BY <2>1, <2>2, <2>3, <2>4
<1>12. ASSUME NEW s \in Relay, OutliveLease(s) PROVE IInv'
  <2>1. RowsFollowTx' /\ CarriersAreRows' /\ AheadIsOlder'
      /\ PublishedIsDelivered' /\ KeysAreUnique'
    BY <1>12 DEF OutliveLease, Happens
  <2>2. WorkIsClaimed'
    BY <1>12 DEF OutliveLease, Happens
  <2>3. ClaimsAreInOrder'
    BY <1>12 DEF OutliveLease, Happens
  <2>4. PassesHoldLeases'
    BY <1>12 DEF OutliveLease, Happens
  <2> QED
    BY <2>1, <2>2, <2>3, <2>4
<1>13. ASSUME NEW m \in Message, Enqueue(m) PROVE IInv'
  <2>1. RowsFollowTx'
    BY <1>13 DEF Enqueue, Holders
  <2>2. CarriersAreRows'
    BY <1>13 DEF Enqueue, Holders
  <2>3. AheadIsOlder'
    BY <1>13 DEF Enqueue, Holders
  <2>4. PublishedIsDelivered'
    BY <1>13 DEF Enqueue, Holders
  <2>5. KeysAreUnique'
    <3>1. /\ row' = [row EXCEPT ![m] = "pending"]
          /\ \A q \in Message : DedupKey[m] # NoKey /\ DedupKey[q] = DedupKey[m]
                                 => row[q] \notin InTable
      BY <1>13 DEF Enqueue, Holders
    <3>2. \A q \in Message : DedupKey[m] # NoKey /\ DedupKey[q] = DedupKey[m]
                             => row[q] \in {"none", "abandoned"}
      BY <3>1
    <3> QED
      BY <3>1, <3>2
  <2>6. WorkIsClaimed' /\ ClaimsAreInOrder' /\ PassesHoldLeases'
    BY <1>13 DEF Enqueue, Holders
  <2> QED
    BY <2>1, <2>2, <2>3, <2>4, <2>5, <2>6
<1>14. ASSUME NEW m \in Message, EnqueueDuplicate(m) PROVE IInv'
  <2>1. RowsFollowTx' /\ CarriersAreRows'
    BY <1>14 DEF EnqueueDuplicate, Holders
  <2>2. AheadIsOlder' /\ PublishedIsDelivered' /\ KeysAreUnique'
    BY <1>14 DEF EnqueueDuplicate, Holders
  <2>3. WorkIsClaimed' /\ ClaimsAreInOrder' /\ PassesHoldLeases'
    BY <1>14 DEF EnqueueDuplicate, Holders
  <2> QED
    BY <2>1, <2>2, <2>3
<1>15. ASSUME NEW m \in Message, Commit(m) PROVE IInv'
  <2>1. RowsFollowTx'
    BY <1>15 DEF Commit
  <2>2. CarriersAreRows'
    BY <1>15 DEF Commit
  <2>3. AheadIsOlder'
    BY <1>15 DEF Commit
  <2>4. PublishedIsDelivered'
    BY <1>15 DEF Commit
  <2>5. KeysAreUnique'
    BY <1>15 DEF Commit
  <2>6. WorkIsClaimed' /\ ClaimsAreInOrder' /\ PassesHoldLeases'
    BY <1>15 DEF Commit
  <2> QED
    BY <2>1, <2>2, <2>3, <2>4, <2>5, <2>6
<1>16. ASSUME NEW m \in Message, Rollback(m) PROVE IInv'
  <2>1. RowsFollowTx'
    BY <1>16 DEF Rollback
  <2>2. CarriersAreRows'
    BY <1>16 DEF Rollback
  <2>3. AheadIsOlder'
    BY <1>16 DEF Rollback
  <2>4. PublishedIsDelivered'
    BY <1>16 DEF Rollback
  <2>5. KeysAreUnique'
    BY <1>16 DEF Rollback
  <2>6. WorkIsClaimed' /\ ClaimsAreInOrder' /\ PassesHoldLeases'
    BY <1>16 DEF Rollback
  <2> QED
    BY <2>1, <2>2, <2>3, <2>4, <2>5, <2>6
<1>17. ASSUME NEW m \in Message, BecomeDue(m) PROVE IInv'
  <2>1. RowsFollowTx' /\ CarriersAreRows' /\ AheadIsOlder'
      /\ PublishedIsDelivered' /\ KeysAreUnique' /\ WorkIsClaimed' /\ ClaimsAreInOrder'
    BY <1>17 DEF BecomeDue
  <2>2. PassesHoldLeases'
    BY <1>17 DEF BecomeDue
  <2> QED
    BY <2>1, <2>2
<1>18. ASSUME NEW m \in Message, Abandon(m) PROVE IInv'
  <2>1. RowsFollowTx' /\ CarriersAreRows' /\ AheadIsOlder'
    BY <1>18 DEF Abandon
  <2>2. PublishedIsDelivered'
    BY <1>18 DEF Abandon
  <2>3. KeysAreUnique'
    BY <1>18 DEF Abandon
  <2>4. WorkIsClaimed' /\ ClaimsAreInOrder' /\ PassesHoldLeases'
    BY <1>18 DEF Abandon
  <2> QED
    BY <2>1, <2>2, <2>3, <2>4
<1>19. ASSUME NEW m \in Message, Prune(m) PROVE IInv'
  <2>1. RowsFollowTx' /\ CarriersAreRows' /\ AheadIsOlder'
    BY <1>19 DEF Prune
  <2>2. PublishedIsDelivered'
    BY <1>19 DEF Prune
  <2>3. KeysAreUnique'
    BY <1>19 DEF Prune
  <2>4. WorkIsClaimed' /\ ClaimsAreInOrder' /\ PassesHoldLeases'
    BY <1>19 DEF Prune
  <2> QED
    BY <2>1, <2>2, <2>3, <2>4
<1>20. CASE UNCHANGED vars
  BY <1>20 DEF vars
<1> QED
  BY <1>1, <1>2, <1>3, <1>4, <1>5, <1>6, <1>7, <1>8, <1>9, <1>10, <1>11, <1>12,
    <1>13, <1>14, <1>15, <1>16, <1>17, <1>18, <1>19, <1>20 DEF Next, Pass, Table

-----------------------------------------------------------------------------
\* The invariant holds of the empty table.
LEMMA InvInit == Init => TypeOK /\ IInv
<1> SUFFICES ASSUME Init PROVE TypeOK /\ IInv
  OBVIOUS
<1>1. TypeOK
  BY OutboxAssumption DEF Init, TypeOK, InTable
<1>2. RowsFollowTx /\ CarriersAreRows /\ AheadIsOlder
  BY DEF Init, RowsFollowTx, CarriersAreRows, AheadIsOlder
<1>3. PublishedIsDelivered /\ KeysAreUnique
  BY DEF Init, PublishedIsDelivered, KeysAreUnique, Delivered
<1>4. WorkIsClaimed /\ ClaimsAreInOrder /\ PassesHoldLeases
  BY DEF Init, WorkIsClaimed, ClaimsAreInOrder, PassesHoldLeases, Claimed, Working
<1> QED
  BY <1>1, <1>2, <1>3, <1>4 DEF IInv

\* Hence it holds forever.
THEOREM Invariance == Spec => [](TypeOK /\ IInv)
<1>1. TypeOK /\ IInv /\ [Next]_vars => (TypeOK /\ IInv)'
  BY TypeStep, InvStep
<1> QED
  BY InvInit, <1>1, PTL DEF Spec

\* Every variable keeps its type: the columns of jobs_pubsub_outbox and the
\* state of every relay pass.
THEOREM TypeCorrect == Spec => []TypeOK
BY Invariance, PTL

\* No committed promise is lost, also none that was collapsed into an older
\* row: only the broker or an operator takes it from the table.
THEOREM NoneForgotten == Spec => []NothingForgotten
<1>1. TypeOK /\ IInv => NothingForgotten
  <2> SUFFICES ASSUME TypeOK, IInv, NEW m \in Message, tx[m] = "committed"
               PROVE  Pending(carrier[m]) \/ carrier[m] \in Delivered \cup Abandoned
    BY DEF NothingForgotten
  <2>1. /\ carrier[m] \in Message
        /\ tx[carrier[m]] = "committed" /\ row[carrier[m]] # "none"
    BY DEF TypeOK, IInv, RowsFollowTx, CarriersAreRows
  <2>2. row[carrier[m]] \in {"pending", "published", "pruned", "abandoned"}
    BY <2>1 DEF TypeOK, InTable
  <2> QED
    BY <2>1, <2>2 DEF IInv, PublishedIsDelivered, Pending, Abandoned
<1> QED
  BY Invariance, <1>1, PTL

\* One message goes out for a dedup_key, whatever the number of transactions,
\* relays, crashes and sweeps.
THEOREM OnePerKey == Spec => []OneMessagePerKey
<1>1. TypeOK /\ IInv => OneMessagePerKey
  BY DEF TypeOK, IInv, PublishedIsDelivered, KeysAreUnique, OneMessagePerKey,
    Delivered, Abandoned
<1> QED
  BY Invariance, <1>1, PTL

\* What a claimed row must not overtake has been delivered or given up.
LEMMA ClaimedIsNext ==
  ASSUME TypeOK, IInv, NEW s \in Relay, NEW m \in Claimed(s)
  PROVE  m \in Message /\ ahead[m] \subseteq Delivered \cup Abandoned
<1>1. m \in Message
  BY DEF TypeOK, IInv, WorkIsClaimed, Claimed
<1>2. ASSUME NEW q \in ahead[m] PROVE q \in Delivered \cup Abandoned
  <2>1. q \in Message /\ tx[q] = "committed" /\ row[q] # "none" /\ ~Pending(q)
    BY <1>1 DEF TypeOK, IInv, AheadIsOlder, RowsFollowTx, ClaimsAreInOrder
  <2>2. row[q] \in {"published", "pruned", "abandoned"}
    BY <2>1 DEF TypeOK, InTable, Pending
  <2> QED
    BY <2>1, <2>2 DEF IInv, PublishedIsDelivered, Abandoned
<1> QED
  BY <1>1, <1>2

\* Two passes that are within their leases do not send the same new message,
\* nor two new ones of which one must wait for the other.
THEOREM FirstAlone == Spec => []FirstPublishIsAlone
<1>1. TypeOK /\ IInv => FirstPublishIsAlone
  <2> SUFFICES ASSUME TypeOK, IInv, NEW s \in Relay, NEW t \in Relay, s # t,
                      stage[s] = "publishing", stage[t] = "publishing",
                      Exclude(cur[s], cur[t]),
                      {cur[s], cur[t]} \cap (Delivered \cup Abandoned) = {},
                      ~late[s], ~late[t]
               PROVE  FALSE
    BY DEF FirstPublishIsAlone
  <2>1. cur[s] \in Claimed(s) /\ cur[t] \in Claimed(t)
    BY DEF Claimed, Working
  <2>2. cur[s] \notin ahead[cur[t]] /\ cur[t] \notin ahead[cur[s]]
    BY <2>1, ClaimedIsNext
  <2>3. cur[s] = cur[t]
    BY <2>2 DEF Exclude
  <2>4. cur[s] \in Message /\ tx[cur[s]] = "committed" /\ row[cur[s]] # "none"
    BY <2>1, ClaimedIsNext DEF IInv, ClaimsAreInOrder
  <2>5. row[cur[s]] \in {"pending", "published", "pruned", "abandoned"}
    BY <2>4 DEF TypeOK, InTable
  <2>6. Pending(cur[s])
    BY <2>4, <2>5 DEF IInv, PublishedIsDelivered, Abandoned, Pending
  <2>7. token[cur[s]] = s /\ token[cur[s]] = t
    BY <2>1, <2>3, <2>6 DEF IInv, PassesHoldLeases
  <2> QED
    BY <2>7
<1> QED
  BY Invariance, <1>1, PTL

-----------------------------------------------------------------------------
(***************************************************************************)
(* Duplicates.  Every copy that may still go out has a sender: a pass that *)
(* claimed the row and has not heard from the broker, or one that could    *)
(* claim it now.  Copies and senders together never exceed one by more     *)
(* than the trouble there was.                                             *)
(***************************************************************************)
\* The passes that have not sent m yet, and still may.
Senders(m) ==
  {s \in Relay : m \in todo[s] \/ (stage[s] = "publishing" /\ cur[s] = m)}

\* The pass whose lease m carries still works on it, and the lease runs.
Held(m) ==
  /\ token[m] \in Relay /\ ~due[m]
  /\ \/ m \in todo[token[m]]
     \/ stage[token[m]] \in {"publishing", "ok"} /\ cur[token[m]] = m

\* Another pass may claim m, now or when its backoff or lease is over.
Claimable(m) == Pending(m) /\ ~Held(m)

Budget(m) ==
  /\ IsFiniteSet(Senders(m))
  /\ copies[m] + Cardinality(Senders(m)) + (IF Claimable(m) THEN 1 ELSE 0) <= 1 + trouble

SendsAreBudgeted == \A m \in Message : Budget(m)

\* Senders leave: the row may be claimed again for the one that left, or for
\* the trouble that made it.
LEMMA BudgetKept ==
  ASSUME TypeOK, NEW m \in Message, Budget(m), copies'[m] = copies[m],
         Senders(m)' \subseteq Senders(m),
         \/ trouble' = trouble + 1
         \/ /\ trouble' = trouble
            /\ Claimable(m)' => Claimable(m) \/ Senders(m)' # Senders(m)
  PROVE  Budget(m)'
<1> DEFINE c == Cardinality(Senders(m))
           d == Cardinality(Senders(m)')
<1>1. IsFiniteSet(Senders(m)') /\ d <= c /\ (c = d => Senders(m)' = Senders(m))
  BY FS_Subset DEF Budget
<1>2. c \in Nat /\ d \in Nat /\ copies[m] \in Nat /\ trouble \in Nat
  BY <1>1, FS_CardinalityType DEF Budget, TypeOK
<1>3. copies[m] + c + (IF Claimable(m) THEN 1 ELSE 0) <= 1 + trouble
  BY DEF Budget
<1>4. copies'[m] + d + (IF Claimable(m)' THEN 1 ELSE 0) <= 1 + trouble'
  <2> HIDE DEF c, d
  <2> QED
    BY <1>1, <1>2, <1>3
<1> QED
  BY <1>1, <1>4 DEF Budget

\* A claim makes one sender of a row that nobody else may claim then.
LEMMA BudgetClaimed ==
  ASSUME TypeOK, NEW m \in Message, NEW s \in Relay, Budget(m),
         copies'[m] = copies[m], trouble' = trouble,
         Senders(m)' = Senders(m) \cup {s}, Claimable(m), ~Claimable(m)'
  PROVE  Budget(m)'
<1> DEFINE c == Cardinality(Senders(m))
           d == Cardinality(Senders(m)')
<1>0. IsFiniteSet(Senders(m)) /\ c \in Nat
  BY FS_CardinalityType DEF Budget
<1>1. IsFiniteSet(Senders(m)') /\ (d = c \/ d = c + 1)
  BY <1>0, FS_AddElement
<1>2. c \in Nat /\ d \in Nat /\ copies[m] \in Nat /\ trouble \in Nat
  BY <1>0, <1>1, FS_CardinalityType DEF TypeOK
<1>3. copies[m] + c + 1 <= 1 + trouble
  BY DEF Budget
<1>4. copies'[m] + d + 0 <= 1 + trouble'
  <2> HIDE DEF c, d
  <2> QED
    BY <1>1, <1>2, <1>3
<1> QED
  BY <1>1, <1>4 DEF Budget

\* A sender that is heard of by the broker has become a copy.
LEMMA BudgetSent ==
  ASSUME TypeOK, NEW m \in Message, NEW s \in Senders(m), Budget(m),
         copies'[m] = copies[m] + 1, Senders(m)' = Senders(m) \ {s},
         \/ trouble' = trouble + 1
         \/ trouble' = trouble /\ (Claimable(m)' => Claimable(m))
  PROVE  Budget(m)'
<1> DEFINE c == Cardinality(Senders(m))
           d == Cardinality(Senders(m)')
<1>1. IsFiniteSet(Senders(m)') /\ d = c - 1
  BY FS_RemoveElement DEF Budget
<1>2. c \in Nat /\ d \in Nat /\ copies[m] \in Nat /\ trouble \in Nat
  BY <1>1, FS_CardinalityType DEF Budget, TypeOK
<1>3. copies[m] + c + (IF Claimable(m) THEN 1 ELSE 0) <= 1 + trouble
  BY DEF Budget
<1>4. copies'[m] + d + (IF Claimable(m)' THEN 1 ELSE 0) <= 1 + trouble'
  <2> HIDE DEF c, d
  <2> QED
    BY <1>1, <1>2, <1>3
<1> QED
  BY <1>1, <1>4 DEF Budget

\* Every step keeps the budget.
LEMMA BudgetStep ==
  ASSUME TypeOK, TypeOK', IInv, SendsAreBudgeted, [Next]_vars
  PROVE  SendsAreBudgeted'
<1> SUFFICES ASSUME NEW m \in Message PROVE Budget(m)'
  BY DEF SendsAreBudgeted
<1>0. /\ Budget(m) /\ trouble \in Nat
      /\ \A s \in Relay : todo[s] \subseteq Message /\ (stage[s] = "idle" => todo[s] = {})
  BY DEF SendsAreBudgeted, TypeOK, IInv, WorkIsClaimed
<1> USE OutboxAssumption DEF pvars, rvars, wvars
<1>1. ASSUME NEW s \in Relay, Claim(s) PROVE Budget(m)'
  <2> DEFINE batch == OldestOf(DueMessages)
  <2>1. \A q \in batch : q \in Message /\ due[q] /\ Pending(q)
    BY DEF OldestOf, DueMessages
  <2>2. /\ stage[s] = "idle" /\ stage' = [stage EXCEPT ![s] = "prologue"]
        /\ todo' = [todo EXCEPT ![s] = batch]
        /\ due' = [q \in Message |-> due[q] /\ q \notin batch]
        /\ token' = [q \in Message |-> IF q \in batch THEN s ELSE token[q]]
        /\ UNCHANGED <<tx, row, cur, copies, trouble>>
    BY <1>1 DEF Claim
  <2> HIDE DEF batch
  <2>3. todo[s] = {} /\ s \notin Senders(m)
    BY <1>0, <2>2 DEF Senders
  <2>4. CASE m \in batch
    <3>1. Senders(m)' = Senders(m) \cup {s}
      BY <2>2, <2>3, <2>4 DEF Senders, TypeOK
    <3>2. Claimable(m)
      BY <2>1, <2>4 DEF Claimable, Held
    <3>3. ~Claimable(m)'
      BY <2>2, <2>4 DEF Claimable, Held, TypeOK
    <3> QED
      BY <1>0, <2>2, <3>1, <3>2, <3>3, BudgetClaimed
  <2>5. CASE m \notin batch
    <3>1. Senders(m)' = Senders(m)
      BY <2>2, <2>3, <2>5 DEF Senders, TypeOK
    <3>2. Claimable(m)' => Claimable(m)
      BY <2>2, <2>3, <2>5 DEF Claimable, Held, Pending, TypeOK
    <3> QED
      BY <1>0, <2>2, <3>1, <3>2, BudgetKept
  <2> QED
    BY <2>4, <2>5
<1>2. ASSUME NEW s \in Relay, BuildClient(s) PROVE Budget(m)'
  <2>1. Senders(m)' = Senders(m) /\ (Claimable(m)' <=> Claimable(m))
    BY <1>2 DEF BuildClient, Senders, Claimable, Held, Pending, TypeOK
  <2>2. copies' = copies /\ (trouble' = trouble \/ trouble' = trouble + 1)
    BY <1>2 DEF BuildClient, Happens
  <2> QED
    BY <1>0, <2>1, <2>2, BudgetKept
<1>3. ASSUME NEW s \in Relay, SettleBroken(s) PROVE Budget(m)'
  <2>1. PICK q \in todo[s] : /\ RecordFailure(s, q)
                             /\ todo' = [todo EXCEPT ![s] = @ \ {q}]
    BY <1>3 DEF SettleBroken
  <2>2. /\ stage[s] = "broken" /\ UNCHANGED <<tx, row, stage, cur, copies, trouble>>
    BY <1>3 DEF SettleBroken
  <2>3. Senders(m)' = IF q = m THEN Senders(m) \ {s} ELSE Senders(m)
    BY <2>1, <2>2 DEF Senders, TypeOK
  <2>4. CASE q = m
    <3>1. s \in Senders(m)
      BY <2>1, <2>4 DEF Senders
    <3> QED
      BY <1>0, <2>2, <2>3, <2>4, <3>1, BudgetKept
  <2>5. CASE q # m
    <3>1. token'[m] = token[m] /\ due'[m] = due[m]
      BY <1>0, <2>1, <2>5 DEF RecordFailure, TypeOK
    <3>2. Claimable(m)' => Claimable(m)
      BY <2>1, <2>2, <2>5, <3>1 DEF Claimable, Held, Pending, TypeOK
    <3> QED
      BY <1>0, <2>2, <2>3, <2>5, <3>2, BudgetKept
  <2> QED
    BY <2>4, <2>5
<1>4. ASSUME NEW s \in Relay, StartPublish(s) PROVE Budget(m)'
  <2>1. PICK q \in todo[s] : /\ cur' = [cur EXCEPT ![s] = q]
                             /\ todo' = [todo EXCEPT ![s] = @ \ {q}]
    BY <1>4 DEF StartPublish
  <2>2. /\ stage[s] = "batch" /\ stage' = [stage EXCEPT ![s] = "publishing"]
        /\ UNCHANGED <<tx, row, due, token, copies, trouble>>
    BY <1>4 DEF StartPublish
  <2>3. Senders(m)' = Senders(m)
    BY <2>1, <2>2 DEF Senders, TypeOK
  <2>4. Claimable(m)' => Claimable(m)
    BY <2>1, <2>2 DEF Claimable, Held, Pending, TypeOK
  <2> QED
    BY <1>0, <2>2, <2>3, <2>4, BudgetKept
<1>5. ASSUME NEW s \in Relay, HitDeadline(s) \/ EndPass(s) \/ Crash(s)
      PROVE  Budget(m)'
  <2>1. /\ stage' = [stage EXCEPT ![s] = "idle"] /\ todo' = [todo EXCEPT ![s] = {}]
        /\ cur' = [cur EXCEPT ![s] = NoMessage] /\ UNCHANGED <<tx, row, copies>>
    BY <1>5 DEF HitDeadline, EndPass, Crash, Idle
  <2>2. Senders(m)' = Senders(m) \ {s}
    BY <2>1 DEF Senders, TypeOK
  <2>3. CASE Crash(s)
    <3>1. trouble' = trouble + 1
      BY <2>3 DEF Crash, Happens
    <3> QED
      BY <1>0, <2>1, <2>2, <3>1, BudgetKept
  <2>4. CASE HitDeadline(s) \/ EndPass(s)
    <3>1. trouble' = trouble /\ stage[s] \in {"batch", "broken"}
      BY <2>4 DEF HitDeadline, EndPass
    <3>2. CASE s \in Senders(m)
      BY <1>0, <2>1, <2>2, <3>1, <3>2, BudgetKept
    <3>3. CASE s \notin Senders(m)
      <4>1. m \notin todo[s]
        BY <3>3 DEF Senders
      <4>2. /\ due'[m] = due[m]
            /\ token'[m] = IF token[m] = s THEN NoPass ELSE token[m]
        <5>1. CASE HitDeadline(s)
          <6>1. m \notin Released(s)
            BY <4>1 DEF Released
          <6>2. /\ due' = [q \in Message |-> due[q] \/ q \in Released(s)]
                /\ token' = [q \in Message |-> IF q \in Released(s) THEN NoPass
                                                ELSE Forget(s)[q]]
            BY <5>1 DEF HitDeadline
          <6>3. Forget(s)[m] = IF token[m] = s THEN NoPass ELSE token[m]
            BY DEF Forget
          <6> QED
            BY <6>1, <6>2, <6>3 DEF TypeOK
        <5>2. CASE EndPass(s)
          BY <5>2 DEF EndPass, Forget
        <5> QED
          BY <2>4, <5>1, <5>2
      <4>3. Claimable(m)' => Claimable(m)
        BY <2>1, <3>1, <4>1, <4>2 DEF Claimable, Held, Pending, TypeOK
      <4> QED
        BY <1>0, <2>1, <2>2, <3>1, <4>3, BudgetKept
    <3> QED
      BY <3>2, <3>3
  <2> QED
    BY <1>5, <2>3, <2>4
<1>6. ASSUME NEW s \in Relay, Accepted(s) \/ PublishError(s)
      PROVE  Budget(m)'
  <2>1. /\ stage[s] = "publishing"
        /\ \/ trouble' = trouble + 1 /\ stage' = [stage EXCEPT ![s] = "error"]
              /\ (Arrives(cur[s]) \/ UNCHANGED copies)
           \/ trouble' = trouble /\ stage' = [stage EXCEPT ![s] = "ok"] /\ Arrives(cur[s])
        /\ UNCHANGED <<tx, row, due, token, todo, cur>>
    BY <1>6 DEF Accepted, PublishError, Happens
  <2>2. cur[s] \in Message /\ cur[s] \notin todo[s]
    BY <2>1 DEF IInv, WorkIsClaimed, Working
  <2>3. CASE m = cur[s]
    <3>1. s \in Senders(m) /\ Senders(m)' = Senders(m) \ {s}
      BY <2>1, <2>2, <2>3 DEF Senders, TypeOK
    <3>2. copies'[m] = copies[m] \/ copies'[m] = copies[m] + 1
      BY <2>1, <2>2, <2>3 DEF Arrives, TypeOK
    <3>3. trouble' = trouble => copies'[m] = copies[m] + 1 /\ (Claimable(m)' => Claimable(m))
      BY <1>0, <2>1, <2>2, <2>3 DEF Arrives, Claimable, Held, Pending, TypeOK
    <3>4. trouble' = trouble + 1 \/ trouble' = trouble
      BY <2>1
    <3>5. CASE copies'[m] = copies[m] + 1
      BY <1>0, <3>1, <3>3, <3>4, <3>5, BudgetSent
    <3>6. CASE copies'[m] = copies[m]
      <4>1. trouble' = trouble + 1
        BY <3>3, <3>4, <3>6 DEF TypeOK
      <4> QED
        BY <1>0, <3>1, <3>6, <4>1, BudgetKept
    <3> QED
      BY <3>2, <3>5, <3>6
  <2>4. CASE m # cur[s]
    <3>1. Senders(m)' = Senders(m) /\ copies'[m] = copies[m]
      BY <2>1, <2>2, <2>4 DEF Senders, Arrives, TypeOK
    <3>2. Claimable(m)' => Claimable(m)
      BY <2>1, <2>2, <2>4 DEF Claimable, Held, Pending, TypeOK
    <3>3. trouble' = trouble + 1 \/ trouble' = trouble
      BY <2>1
    <3> QED
      BY <1>0, <3>1, <3>2, <3>3, BudgetKept
  <2> QED
    BY <2>3, <2>4
<1>7. ASSUME NEW s \in Relay, SettleSuccess(s) \/ SettleFailure(s)
      PROVE  Budget(m)'
  <2>1. /\ stage[s] \in {"ok", "error"} /\ stage' = [stage EXCEPT ![s] = "batch"]
        /\ cur' = [cur EXCEPT ![s] = NoMessage]
        /\ UNCHANGED <<tx, todo, copies, trouble>>
    BY <1>7 DEF SettleSuccess, SettleFailure, NextRow
  <2>2. cur[s] \in Message /\ cur[s] \notin todo[s]
    BY <2>1 DEF IInv, WorkIsClaimed, Working
  <2>3. Senders(m)' = Senders(m)
    BY <2>1 DEF Senders, TypeOK
  <2>4. Claimable(m)' => Claimable(m)
    <3>1. CASE SettleSuccess(s)
      BY <2>1, <2>2, <3>1 DEF SettleSuccess, Claimable, Held, Pending, TypeOK
    <3>2. CASE SettleFailure(s) /\ cur[s] = m
      BY <2>1, <2>2, <3>2 DEF SettleFailure, RecordFailure, Claimable, Held, Pending, TypeOK
    <3>3. CASE SettleFailure(s) /\ cur[s] # m
      BY <2>1, <2>2, <3>3 DEF SettleFailure, RecordFailure, Claimable, Held, Pending, TypeOK
    <3> QED
      BY <1>7, <3>1, <3>2, <3>3
  <2> QED
    BY <1>0, <2>1, <2>3, <2>4, BudgetKept
<1>8. ASSUME NEW s \in Relay, OutliveLease(s) PROVE Budget(m)'
  <2>1. Senders(m)' = Senders(m) /\ copies' = copies /\ trouble' = trouble + 1
    BY <1>8 DEF OutliveLease, Senders, Happens
  <2> QED
    BY <1>0, <2>1, BudgetKept
<1>9. ASSUME NEW q \in Message, Commit(q) PROVE Budget(m)'
  <2>1. Senders(m)' = Senders(m) /\ UNCHANGED <<copies, trouble, row, token, due, todo, stage, cur>>
        /\ tx' = [tx EXCEPT ![q] = "committed"] /\ tx[q] = "open"
    BY <1>9 DEF Commit, Senders
  <2>2. CASE q = m
    <3>1. copies[m] = 0
      BY <2>1, <2>2 DEF IInv, PublishedIsDelivered, Delivered, TypeOK
    <3>2. Senders(m) = {}
      <4>1. ASSUME NEW s \in Senders(m) PROVE FALSE
        <5>1. s \in Relay /\ m \in Claimed(s)
          BY <4>1 DEF Senders, Claimed, Working
        <5> QED
          BY <2>1, <2>2, <5>1 DEF IInv, ClaimsAreInOrder
      <4> QED
        BY <4>1
    <3>3. IsFiniteSet(Senders(m)') /\ Cardinality(Senders(m)') = 0 /\ copies'[m] = 0
      BY <2>1, <3>1, <3>2, FS_EmptySet
    <3>4. copies'[m] + Cardinality(Senders(m)') + (IF Claimable(m)' THEN 1 ELSE 0) <= 1 + trouble'
      BY <1>0, <2>1, <3>3
    <3> QED
      BY <3>3, <3>4 DEF Budget
  <2>3. CASE q # m
    <3>1. Claimable(m)' => Claimable(m)
      BY <2>1, <2>3 DEF Claimable, Held, Pending, TypeOK
    <3> QED
      BY <1>0, <2>1, <3>1, BudgetKept
  <2> QED
    BY <2>2, <2>3
<1>10. ASSUME NEW q \in Message, Enqueue(q) \/ EnqueueDuplicate(q) \/ Rollback(q)
                                   \/ Abandon(q) \/ Prune(q)
       PROVE  Budget(m)'
  <2>1. /\ Senders(m)' = Senders(m)
        /\ UNCHANGED <<copies, trouble, token, due, todo, stage, cur>>
    BY <1>10 DEF Enqueue, EnqueueDuplicate, Rollback, Abandon, Prune, Senders
  <2>2. Pending(m)' => Pending(m)
    BY <1>10 DEF Enqueue, EnqueueDuplicate, Rollback, Abandon, Prune, Pending, TypeOK
  <2>3. Claimable(m)' => Claimable(m)
    BY <2>1, <2>2 DEF Claimable, Held
  <2> QED
    BY <1>0, <2>1, <2>3, BudgetKept
<1>11. ASSUME NEW q \in Message, BecomeDue(q) PROVE Budget(m)'
  <2>1. Senders(m)' = Senders(m) /\ UNCHANGED <<copies, trouble>>
    BY <1>11 DEF BecomeDue, Senders
  <2>2. Claimable(m)' => Claimable(m)
    BY <1>11 DEF BecomeDue, Claimable, Held, Pending, TypeOK
  <2> QED
    BY <1>0, <2>1, <2>2, BudgetKept
<1>12. CASE UNCHANGED vars
  BY <1>0, <1>12 DEF vars, Budget, Senders, Claimable, Held, Pending
<1> QED
  BY <1>1, <1>2, <1>3, <1>4, <1>5, <1>6, <1>7, <1>8, <1>9, <1>10, <1>11, <1>12
    DEF Next, Pass, Table

\* A message goes out once, and once more only for every crash, stall or error
\* there was, whatever the passes and their deadlines do beside each other.
THEOREM DuplicatesAreCaused == Spec => []DuplicatesHaveCauses
<1>1. Init => SendsAreBudgeted
  <2> SUFFICES ASSUME Init, NEW m \in Message PROVE Budget(m)
    BY DEF SendsAreBudgeted
  <2>1. Senders(m) = {} /\ copies[m] = 0 /\ trouble = 0
    BY DEF Init, Senders
  <2>2. Cardinality({}) = 0 /\ IsFiniteSet({})
    BY FS_EmptySet
  <2>3. 0 + 0 + (IF Claimable(m) THEN 1 ELSE 0) <= 1 + 0
    OBVIOUS
  <2> QED
    BY <2>1, <2>2, <2>3 DEF Budget
<1>2. TypeOK /\ TypeOK' /\ IInv /\ SendsAreBudgeted /\ [Next]_vars => SendsAreBudgeted'
  BY BudgetStep
<1>3. TypeOK /\ SendsAreBudgeted => DuplicatesHaveCauses
  <2> SUFFICES ASSUME TypeOK, NEW m \in Message, Budget(m)
               PROVE  copies[m] <= 1 + trouble
    BY DEF SendsAreBudgeted, DuplicatesHaveCauses
  <2>1. copies[m] \in Nat /\ trouble \in Nat /\ Cardinality(Senders(m)) \in Nat
    BY FS_CardinalityType DEF Budget, TypeOK
  <2> QED
    BY <2>1 DEF Budget
<1> QED
  BY Invariance, <1>1, <1>2, <1>3, PTL DEF Spec

-----------------------------------------------------------------------------
(***************************************************************************)
(* The refinement.                                                         *)
(***************************************************************************)
Promised == {m \in Message : tx[m] = "committed" /\ carrier[m] = m}

\* What every step but four leaves alone.
PromiseUnchanged ==
  Promised' = Promised /\ ahead' = ahead /\ Delivered' = Delivered
    /\ Abandoned' = Abandoned

\* A commit is a promise behind older committed rows of its key, or nothing
\* if the message was collapsed.
LEMMA CommitPromises ==
  ASSUME TypeOK, IInv, NEW m \in Message, Commit(m)
  PROVE  (\E before \in SUBSET Message : Promise!Promise(m, before)) \/ PromiseUnchanged
<1> DEFINE before == {q \in older[m] : SameKey(m, q) /\ tx[q] = "committed"}
<1>1. before \in SUBSET Message /\ ahead' = [ahead EXCEPT ![m] = before]
      /\ UNCHANGED <<row, copies, carrier>> /\ tx' = [tx EXCEPT ![m] = "committed"]
      /\ tx[m] = "open"
  BY DEF TypeOK, Commit, rvars
<1>2. Delivered' = Delivered /\ Abandoned' = Abandoned
  BY <1>1 DEF Delivered, Abandoned
<1>3. CASE carrier[m] = m
  <2>1. Promised' = Promised \cup {m} /\ m \notin Promised
    BY <1>1, <1>3 DEF Promised, TypeOK
  <2>2. before \subseteq Promised
    BY <1>1 DEF IInv, AheadIsOlder, Promised
  <2>3. Promise!Promise(m, before)
    BY <1>1, <1>2, <2>1, <2>2 DEF Promise!Promise, Promised
  <2> HIDE DEF before
  <2> QED
    BY <1>1, <2>3 DEF Promise!Promise
<1>4. CASE carrier[m] # m
  <2>1. before = {} /\ ahead[m] = {}
    BY <1>1, <1>4 DEF IInv, CarriersAreRows, RowsFollowTx
  <2>2. ahead' = ahead
    BY <1>1, <2>1 DEF TypeOK
  <2>3. Promised' = Promised
    BY <1>1, <1>4 DEF Promised, TypeOK
  <2> QED
    BY <1>2, <2>2, <2>3 DEF PromiseUnchanged
<1> QED
  BY <1>3, <1>4

\* What the broker accepts is next in its ordering key.
LEMMA ArrivalDelivers ==
  ASSUME TypeOK, IInv, NEW s \in Relay, stage[s] = "publishing",
         Arrives(cur[s]), UNCHANGED <<pvars, row>>
  PROVE  cur[s] \in Message /\ Promise!Deliver(cur[s])
<1>1. cur[s] \in Claimed(s)
  BY DEF Claimed, Working
<1>2. cur[s] \in Message /\ ahead[cur[s]] \subseteq Delivered \cup Abandoned
  BY <1>1, ClaimedIsNext
<1>3. cur[s] \in Promised
  BY <1>1, <1>2 DEF IInv, ClaimsAreInOrder, CarriersAreRows, Promised
<1>4. Delivered' = Delivered \cup {cur[s]}
  BY <1>2 DEF TypeOK, Arrives, Delivered
<1>5. Promised' = Promised /\ ahead' = ahead /\ Abandoned' = Abandoned
  BY DEF Promised, Abandoned, pvars
<1> QED
  BY <1>2, <1>3, <1>4, <1>5 DEF Promise!Deliver, Promised

\* Every step is one of the promise's, or none.
LEMMA StepRefines ==
  ASSUME TypeOK, IInv, [Next]_vars
  PROVE  [Promise!Next]_(Promise!pvars)
<1> SUFFICES Promise!Next \/ PromiseUnchanged
  BY DEF PromiseUnchanged, Promise!pvars, Promised
<1>1. ASSUME NEW s \in Relay, Pass(s) PROVE Promise!Next \/ PromiseUnchanged
  <2>1. CASE Accepted(s)
    BY <2>1, ArrivalDelivers DEF Accepted, rvars, Promise!Next
  <2>2. CASE PublishError(s)
    <3>1. CASE UNCHANGED copies
      BY <2>2, <3>1 DEF PublishError, PromiseUnchanged, Promised, Delivered, Abandoned,
        pvars, rvars
    <3>2. CASE Arrives(cur[s])
      BY <2>2, <3>2, ArrivalDelivers DEF PublishError, rvars, Promise!Next
    <3> QED
      BY <2>2, <3>1, <3>2 DEF PublishError
  <2>3. CASE SettleSuccess(s)
    <3>1. Abandoned' = Abandoned
      BY <2>3 DEF SettleSuccess, Pending, Abandoned, TypeOK
    <3> QED
      BY <2>3, <3>1 DEF SettleSuccess, PromiseUnchanged, Promised, Delivered, pvars
  <2>4. CASE ~(Accepted(s) \/ PublishError(s) \/ SettleSuccess(s))
    BY <1>1, <2>4 DEF Pass, PromiseUnchanged, Promised, Delivered, Abandoned, pvars,
      rvars, Claim, BuildClient, SettleBroken, StartPublish, HitDeadline, EndPass,
      SettleFailure, Crash, OutliveLease
  <2> QED
    BY <2>1, <2>2, <2>3, <2>4
<1>2. ASSUME NEW m \in Message, Table(m) PROVE Promise!Next \/ PromiseUnchanged
  <2>1. CASE Commit(m)
    BY <2>1, CommitPromises DEF Promise!Next
  <2>2. CASE Abandon(m)
    <3>1. m \in Promised
      BY <2>2 DEF Abandon, Pending, IInv, CarriersAreRows, Promised
    <3>2. Abandoned' = Abandoned \cup {m}
      BY <2>2 DEF Abandon, Abandoned, TypeOK
    <3>3. Promise!Withdraw(m)
      BY <2>2, <3>1, <3>2 DEF Abandon, Promise!Withdraw, Promised, Delivered, pvars
    <3> QED
      BY <3>3 DEF Promise!Next
  <2>3. CASE Enqueue(m) \/ EnqueueDuplicate(m)
    <3>1. /\ tx[m] = "idle" /\ row[m] = "none" /\ tx' = [tx EXCEPT ![m] = "open"]
          /\ row' = [row EXCEPT ![m] = "pending"] \/ row' = row
          /\ \A q \in Message : q # m => carrier'[q] = carrier[q]
          /\ UNCHANGED <<ahead, copies>>
      BY <2>3 DEF Enqueue, EnqueueDuplicate, IInv, RowsFollowTx, TypeOK, rvars
    <3> QED
      BY <3>1 DEF PromiseUnchanged, Promised, Delivered, Abandoned, TypeOK
  <2>4. CASE Rollback(m)
    <3>1. row[m] \in {"none", "pending"}
      BY <2>4 DEF Rollback, IInv, RowsFollowTx, CarriersAreRows
    <3> QED
      BY <2>4, <3>1 DEF Rollback, PromiseUnchanged, Promised, Delivered, Abandoned, TypeOK
  <2>5. CASE BecomeDue(m)
    BY <2>5 DEF BecomeDue, PromiseUnchanged, Promised, Delivered, Abandoned, pvars
  <2>6. CASE Prune(m)
    BY <2>6 DEF Prune, PromiseUnchanged, Promised, Delivered, Abandoned, pvars, TypeOK
  <2> QED
    BY <1>2, <2>1, <2>2, <2>3, <2>4, <2>5, <2>6 DEF Table
<1>3. CASE UNCHANGED vars
  BY <1>3 DEF vars, pvars, rvars, PromiseUnchanged, Promised, Delivered, Abandoned
<1> QED
  BY <1>1, <1>2, <1>3 DEF Next

\* The outbox implements the safety half of what it promises: a commit promises
\* its message, and the broker first gets it after those it must not overtake.
THEOREM OutboxImplementsPromise == Spec => Promise!Safe
<1>1. Init => Promise!Init
  BY DEF Init, Promise!Init, Delivered, Abandoned
<1>2. TypeOK /\ IInv /\ [Next]_vars => [Promise!Next]_(Promise!pvars)
  BY StepRefines
<1> QED
  BY Invariance, <1>1, <1>2, PTL DEF Spec, Promise!Safe

=============================================================================
