----------------------- MODULE MessageReceiver_proofs -----------------------
(***************************************************************************)
(* Proofs about MessageReceiver: what the engine acknowledges is settled,  *)
(* nothing is shown twice, and its subscription misses nothing.            *)
(***************************************************************************)
EXTENDS MessageReceiver, FiniteSetTheorems, TLAPS

\* Nothing leaves the queue but by acknowledgement and expiry.
LogIsKept == \A i \in Indices : i \in held \/ i <= acked \/ i \in expired

\* The record the pass is at; in these phases the cursor is at it already.
Current == {i \in batch : At(i)}
Passing == {"effect", "mark"}
Ongoing == IF phase \in Passing THEN Current ELSE {}

\* A pass meets its records in index order, none of them twice.
PassInOrder ==
  /\ cursor <= mem
  /\ batch # {} => phase \in {"receive", "record"} \cup Passing
  /\ \A j \in batch : mem < j \/ (j \in Ongoing /\ mem <= j)
  /\ \A j \in Ongoing : j <= cursor
  /\ \A i \in kept \cup marked : i <= cursor /\ i \notin batch

\* A message is decrypted under one index, and only what was decrypted has a
\* place in the transcript, one place.
DecryptedOnce ==
  /\ \A i \in handled : log[i] \in used
  /\ \A i, j \in handled : log[i] = log[j] => i = j
  /\ kept \cup marked \subseteq handled
  /\ kept \cap marked = {}
  /\ phase \in {"record"} \cup Passing => Current \subseteq handled

\* The engine leaves nothing behind it, neither where the cursor is nor below a
\* record it has yet to meet.
Settled == {i \in Indices : Done(i) \/ i \in expired \/ i \in unfinished}

NothingBehind ==
  /\ mem <= Len(log) /\ top <= Len(log) /\ acked <= Len(log)
  /\ \A i \in Indices : i <= mem => i \in Settled \cup Ongoing
  /\ \A i \in Indices : i <= top \/ i <= acked => i \in Settled
  /\ \A j \in batch : \A i \in Indices : i < j => i \in Settled \cup batch

\* What the pass failed on, or has yet to meet, lies beyond what it may let the
\* relay delete.
FailuresUnacked == \A i \in batch \cup failed : acked < i /\ top < i

\* Who has read since it subscribed is subscribed.
Listening == covered # NoIndex => listening

IInv ==
  /\ LogIsKept /\ PassInOrder /\ DecryptedOnce /\ NothingBehind
  /\ FailuresUnacked /\ Listening /\ PushesCoverTheRest

-----------------------------------------------------------------------------
\* What a write leaves in the log.
LEMMA WriteExtends ==
  ASSUME TypeOK, NEW m \in Message, Write(m)
  PROVE  /\ log' \in Seq(Message)
         /\ Indices' = Indices \cup {Len(log) + 1}
         /\ log'[Len(log) + 1] = m
         /\ \A i \in Indices : log'[i] = log[i] /\ i <= Len(log)
         /\ Len(log) + 1 \in Nat
  BY DEF TypeOK, QueueTypeOK, Write, Indices

\* An index is a positive number.
LEMMA IndexIsNat ==
  ASSUME TypeOK
  PROVE  /\ Indices = 1 .. Len(log) /\ Len(log) \in Nat
         /\ \A i \in Indices : i \in Nat /\ log[i] \in Message
  BY DEF TypeOK, QueueTypeOK, Indices

LEMMA Trouble ==
  ASSUME TypeOK, Happens \/ Smoothly
  PROVE  trouble' \in Nat
  BY DEF TypeOK, QueueTypeOK, Happens, Smoothly

\* The end of one record keeps the types of the pass.
LEMMA NextRecordType ==
  ASSUME TypeOK, NEW i \in Indices, NEW ok \in BOOLEAN, NextRecord(i, ok)
  PROVE  /\ top' \in Nat /\ failed' \in SUBSET Indices
         /\ batch' \in SUBSET Indices /\ phase' \in Phase
  BY IndexIsNat DEF TypeOK, NextRecord, Phase

\* Every step keeps the types.
LEMMA TypeStep == TypeOK /\ [Next]_vars => TypeOK'
<1> SUFFICES ASSUME TypeOK, [Next]_vars PROVE TypeOK'
  OBVIOUS
<1> USE Trouble, IndexIsNat
<1>1. ASSUME NEW m \in Message, Arrive(m) PROVE TypeOK'
  BY <1>1, WriteExtends
     DEF Arrive, Write, TypeOK, QueueTypeOK, subscription, disk, pass
<1>2. ASSUME NEW i \in tasks, Push(i) PROVE TypeOK'
  BY <1>2 DEF Push, TypeOK, QueueTypeOK, queue, disk, pass, Indices
<1>3. ASSUME Expire PROVE TypeOK'
  BY <1>3 DEF Expire, ExpireOldest, TypeOK, QueueTypeOK, subscription, disk, pass, Indices
<1>4. ASSUME DropConnection \/ RelayCrash PROVE TypeOK'
  BY <1>4 DEF DropConnection, RelayCrash, TypeOK, QueueTypeOK, queue, disk, pass, Indices
<1>5. ASSUME Start PROVE TypeOK'
  BY <1>5 DEF Start, TypeOK, QueueTypeOK, queue, disk, Indices, Phase
<1>6. ASSUME Stop PROVE TypeOK'
  BY <1>6 DEF Stop, TypeOK, QueueTypeOK, queue, Indices, Phase
<1>7. ASSUME Read PROVE TypeOK'
  <2>1. Page(cursor + 1, ReadBatch) \in SUBSET Indices
    BY DEF Page, Readable, TypeOK, QueueTypeOK
  <2> QED
    BY <1>7, <2>1 DEF Read, TypeOK, QueueTypeOK, queue, disk, Indices, Phase
<1>8. ASSUME ReadFails PROVE TypeOK'
  BY <1>8 DEF ReadFails, TypeOK, QueueTypeOK, relay, queue, subscription, disk, pass, Indices
<1>9. ASSUME NEW i \in batch, Receive(i) PROVE TypeOK'
  BY <1>9 DEF Receive, At, TypeOK, QueueTypeOK, relay, queue, subscription, Indices, Phase
<1>10. ASSUME NEW i \in batch, Undecryptable(i) PROVE TypeOK'
  BY <1>10, NextRecordType
     DEF Undecryptable, Fail, Advance, AdvanceFails, TypeOK, QueueTypeOK, relay, queue, subscription, Indices
<1>11. ASSUME NEW i \in batch, GroupUnavailable(i) PROVE TypeOK'
  BY <1>11 DEF GroupUnavailable, TypeOK, QueueTypeOK, relay, queue, subscription, disk, Indices, Phase
<1>12. ASSUME NEW i \in batch, Duplicate(i) PROVE TypeOK'
  BY <1>12, NextRecordType
     DEF Duplicate, Fail, Advance, AdvanceFails, TypeOK, QueueTypeOK, relay, queue, subscription, Indices, Phase
<1>13. ASSUME NEW i \in batch, Mark(i) PROVE TypeOK'
  BY <1>13, NextRecordType
     DEF Mark, Fail, TypeOK, QueueTypeOK, relay, queue, subscription, Indices
<1>14. ASSUME NEW i \in batch, RecordChat(i) PROVE TypeOK'
  BY <1>14, NextRecordType
     DEF RecordChat, Fail, Advance, AdvanceFails, TypeOK, QueueTypeOK, relay, queue, subscription, Indices
<1>15. ASSUME NEW i \in batch, AdvanceControl(i) PROVE TypeOK'
  BY <1>15, NextRecordType
     DEF AdvanceControl, Fail, Advance, AdvanceFails, TypeOK, QueueTypeOK, relay, queue, subscription, Indices, Phase
<1>16. ASSUME NEW i \in batch, Effect(i) PROVE TypeOK'
  BY <1>16, NextRecordType
     DEF Effect, Fail, TypeOK, QueueTypeOK, relay, queue, subscription, Indices
<1>17. ASSUME Ack PROVE TypeOK'
  BY <1>17 DEF Ack, Acknowledge, TypeOK, QueueTypeOK, queue, subscription, disk, Indices, Phase
<1>18. ASSUME Settle PROVE TypeOK'
  BY <1>18 DEF Settle, TypeOK, QueueTypeOK, relay, queue, subscription, Indices, Phase
<1>19. ASSUME UNCHANGED vars PROVE TypeOK'
  BY <1>19 DEF vars, relay, subscription, disk, pass, queue, TypeOK, QueueTypeOK, Indices
<1> QED
  BY <1>1, <1>2, <1>3, <1>4, <1>5, <1>6, <1>7, <1>8, <1>9, <1>10, <1>11, <1>12,
    <1>13, <1>14, <1>15, <1>16, <1>17, <1>18, <1>19 DEF Next, Relay, Pump, Apply

-----------------------------------------------------------------------------
\* What is settled stays so.
LEMMA SettledStays ==
  ASSUME TypeOK,
         \A j \in Indices : j \in Indices' /\ log'[j] = log[j],
         kept \subseteq kept', marked \subseteq marked',
         expired \subseteq expired', unfinished \subseteq unfinished'
  PROVE  Settled \subseteq Settled'
  BY DEF TypeOK, Settled, Done

\* The record a pass is at is its lowest.
LEMMA CurrentIsLowest ==
  ASSUME TypeOK, NEW i \in batch, At(i)
  PROVE  /\ i \in Nat /\ i \in Indices /\ i <= Len(log)
         /\ Current = {i}
         /\ \A j \in batch \ {i} : j \in Nat /\ i < j
  BY IndexIsNat DEF TypeOK, Current, At

\* The queue's own steps: an append, the TTL, or none.
LEMMA QueueStep ==
  ASSUME TypeOK, LogIsKept, NothingBehind,
         \/ \E m \in Message : Write(m)
         \/ ExpireOldest
         \/ UNCHANGED queue,
         UNCHANGED <<kept, marked, unfinished, mem, top, batch, phase>>
  PROVE  /\ LogIsKept' /\ NothingBehind'
         /\ \A i \in Indices : i \in Indices' /\ log'[i] = log[i]
<1>1. /\ \A i \in Indices : i \in Indices' /\ log'[i] = log[i]
      /\ expired \subseteq expired' /\ acked' = acked
  <2>1. CASE \E m \in Message : Write(m)
    BY <2>1, WriteExtends DEF Write
  <2>2. CASE ExpireOldest
    BY <2>2 DEF ExpireOldest, Indices
  <2>3. CASE UNCHANGED queue
    BY <2>3 DEF queue, Indices
  <2> QED
    BY <2>1, <2>2, <2>3
<1>2. LogIsKept'
  <2>1. CASE \E m \in Message : Write(m)
    BY <2>1, WriteExtends DEF Write, LogIsKept
  <2>2. CASE ExpireOldest
    BY <2>2 DEF ExpireOldest, Indices, LogIsKept
  <2>3. CASE UNCHANGED queue
    BY <2>3 DEF queue, Indices, LogIsKept
  <2> QED
    BY <2>1, <2>2, <2>3
<1>3. Settled \subseteq Settled'
  BY <1>1, SettledStays
<1>4. /\ Len(log') \in Nat /\ Len(log) <= Len(log')
      /\ \A i \in Indices' : i \in Nat /\ (i \in Indices \/ i > Len(log))
  <2>1. CASE \E m \in Message : Write(m)
    BY <2>1, WriteExtends, IndexIsNat DEF Write, Indices
  <2>2. CASE ExpireOldest \/ UNCHANGED queue
    BY <2>2, IndexIsNat DEF ExpireOldest, queue, Indices
  <2> QED
    BY <2>1, <2>2
<1>5. Ongoing' = Ongoing
  BY DEF Ongoing, Current, At
<1>6. NothingBehind'
  <2>1. /\ mem' <= Len(log') /\ top' <= Len(log') /\ acked' <= Len(log')
    BY <1>1, <1>4, IndexIsNat DEF NothingBehind, TypeOK, QueueTypeOK
  <2>2. ASSUME NEW i \in Indices', i <= mem' PROVE i \in Settled' \cup Ongoing'
    <3>1. i \in Indices
      BY <2>2, <1>4, IndexIsNat DEF NothingBehind, TypeOK
    <3> QED
      BY <3>1, <1>3, <1>5, <2>2 DEF NothingBehind
  <2>3. ASSUME NEW i \in Indices', i <= top' \/ i <= acked' PROVE i \in Settled'
    <3>1. i \in Indices
      BY <2>3, <1>1, <1>4, IndexIsNat DEF NothingBehind, TypeOK, QueueTypeOK
    <3> QED
      BY <3>1, <1>1, <1>3, <2>3 DEF NothingBehind
  <2>4. ASSUME NEW j \in batch', NEW i \in Indices', i < j PROVE i \in Settled' \cup batch'
    <3>1. j \in batch /\ i \in Indices
      BY <2>4, <1>4, IndexIsNat DEF TypeOK
    <3> QED
      BY <3>1, <1>3, <2>4 DEF NothingBehind
  <2> QED
    BY <2>1, <2>2, <2>3, <2>4 DEF NothingBehind
<1> QED
  BY <1>1, <1>2, <1>6

-----------------------------------------------------------------------------
\* The pass is done with a record: it is settled, or failed.
LEMMA Finish ==
  ASSUME TypeOK, PassInOrder, NothingBehind, UNCHANGED queue,
         NEW i \in batch, At(i), NEW ok \in BOOLEAN, NextRecord(i, ok),
         mem' \in {mem, i}, cursor' \in {cursor, mem'},
         kept \subseteq kept', marked \subseteq marked', unfinished \subseteq unfinished',
         kept' \cup marked' \subseteq kept \cup marked \cup {i},
         i \in kept' \cup marked' => i \in kept \cup marked \/ i <= cursor',
         i \in kept' \cup marked' \cup unfinished'
  PROVE  PassInOrder' /\ NothingBehind'
<1>1. /\ i \in Nat /\ i \in Indices /\ i <= Len(log) /\ Current = {i}
      /\ \A j \in batch \ {i} : j \in Nat /\ i < j
  BY CurrentIsLowest
<1>2. /\ cursor \in Nat /\ mem \in Nat /\ top \in Nat /\ acked \in Nat /\ Len(log) \in Nat
      /\ cursor <= mem /\ mem <= i /\ mem <= mem' /\ cursor <= cursor' /\ cursor' <= mem'
  BY <1>1, IndexIsNat DEF TypeOK, QueueTypeOK, PassInOrder
<1>3. /\ batch' = batch \ {i} /\ top' \in {top, i}
      /\ phase' \notin Passing /\ (batch' # {} => phase' = "receive")
  BY DEF NextRecord, Passing
<1>4. UNCHANGED <<log, acked, expired, Indices>>
  BY DEF queue, Indices
<1>5. Settled \subseteq Settled' /\ i \in Settled'
  <2>1. Settled \subseteq Settled'
    BY <1>4, SettledStays
  <2>2. i \in Settled'
    BY <1>1, <1>4 DEF Settled, Done
  <2> QED
    BY <2>1, <2>2
<1>6. \A k \in Indices : k <= i => k \in Settled'
  <2> SUFFICES ASSUME NEW k \in Indices, k <= i, k # i PROVE k \in Settled'
    BY <1>5
  <2>1. k < i
    BY <1>1, IndexIsNat
  <2>2. k \notin batch
    BY <2>1, <1>1, IndexIsNat
  <2> QED
    BY <2>1, <2>2, <1>5 DEF NothingBehind
<1>7. \A k \in Indices : k <= mem => k \in Settled'
  BY <1>5, <1>1 DEF NothingBehind, Ongoing
<1>8. PassInOrder'
  <2>1. \A j \in batch' : mem' < j
    BY <1>1, <1>2, <1>3
  <2>2. ASSUME NEW k \in kept' \cup marked' PROVE k <= cursor' /\ k \notin batch'
    <3>1. CASE k = i
      BY <3>1, <1>3 DEF PassInOrder
    <3>2. CASE k \in kept \cup marked
      BY <3>2, <1>2, <1>3, IndexIsNat DEF PassInOrder, TypeOK
    <3> QED
      BY <3>1, <3>2
  <2> QED
    BY <2>1, <2>2, <1>2, <1>3 DEF PassInOrder, Ongoing
<1>9. NothingBehind'
  <2>1. mem' <= Len(log') /\ top' <= Len(log') /\ acked' <= Len(log')
    BY <1>1, <1>2, <1>3, <1>4 DEF NothingBehind
  <2>2. \A k \in Indices' : k <= mem' => k \in Settled'
    BY <1>4, <1>6, <1>7
  <2>3. \A k \in Indices' : k <= top' \/ k <= acked' => k \in Settled'
    BY <1>3, <1>4, <1>5, <1>6 DEF NothingBehind
  <2>4. ASSUME NEW j \in batch', NEW k \in Indices', k < j PROVE k \in Settled' \cup batch'
    BY <2>4, <1>3, <1>4, <1>5 DEF NothingBehind
  <2> QED
    BY <2>1, <2>2, <2>3, <2>4 DEF NothingBehind
<1> QED
  BY <1>8, <1>9

\* The cursor passes the current record before the record is done.
LEMMA Begin ==
  ASSUME TypeOK, PassInOrder, NothingBehind, UNCHANGED queue,
         NEW i \in batch, At(i), Advance(i), phase' \in Passing,
         UNCHANGED <<kept, marked, unfinished, batch, top>>
  PROVE  PassInOrder' /\ NothingBehind'
<1>1. /\ i \in Nat /\ i \in Indices /\ i <= Len(log) /\ Current = {i}
      /\ \A j \in batch \ {i} : j \in Nat /\ i < j
  BY CurrentIsLowest
<1>2. /\ cursor \in Nat /\ mem \in Nat /\ cursor <= mem /\ mem <= i
      /\ mem' = i /\ cursor' = i
  BY <1>1 DEF TypeOK, PassInOrder, Advance
<1>3. UNCHANGED <<log, acked, expired, Indices, Current>>
  BY DEF queue, Indices, Current, At
<1>4. Settled \subseteq Settled'
  BY <1>3, SettledStays
<1>5. Ongoing' = {i}
  BY <1>1, <1>3 DEF Ongoing
<1>6. \A k \in Indices : k <= i => k \in Settled' \cup {i}
  <2> SUFFICES ASSUME NEW k \in Indices, k <= i, k # i PROVE k \in Settled'
    OBVIOUS
  <2>1. k < i
    BY <1>1, IndexIsNat
  <2>2. k \notin batch
    BY <2>1, <1>1, IndexIsNat
  <2> QED
    BY <2>1, <2>2, <1>4 DEF NothingBehind
<1>7. PassInOrder'
  <2>1. ASSUME NEW j \in batch' PROVE mem' < j \/ (j \in Ongoing' /\ mem' <= j)
    <3>1. j \in batch
      OBVIOUS
    <3>2. CASE j = i
      BY <3>2, <1>1, <1>2, <1>5
    <3>3. CASE j # i
      BY <3>1, <3>3, <1>1, <1>2
    <3> QED
      BY <3>2, <3>3
  <2>2. \A k \in kept' \cup marked' : k <= cursor' /\ k \notin batch'
    BY <1>2, IndexIsNat DEF PassInOrder, TypeOK
  <2>3. /\ cursor' <= mem' /\ phase' \in {"receive", "record"} \cup Passing
        /\ \A j \in Ongoing' : j <= cursor'
    BY <1>1, <1>2, <1>5
  <2> QED
    BY <2>1, <2>2, <2>3 DEF PassInOrder
<1>8. NothingBehind'
  BY <1>1, <1>2, <1>3, <1>4, <1>5, <1>6 DEF NothingBehind
<1> QED
  BY <1>7, <1>8

\* The pass ends, or is not there, and what it was in the middle of is settled.
LEMMA EndPass ==
  ASSUME TypeOK, PassInOrder, NothingBehind,
         UNCHANGED <<log, expired, kept, marked>>, acked' \in {acked, top},
         batch' = {}, phase' \notin Passing, Ongoing \subseteq unfinished',
         unfinished \subseteq unfinished',
         mem' \in {mem, cursor}, cursor' \in {cursor, mem'}, top' \in {top, 0}
  PROVE  PassInOrder' /\ NothingBehind'
<1>1. UNCHANGED <<Indices, Len(log)>>
  BY DEF Indices
<1>2. /\ cursor \in Nat /\ mem \in Nat /\ top \in Nat /\ acked \in Nat /\ Len(log) \in Nat
      /\ cursor <= mem /\ cursor <= cursor' /\ cursor' <= mem' /\ mem' <= mem /\ top' <= top
      /\ \A i \in Indices : i \in Nat
  BY IndexIsNat DEF TypeOK, QueueTypeOK, PassInOrder
<1>3. Settled \subseteq Settled'
  BY <1>1, SettledStays
<1>4. Ongoing \subseteq Settled'
  BY <1>1 DEF Settled, Ongoing, Current, TypeOK
<1>5. PassInOrder'
  <2>1. \A k \in kept' \cup marked' : k <= cursor'
    BY <1>2 DEF PassInOrder, TypeOK
  <2> QED
    BY <2>1, <1>2 DEF PassInOrder, Ongoing
<1>6. NothingBehind'
  <2>1. mem' <= Len(log') /\ top' <= Len(log') /\ acked' <= Len(log')
    BY <1>1, <1>2 DEF NothingBehind
  <2>2. \A k \in Indices' : k <= mem' => k \in Settled'
    BY <1>1, <1>2, <1>3, <1>4 DEF NothingBehind
  <2>3. \A k \in Indices' : k <= top' \/ k <= acked' => k \in Settled'
    BY <1>1, <1>2, <1>3 DEF NothingBehind
  <2> QED
    BY <2>1, <2>2, <2>3 DEF NothingBehind
<1> QED
  BY <1>5, <1>6

\* A page has no holes: what is readable below one of its records is in it.
LEMMA PageIsPrefix ==
  ASSUME TypeOK, NEW from \in Nat, NEW size \in Nat,
         NEW j \in Page(from, size), NEW k \in Readable(from), k < j
  PROVE  k \in Page(from, size)
<1> DEFINE Below(n) == {x \in Readable(from) : x < n}
<1>1. IsFiniteSet(1 .. Len(log))
  BY IndexIsNat, FS_Interval
<1>2. Readable(from) \subseteq 1 .. Len(log)
  BY IndexIsNat DEF Readable, TypeOK, QueueTypeOK
<1>3. IsFiniteSet(Below(j))
  BY <1>1, <1>2, FS_Subset
<1>4. j \in Nat /\ \A x \in Readable(from) : x \in Nat
  BY <1>2, IndexIsNat DEF Page
<1>5. Below(k) \subseteq Below(j)
  BY <1>4
<1>6. /\ Cardinality(Below(k)) \in Nat /\ Cardinality(Below(j)) \in Nat
      /\ Cardinality(Below(k)) <= Cardinality(Below(j))
  BY <1>3, <1>5, FS_Subset, FS_CardinalityType
<1>7. Cardinality(Below(j)) < size
  BY DEF Page
<1>8. Cardinality(Below(k)) < size
  BY <1>6, <1>7
<1> QED
  BY <1>8 DEF Page

\* A pass begins with a page of what lies beyond the cursor.
LEMMA ReadStep ==
  ASSUME TypeOK, IInv, Read
  PROVE  PassInOrder' /\ NothingBehind'
<1> USE DEF IInv
<1>1. UNCHANGED <<log, acked, expired, Indices, kept, marked, unfinished, cursor>>
  BY DEF Read, queue, disk, Indices
<1>2. /\ cursor \in Nat /\ mem \in Nat /\ acked \in Nat /\ Len(log) \in Nat
      /\ cursor <= mem /\ mem' = cursor /\ top' = 0
  BY IndexIsNat DEF TypeOK, QueueTypeOK, PassInOrder, Read
<1>3. batch = {} /\ Ongoing = {}
  BY DEF Read, PassInOrder, Passing, Ongoing, Current
<1>4. batch' = Page(cursor + 1, ReadBatch) /\ phase' \in {"idle", "receive"}
      /\ (batch' # {} => phase' = "receive")
  BY DEF Read
<1>5. \A j \in batch' : j \in Indices /\ j \in Nat /\ cursor < j
  BY <1>2, <1>4, IndexIsNat DEF Page, Readable, TypeOK, QueueTypeOK
<1>6. Settled \subseteq Settled'
  BY <1>1, SettledStays
<1>7. \A k \in Indices : k <= cursor \/ k <= acked => k \in Settled'
  BY <1>2, <1>3, <1>6, IndexIsNat DEF NothingBehind
<1>8. PassInOrder'
  <2>1. \A k \in kept' \cup marked' : k <= cursor' /\ k \notin batch'
    BY <1>1, <1>2, <1>5, IndexIsNat DEF PassInOrder, TypeOK
  <2> QED
    BY <2>1, <1>1, <1>2, <1>4, <1>5 DEF PassInOrder, Ongoing, Passing
<1>9. NothingBehind'
  <2>1. mem' <= Len(log') /\ top' <= Len(log') /\ acked' <= Len(log')
    BY <1>1, <1>2 DEF NothingBehind
  <2>2. \A k \in Indices' : k <= mem' => k \in Settled'
    BY <1>1, <1>2, <1>7
  <2>3. \A k \in Indices' : k <= top' \/ k <= acked' => k \in Settled'
    BY <1>1, <1>2, <1>7, IndexIsNat
  <2>4. ASSUME NEW j \in batch', NEW k \in Indices', k < j PROVE k \in Settled' \cup batch'
    <3>1. k \in Indices /\ k \in Nat
      BY <1>1, IndexIsNat
    <3>2. CASE k <= cursor \/ k <= acked
      BY <3>1, <3>2, <1>7
    <3>3. CASE k \in expired
      BY <3>1, <3>3, <1>6 DEF Settled
    <3>4. CASE k \in held /\ k > cursor /\ k > acked
      <4>1. k \in Readable(cursor + 1)
        BY <3>1, <3>4, <1>2 DEF Readable
      <4> QED
        BY <4>1, <2>4, <1>2, <1>4, PageIsPrefix, ReceiverAssumption
    <3> QED
      BY <3>1, <3>2, <3>3, <3>4, <1>2 DEF LogIsKept
  <2> QED
    BY <2>1, <2>2, <2>3, <2>4 DEF NothingBehind
<1> QED
  BY <1>8, <1>9

\* The pass is done with a record: it may be acknowledged if none failed.
LEMMA FailuresNext ==
  ASSUME TypeOK, FailuresUnacked, UNCHANGED acked,
         NEW i \in batch, At(i), NEW ok \in BOOLEAN, NextRecord(i, ok)
  PROVE  FailuresUnacked'
<1>1. /\ i \in Nat /\ \A j \in batch \ {i} : j \in Nat /\ i < j
      /\ acked < i /\ top < i
  BY CurrentIsLowest DEF FailuresUnacked
<1>2. batch' = batch \ {i}
  BY DEF NextRecord
<1>3. CASE ok /\ failed = {}
  <2>1. top' = i /\ failed' = {}
    BY <1>3 DEF NextRecord
  <2> QED
    BY <2>1, <1>1, <1>2 DEF FailuresUnacked
<1>4. CASE ~(ok /\ failed = {})
  <2>1. top' = top /\ failed' \subseteq failed \cup {i}
    BY <1>4 DEF NextRecord
  <2> QED
    BY <2>1, <1>1, <1>2 DEF FailuresUnacked
<1> QED
  BY <1>3, <1>4

\* The other steps of the engine: they let go of records, and may acknowledge.
LEMMA FailuresStay ==
  ASSUME TypeOK, FailuresUnacked, acked' \in {acked, top}, top' \in {top, 0},
         batch' \subseteq batch, failed' \subseteq batch \cup failed
  PROVE  FailuresUnacked'
<1>1. \A i \in batch \cup failed : i \in Nat /\ 0 < i
  BY IndexIsNat DEF TypeOK
<1> QED
  BY <1>1 DEF FailuresUnacked

-----------------------------------------------------------------------------
\* The steps that leave the engine alone.
LEMMA RelayStep ==
  ASSUME TypeOK, IInv,
         \/ \E m \in Message : Write(m)
         \/ ExpireOldest
         \/ UNCHANGED queue,
         UNCHANGED <<disk, pass>>
  PROVE  LogIsKept' /\ PassInOrder' /\ DecryptedOnce' /\ NothingBehind' /\ FailuresUnacked'
<1>1. LogIsKept' /\ NothingBehind' /\ \A i \in Indices : i \in Indices' /\ log'[i] = log[i]
  BY QueueStep DEF IInv, disk, pass
<1>2. Ongoing' = Ongoing /\ Current' = Current
  BY DEF Ongoing, Current, At, pass
<1>3. PassInOrder'
  BY <1>2 DEF IInv, PassInOrder, disk, pass
<1>4. DecryptedOnce'
  BY <1>1, <1>2 DEF IInv, DecryptedOnce, disk, pass, TypeOK
<1>5. FailuresUnacked'
  BY DEF IInv, FailuresUnacked, Write, ExpireOldest, queue, pass
<1> QED
  BY <1>1, <1>3, <1>4, <1>5

\* The steps that are none of the subscription's.
LEMMA SubscriptionStays ==
  ASSUME Listening, PushesCoverTheRest, UNCHANGED <<log, tasks, listening, offered, covered>>
  PROVE  Listening' /\ PushesCoverTheRest'
  BY DEF Listening, PushesCoverTheRest, Indices

\* What a record that is done with leaves decrypted.
LEMMA FinishDecrypted ==
  ASSUME TypeOK, PassInOrder, DecryptedOnce, UNCHANGED <<log, handled, used>>,
         NEW i \in batch, NEW ok \in BOOLEAN, NextRecord(i, ok),
         \/ UNCHANGED <<kept, marked>>
         \/ i \in handled /\ kept' = kept \cup {i} /\ marked' = marked
         \/ i \in handled /\ marked' = marked \cup {i} /\ kept' = kept
  PROVE  DecryptedOnce'
<1>1. i \notin kept \cup marked
  BY DEF PassInOrder
<1>2. phase' \notin {"record"} \cup Passing
  BY DEF NextRecord, Passing
<1> QED
  BY <1>1, <1>2 DEF DecryptedOnce

\* Every step keeps the invariant.
LEMMA InvStep ==
  ASSUME TypeOK, IInv, [Next]_vars
  PROVE  IInv'
<1> USE DEF IInv
<1>1. ASSUME NEW m \in Message, Arrive(m) PROVE IInv'
  <2>1. LogIsKept' /\ PassInOrder' /\ DecryptedOnce' /\ NothingBehind' /\ FailuresUnacked'
    BY <1>1, RelayStep DEF Arrive
  <2>2. Listening'
    BY <1>1 DEF Arrive, subscription, Listening
  <2>3. PushesCoverTheRest'
    BY <1>1, WriteExtends DEF Arrive, Write, subscription, PushesCoverTheRest
  <2> QED
    BY <2>1, <2>2, <2>3
<1>2. ASSUME NEW i \in tasks, Push(i) PROVE IInv'
  <2>1. LogIsKept' /\ PassInOrder' /\ DecryptedOnce' /\ NothingBehind' /\ FailuresUnacked'
    BY <1>2, RelayStep DEF Push
  <2>2. Listening' /\ PushesCoverTheRest'
    BY <1>2 DEF Push, queue, Listening, PushesCoverTheRest, Indices
  <2> QED
    BY <2>1, <2>2
<1>3. CASE Expire
  <2>1. LogIsKept' /\ PassInOrder' /\ DecryptedOnce' /\ NothingBehind' /\ FailuresUnacked'
    BY <1>3, RelayStep DEF Expire
  <2>2. Listening' /\ PushesCoverTheRest'
    BY <1>3, SubscriptionStays DEF Expire, ExpireOldest, subscription
  <2> QED
    BY <2>1, <2>2
<1>4. CASE DropConnection
  <2>1. LogIsKept' /\ PassInOrder' /\ DecryptedOnce' /\ NothingBehind' /\ FailuresUnacked'
    BY <1>4, RelayStep DEF DropConnection
  <2>2. Listening' /\ PushesCoverTheRest'
    BY <1>4, SubscriptionStays DEF DropConnection, queue
  <2> QED
    BY <2>1, <2>2
<1>5. CASE RelayCrash
  <2>1. LogIsKept' /\ PassInOrder' /\ DecryptedOnce' /\ NothingBehind' /\ FailuresUnacked'
    BY <1>5, RelayStep DEF RelayCrash
  <2>2. Listening' /\ PushesCoverTheRest'
    BY <1>5 DEF RelayCrash, Listening, PushesCoverTheRest
  <2> QED
    BY <2>1, <2>2
<1>6. CASE Start
  <2>1. batch = {} /\ batch' = {} /\ phase' = "idle"
    BY <1>6 DEF Start, PassInOrder, Passing
  <2>2. PassInOrder' /\ NothingBehind'
    BY <1>6, <2>1, EndPass DEF Start, queue, disk, Passing, Ongoing, Current
  <2>3. LogIsKept' /\ DecryptedOnce'
    BY <1>6, <2>1 DEF Start, queue, disk, LogIsKept, Indices, DecryptedOnce, Passing
  <2>4. Listening' /\ PushesCoverTheRest'
    BY <1>6 DEF Start, Listening, PushesCoverTheRest
  <2>5. FailuresUnacked'
    BY <1>6, FailuresStay DEF Start, queue
  <2> QED
    BY <2>2, <2>3, <2>4, <2>5
<1>7. CASE Stop
  <2>1. Ongoing \subseteq unfinished' /\ unfinished \subseteq unfinished'
    BY <1>7 DEF Stop, Ongoing, Current, At, Passing
  <2>2. PassInOrder' /\ NothingBehind'
    BY <1>7, <2>1, EndPass DEF Stop, queue, Passing
  <2>3. LogIsKept' /\ DecryptedOnce'
    BY <1>7 DEF Stop, queue, LogIsKept, Indices, DecryptedOnce, Passing
  <2>4. Listening' /\ PushesCoverTheRest'
    BY <1>7 DEF Stop, Listening, PushesCoverTheRest
  <2>5. FailuresUnacked'
    BY <1>7, FailuresStay DEF Stop, queue
  <2> QED
    BY <2>2, <2>3, <2>4, <2>5
<1>8. CASE ReadFails
  <2>1. LogIsKept' /\ PassInOrder' /\ DecryptedOnce' /\ NothingBehind' /\ FailuresUnacked'
    BY <1>8, RelayStep DEF ReadFails, relay
  <2>2. Listening' /\ PushesCoverTheRest'
    BY <1>8, SubscriptionStays DEF ReadFails, relay, queue, subscription
  <2> QED
    BY <2>1, <2>2
<1>9. CASE Read
  <2>1. PassInOrder' /\ NothingBehind'
    BY <1>9, ReadStep
  <2>2. LogIsKept' /\ DecryptedOnce'
    BY <1>9 DEF Read, queue, disk, LogIsKept, Indices, DecryptedOnce, Passing
  <2>3. Listening' /\ PushesCoverTheRest'
    BY <1>9, IndexIsNat DEF Read, queue, Listening, PushesCoverTheRest, Indices
  <2>4. FailuresUnacked'
    BY <1>9, IndexIsNat DEF Read, Page, Readable, queue, FailuresUnacked, TypeOK, QueueTypeOK
  <2> QED
    BY <2>1, <2>2, <2>3, <2>4
<1>10. ASSUME NEW i \in batch, Receive(i) PROVE IInv'
  <2>1. Current = {i} /\ Current' = {i} /\ i \in Indices
    BY <1>10, CurrentIsLowest DEF Receive, Current, At
  <2>2. Ongoing = {} /\ Ongoing' = {}
    BY <1>10 DEF Receive, Ongoing, Passing
  <2>3. UNCHANGED <<log, held, acked, expired, Indices>>
    BY <1>10 DEF Receive, relay, queue, Indices
  <2>4. Settled' = Settled
    BY <1>10, <2>3 DEF Receive, Settled, Done
  <2>5. LogIsKept' /\ PassInOrder' /\ NothingBehind'
    BY <1>10, <2>2, <2>3, <2>4 DEF Receive, LogIsKept, PassInOrder, NothingBehind
  <2>6. DecryptedOnce'
    BY <1>10, <2>1, <2>3 DEF Receive, DecryptedOnce
  <2>7. Listening' /\ PushesCoverTheRest'
    BY <1>10, SubscriptionStays DEF Receive, relay, queue, subscription
  <2>8. FailuresUnacked'
    BY <1>10 DEF Receive, relay, queue, FailuresUnacked
  <2> QED
    BY <2>5, <2>6, <2>7, <2>8
<1>11. ASSUME NEW i \in batch, Undecryptable(i) PROVE IInv'
  <2>1. PassInOrder' /\ NothingBehind'
    BY <1>11, Finish DEF Undecryptable, Fail, Advance, AdvanceFails, relay
  <2>2. DecryptedOnce'
    BY <1>11, FinishDecrypted DEF Undecryptable, Fail, relay, queue
  <2>3. LogIsKept'
    BY <1>11 DEF Undecryptable, relay, queue, LogIsKept, Indices
  <2>4. Listening' /\ PushesCoverTheRest'
    BY <1>11, SubscriptionStays DEF Undecryptable, relay, queue, subscription
  <2>5. FailuresUnacked'
    BY <1>11, FailuresNext DEF Undecryptable, Fail, relay, queue
  <2> QED
    BY <2>1, <2>2, <2>3, <2>4, <2>5
<1>12. ASSUME NEW i \in batch, GroupUnavailable(i) PROVE IInv'
  <2>1. PassInOrder' /\ NothingBehind'
    BY <1>12, EndPass DEF GroupUnavailable, relay, queue, disk, Passing, Ongoing
  <2>2. LogIsKept' /\ DecryptedOnce'
    BY <1>12 DEF GroupUnavailable, relay, queue, disk, LogIsKept, Indices, DecryptedOnce, Passing
  <2>3. Listening' /\ PushesCoverTheRest'
    BY <1>12, SubscriptionStays DEF GroupUnavailable, relay, queue, subscription
  <2>4. FailuresUnacked'
    BY <1>12, FailuresStay DEF GroupUnavailable, relay, queue
  <2> QED
    BY <2>1, <2>2, <2>3, <2>4
<1>13. ASSUME NEW i \in batch, Duplicate(i) PROVE IInv'
  <2>1. LogIsKept'
    BY <1>13 DEF Duplicate, relay, queue, LogIsKept, Indices
  <2>2. Listening' /\ PushesCoverTheRest'
    BY <1>13, SubscriptionStays DEF Duplicate, relay, queue, subscription
  <2>3. CASE Advance(i) /\ phase' = "mark" /\ UNCHANGED <<unfinished, batch, top, failed>>
    <3>1. PassInOrder' /\ NothingBehind'
      BY <1>13, <2>3, Begin DEF Duplicate, relay, Passing
    <3>2. Current = {i} /\ Current' = {i}
      BY <1>13, <2>3, CurrentIsLowest DEF Duplicate, Current, At
    <3>3. DecryptedOnce'
      BY <1>13, <3>2 DEF Duplicate, relay, queue, DecryptedOnce
    <3>4. FailuresUnacked'
      BY <1>13, <2>3 DEF Duplicate, relay, queue, FailuresUnacked
    <3> QED
      BY <2>1, <2>2, <3>1, <3>3, <3>4
  <2>4. CASE AdvanceFails(i) /\ Fail(i)
    <3>1. PassInOrder' /\ NothingBehind'
      BY <1>13, <2>4, Finish DEF Duplicate, Fail, AdvanceFails, relay
    <3>2. DecryptedOnce'
      BY <1>13, <2>4, FinishDecrypted DEF Duplicate, Fail, relay, queue
    <3>3. FailuresUnacked'
      BY <1>13, <2>4, FailuresNext DEF Duplicate, Fail, relay, queue
    <3> QED
      BY <2>1, <2>2, <3>1, <3>2, <3>3
  <2> QED
    BY <1>13, <2>3, <2>4 DEF Duplicate
<1>14. ASSUME NEW i \in batch, Mark(i) PROVE IInv'
  <2>1. i \in handled /\ i <= cursor
    BY <1>14, CurrentIsLowest DEF Mark, DecryptedOnce, PassInOrder, Passing, Ongoing
  <2>2. PassInOrder' /\ NothingBehind'
    BY <1>14, <2>1, Finish DEF Mark, Fail, relay
  <2>3. DecryptedOnce'
    BY <1>14, <2>1, FinishDecrypted DEF Mark, Fail, relay, queue
  <2>4. LogIsKept'
    BY <1>14 DEF Mark, relay, queue, LogIsKept, Indices
  <2>5. Listening' /\ PushesCoverTheRest'
    BY <1>14, SubscriptionStays DEF Mark, relay, queue, subscription
  <2>6. FailuresUnacked'
    BY <1>14, FailuresNext DEF Mark, Fail, relay, queue
  <2> QED
    BY <2>2, <2>3, <2>4, <2>5, <2>6
<1>15. ASSUME NEW i \in batch, RecordChat(i) PROVE IInv'
  <2>1. i \in handled
    BY <1>15, CurrentIsLowest DEF RecordChat, DecryptedOnce
  <2>2. PassInOrder' /\ NothingBehind'
    <3>1. CASE Smoothly /\ kept' = kept \cup {i} /\ Advance(i) /\ NextRecord(i, TRUE)
               /\ UNCHANGED unfinished
      <4>1. i <= i
        BY <1>15, CurrentIsLowest DEF RecordChat
      <4> QED
        BY <1>15, <3>1, <4>1, Finish DEF RecordChat, Advance, relay
    <3>2. CASE (AdvanceFails(i) \/ UNCHANGED <<mem, cursor>>) /\ Fail(i) /\ UNCHANGED kept
      BY <1>15, <3>2, Finish DEF RecordChat, Fail, AdvanceFails, relay
    <3> QED
      BY <1>15, <3>1, <3>2 DEF RecordChat
  <2>3. DecryptedOnce'
    BY <1>15, <2>1, FinishDecrypted DEF RecordChat, Fail, relay, queue
  <2>4. LogIsKept'
    BY <1>15 DEF RecordChat, relay, queue, LogIsKept, Indices
  <2>5. Listening' /\ PushesCoverTheRest'
    BY <1>15, SubscriptionStays DEF RecordChat, relay, queue, subscription
  <2>6. FailuresUnacked'
    BY <1>15, FailuresNext DEF RecordChat, Fail, relay, queue
  <2> QED
    BY <2>2, <2>3, <2>4, <2>5, <2>6
<1>16. ASSUME NEW i \in batch, AdvanceControl(i) PROVE IInv'
  <2>1. LogIsKept'
    BY <1>16 DEF AdvanceControl, relay, queue, LogIsKept, Indices
  <2>2. Listening' /\ PushesCoverTheRest'
    BY <1>16, SubscriptionStays DEF AdvanceControl, relay, queue, subscription
  <2>3. CASE Advance(i) /\ phase' = "effect" /\ UNCHANGED <<unfinished, batch, top, failed>>
    <3>1. PassInOrder' /\ NothingBehind'
      BY <1>16, <2>3, Begin DEF AdvanceControl, relay, Passing
    <3>2. Current = {i} /\ Current' = {i}
      BY <1>16, <2>3, CurrentIsLowest DEF AdvanceControl, Current, At
    <3>3. DecryptedOnce'
      BY <1>16, <3>2 DEF AdvanceControl, relay, queue, DecryptedOnce
    <3>4. FailuresUnacked'
      BY <1>16, <2>3 DEF AdvanceControl, relay, queue, FailuresUnacked
    <3> QED
      BY <2>1, <2>2, <3>1, <3>3, <3>4
  <2>4. CASE (AdvanceFails(i) \/ UNCHANGED <<mem, cursor>>) /\ Fail(i)
    <3>1. PassInOrder' /\ NothingBehind'
      BY <1>16, <2>4, Finish DEF AdvanceControl, Fail, AdvanceFails, relay
    <3>2. DecryptedOnce'
      BY <1>16, <2>4, FinishDecrypted DEF AdvanceControl, Fail, relay, queue
    <3>3. FailuresUnacked'
      BY <1>16, <2>4, FailuresNext DEF AdvanceControl, Fail, relay, queue
    <3> QED
      BY <2>1, <2>2, <3>1, <3>2, <3>3
  <2> QED
    BY <1>16, <2>3, <2>4 DEF AdvanceControl
<1>17. ASSUME NEW i \in batch, Effect(i) PROVE IInv'
  <2>1. i \in handled /\ i <= cursor
    BY <1>17, CurrentIsLowest DEF Effect, DecryptedOnce, PassInOrder, Passing, Ongoing
  <2>2. PassInOrder' /\ NothingBehind'
    BY <1>17, <2>1, Finish DEF Effect, Fail, relay
  <2>3. DecryptedOnce'
    BY <1>17, <2>1, FinishDecrypted DEF Effect, Fail, relay, queue
  <2>4. LogIsKept'
    BY <1>17 DEF Effect, relay, queue, LogIsKept, Indices
  <2>5. Listening' /\ PushesCoverTheRest'
    BY <1>17, SubscriptionStays DEF Effect, relay, queue, subscription
  <2>6. FailuresUnacked'
    BY <1>17, FailuresNext DEF Effect, Fail, relay, queue
  <2> QED
    BY <2>2, <2>3, <2>4, <2>5, <2>6
<1>18. CASE Ack
  <2>1. batch = {} /\ Ongoing = {} /\ phase' \in {"settle", "idle"}
    BY <1>18 DEF Ack, PassInOrder, Passing, Ongoing
  <2>2. /\ UNCHANGED <<log, expired, Indices>> /\ acked' \in {acked, top}
    BY <1>18 DEF Ack, Acknowledge, queue, Indices
  <2>3. PassInOrder' /\ NothingBehind'
    BY <1>18, <2>1, <2>2, EndPass DEF Ack, disk, Passing
  <2>4. LogIsKept'
    BY <1>18, <2>2, IndexIsNat DEF Ack, Acknowledge, queue, LogIsKept, TypeOK, QueueTypeOK
  <2>5. DecryptedOnce'
    BY <1>18, <2>1, <2>2 DEF Ack, disk, DecryptedOnce, Passing
  <2>6. Listening' /\ PushesCoverTheRest'
    BY <1>18, <2>2, SubscriptionStays DEF Ack, subscription
  <2>7. FailuresUnacked'
    BY <1>18, <2>2, FailuresStay DEF Ack
  <2> QED
    BY <2>3, <2>4, <2>5, <2>6, <2>7
<1>19. CASE Settle
  <2>1. batch = {} /\ Ongoing = {}
    BY <1>19 DEF Settle, PassInOrder, Passing, Ongoing
  <2>2. PassInOrder' /\ NothingBehind'
    BY <1>19, <2>1, EndPass DEF Settle, relay, queue, Passing
  <2>3. LogIsKept' /\ DecryptedOnce'
    BY <1>19 DEF Settle, relay, queue, LogIsKept, Indices, DecryptedOnce, Passing
  <2>4. Listening' /\ PushesCoverTheRest'
    BY <1>19, SubscriptionStays DEF Settle, relay, queue, subscription
  <2>5. FailuresUnacked'
    BY <1>19, FailuresStay DEF Settle, relay, queue
  <2> QED
    BY <2>2, <2>3, <2>4, <2>5
<1>20. CASE UNCHANGED vars
  <2>1. LogIsKept' /\ PassInOrder' /\ DecryptedOnce' /\ NothingBehind' /\ FailuresUnacked'
    BY <1>20, RelayStep DEF vars, relay
  <2>2. Listening' /\ PushesCoverTheRest'
    BY <1>20, SubscriptionStays DEF vars, relay, queue, subscription
  <2> QED
    BY <2>1, <2>2
<1> QED
  BY <1>1, <1>2, <1>3, <1>4, <1>5, <1>6, <1>7, <1>8, <1>9, <1>10, <1>11, <1>12, <1>13,
    <1>14, <1>15, <1>16, <1>17, <1>18, <1>19, <1>20 DEF Next, Relay, Pump, Apply

LEMMA InvInit == Init => TypeOK /\ IInv
<1> SUFFICES ASSUME Init PROVE TypeOK /\ IInv
  OBVIOUS
<1>1. Indices = {}
  BY DEF Init, QueueInit, Indices
<1>2. QueueTypeOK
  BY <1>1 DEF Init, QueueInit, QueueTypeOK
<1>3. TypeOK
  BY <1>1, <1>2 DEF Init, TypeOK, Phase
<1>4. IInv
  BY <1>1 DEF Init, QueueInit, IInv, LogIsKept, PassInOrder, DecryptedOnce, NothingBehind,
    FailuresUnacked, Ongoing, Passing, Listening, PushesCoverTheRest
<1> QED
  BY <1>3, <1>4

\* The inductive invariant, and the types.
THEOREM Invariance == Spec => [](TypeOK /\ IInv)
<1>1. Init => TypeOK /\ IInv
  BY InvInit
<1>2. TypeOK /\ IInv /\ [Next]_vars => (TypeOK /\ IInv)'
  BY TypeStep, InvStep
<1> QED
  BY <1>1, <1>2, PTL DEF Spec

\* MessageReceiver's state has its types: whatever is appended, for any quota
\* and page size.
THEOREM TypeCorrect == Spec => []TypeOK
  BY Invariance, PTL

\* acknowledgeable(): no pass lets the relay delete a record it failed on, nor
\* anything it has not looked at; what is deleted is done, had expired, or was
\* given up by an earlier pass or in a crash.
THEOREM AckedSettled == Spec => []AckedIsSettled
<1>1. ASSUME TypeOK, IInv PROVE AckedIsSettled
  <2> SUFFICES ASSUME NEW i \in Indices, i <= acked
               PROVE  i \notin failed /\ (Done(i) \/ i \in expired \/ i \in unfinished)
    BY DEF AckedIsSettled
  <2>1. i \notin failed
    BY <1>1, IndexIsNat DEF IInv, FailuresUnacked, TypeOK, QueueTypeOK
  <2>2. i \in Settled
    BY <1>1 DEF IInv, NothingBehind
  <2> QED
    BY <2>1, <2>2 DEF Settled
<1> QED
  BY <1>1, Invariance, PTL

\* MlsEngine::receive() and record_unrecoverable(): the transcript shows a
\* message once, however often it was appended.
THEOREM ShownOnlyOnce == Spec => []ShownOnce
<1>1. IInv => ShownOnce
  BY DEF IInv, DecryptedOnce, ShownOnce
<1> QED
  BY <1>1, Invariance, PTL

\* subscribe() and commit_append(): a connection that subscribes and then reads
\* misses nothing.
THEOREM PushesCover == Spec => []PushesCoverTheRest
<1>1. IInv => PushesCoverTheRest
  BY DEF IInv
<1> QED
  BY <1>1, Invariance, PTL
=============================================================================
