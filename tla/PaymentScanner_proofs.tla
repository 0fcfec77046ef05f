------------------------ MODULE PaymentScanner_proofs ------------------------
(***************************************************************************)
(* Proofs about the scanner and the proofs of proof.rs, for every block    *)
(* tree, every reorganisation and failure, and any confirmation depth:     *)
(* readiness is evidence, revocations are justified, and a proof is sound. *)
(***************************************************************************)
EXTENDS PaymentProof, PaymentJournal_proofs, WellFoundedInduction

-----------------------------------------------------------------------------
(***************************************************************************)
(* The block tree.  Each of these goes by the lowest counterexample.       *)
(***************************************************************************)
\* A branch contains those of its blocks, none of which is above its tip, and no
\* two of which have the same height.
BranchOrdered(b) ==
  \A x \in Branch[b] :
    /\ Branch[x] \subseteq Branch[b]
    /\ Height[x] <= Height[b]
    /\ \A y \in Branch[b] : Height[x] = Height[y] => x = y

\* A branch goes back to the genesis block without a gap.
BranchHasHeights(b) == \A h \in 0 .. Height[b] : \E x \in Branch[b] : Height[x] = h

\* Among some blocks there is a lowest one.
LEMMA LowestBlock ==
  ASSUME JournalAssumption, NEW T, T \subseteq Block, T # {}
  PROVE  \E b \in T : \A x \in T : Height[b] <= Height[x]
<1> DEFINE H == {Height[b] : b \in T}
           less == OpToRel(<, Nat)
<1>1. H \subseteq Nat /\ H # {}
  BY DEF JournalAssumption
<1>2. PICK n \in H : \A m \in H : ~ (<<m, n>> \in less)
  <2> HIDE DEF H
  <2> QED
    BY <1>1, NatLessThanWellFounded, WFMin
<1>3. \A m \in H : n <= m
  <2> SUFFICES ASSUME NEW m \in H  PROVE n <= m
    OBVIOUS
  <2>1. m \in Nat /\ n \in Nat
    BY <1>1, <1>2
  <2> HIDE DEF H
  <2>2. m < n => <<m, n>> \in less
    BY <2>1 DEF OpToRel
  <2>3. ~ (m < n)
    BY <1>2, <2>2
  <2> QED
    BY <2>1, <2>3
<1>4. PICK b \in T : n = Height[b]
  OBVIOUS
<1>5. \A x \in T : Height[x] \in H
  OBVIOUS
<1> HIDE DEF H
<1> QED
  BY <1>3, <1>4, <1>5

LEMMA TreeIsOrdered ==
  ASSUME JournalAssumption, ScannerAssumption
  PROVE  \A b \in Block : BranchOrdered(b) /\ BranchHasHeights(b)
<1> DEFINE T == {b \in Block : ~ (BranchOrdered(b) /\ BranchHasHeights(b))}
<1> SUFFICES ASSUME T # {}  PROVE FALSE
  OBVIOUS
<1>1. PICK b \in T : \A x \in T : Height[b] <= Height[x]
  <2>1. T \subseteq Block
    OBVIOUS
  <2> HIDE DEF T
  <2> QED
    BY <2>1, LowestBlock
<1>2. b \in Block /\ Height[b] \in Nat /\ Branch[b] \subseteq Block
  BY DEF JournalAssumption, ScannerAssumption
<1>3. CASE Parent[b] = NoBlock
  <2>1. Branch[b] = {b} /\ Height[b] = 0
    BY <1>2, <1>3 DEF ScannerAssumption
  <2>2. BranchOrdered(b)
    BY <2>1 DEF BranchOrdered
  <2>3. BranchHasHeights(b)
    BY <2>1 DEF BranchHasHeights
  <2> QED
    BY <1>1, <2>2, <2>3
<1>4. CASE Parent[b] # NoBlock
  <2> DEFINE p == Parent[b]
  <2>1. p \in Block /\ Height[p] \in Nat /\ Branch[p] \subseteq Block
    BY <1>2, <1>4 DEF JournalAssumption, ScannerAssumption
  <2>2. Height[b] = Height[p] + 1 /\ Branch[b] = {b} \cup Branch[p]
    BY <1>2, <1>4 DEF ScannerAssumption
  <2>3. BranchOrdered(p) /\ BranchHasHeights(p)
    BY <1>1, <1>2, <2>1, <2>2
  <2> HIDE DEF p
  <2>4. \A x \in Branch[p] : Height[x] \in Nat /\ Height[x] < Height[b]
    BY <2>1, <2>2, <2>3 DEF BranchOrdered, JournalAssumption
  <2>5. BranchOrdered(b)
    BY <1>2, <2>1, <2>2, <2>3, <2>4 DEF BranchOrdered
  <2>6. BranchHasHeights(b)
    <3>1. ASSUME NEW h \in 0 .. Height[b]
          PROVE  \E x \in Branch[b] : Height[x] = h
      <4>1. CASE h = Height[b]
        BY <2>2, <4>1
      <4>2. CASE h # Height[b]
        <5>1. h \in 0 .. Height[p]
          BY <1>2, <2>1, <2>2, <4>2
        <5> QED
          BY <2>2, <2>3, <5>1 DEF BranchHasHeights
      <4> QED
        BY <4>1, <4>2
    <3> QED
      BY <3>1 DEF BranchHasHeights
  <2> QED
    BY <1>1, <2>5, <2>6
<1> QED
  BY <1>3, <1>4

-----------------------------------------------------------------------------
(***************************************************************************)
(* The invariant of the journal's chain.                                   *)
(***************************************************************************)
\* The rows of `blocks` lie on one branch, above the birthday.
ChainLinked ==
  /\ \A i, j \in DOMAIN chain :
       i <= j => /\ chain[i] \in Branch[chain[j]]
                 /\ i # j => Height[chain[i]] < Height[chain[j]]
  /\ \A i \in DOMAIN chain : Height[chain[i]] >= Birthday

\* An active receipt is on the journal's chain.
ReceiptsOnChain ==
  \A p \in Payment :
    receipts[p].active => \E i \in DOMAIN chain : chain[i] = receipts[p].block

\* Only observers hear of unconfirmed payments, and without the scan mode that
\* an observer brings along, nobody ever subscribed as one.
ObserversKnown ==
  /\ \A d \in queued : d[2].phase = "observed" => d[1] \in Observer
  /\ ~early => /\ active \cap Observer = {}
               /\ \A s \in subs : s[1] \notin Observer

ScanChain == ChainLinked /\ ReceiptsOnChain /\ ObserversKnown

LEMMA CursorOnChain ==
  ASSUME JournalTypeOK, chain # <<>>
  PROVE  /\ Len(chain) \in DOMAIN chain
         /\ Cursor = chain[Len(chain)]
         /\ Cursor \in Block
         /\ \A i \in DOMAIN chain : i \in Nat /\ i <= Len(chain) /\ chain[i] \in Block
  BY DEF JournalTypeOK, Cursor

\* The whole chain is on every branch the cursor is on.
LEMMA CursorSpeaksForChain ==
  ASSUME JournalAssumption, ScannerAssumption, JournalTypeOK, ChainLinked, chain # <<>>,
         NEW t \in Block, Cursor \in Branch[t]
  PROVE  \A i \in DOMAIN chain : chain[i] \in Branch[t]
<1>1. Branch[Cursor] \subseteq Branch[t]
  BY TreeIsOrdered DEF BranchOrdered
<1>2. \A i \in DOMAIN chain : chain[i] \in Branch[Cursor]
  BY CursorOnChain DEF ChainLinked
<1> QED
  BY <1>1, <1>2

LEMMA PublishObservers ==
  ASSUME ObserversKnown, DeliveriesBacked, NEW new, Publish(new),
         UNCHANGED <<active, early>>
  PROVE  ObserversKnown'
<1>1. \A s \in subs' : s \in subs \/ s[1] \in active
  BY DEF Publish, Enrolled
<1>2. ASSUME NEW d \in queued', d[2].phase = "observed"
      PROVE  d[1] \in Observer
  BY <1>2 DEF Publish, NewDeliveries, Audience, MayObserve, ObserversKnown
<1> QED
  BY <1>1, <1>2 DEF ObserversKnown

LEMMA AppendChain ==
  ASSUME JournalAssumption, ScannerAssumption, Inv, ScanChain,
         NEW b \in Block, NEW confirmed \in BOOLEAN, AppendState(b, confirmed),
         Height[b] >= Birthday
  PROVE  ScanChain'
<1>1. JournalTypeOK /\ DeliveriesBacked /\ chain \in Seq(Block)
  BY DEF Inv, JournalTypeOK
<1>2. /\ chain' = Append(chain, b)
      /\ Extends(b)
      /\ UNCHANGED <<active, early>>
  BY DEF AppendState
<1>3. /\ DOMAIN chain' = DOMAIN chain \cup {Len(chain) + 1}
      /\ \A i \in DOMAIN chain : chain'[i] = chain[i] /\ i \in Nat /\ i < Len(chain) + 1
      /\ chain'[Len(chain) + 1] = b
      /\ Len(chain) + 1 \notin DOMAIN chain
  BY <1>1, <1>2
<1>4. b \in Branch[b]
  BY DEF ScannerAssumption
<1>5. \A i \in DOMAIN chain : chain[i] \in Branch[b] /\ Height[chain[i]] < Height[b]
  <2> SUFFICES ASSUME NEW i \in DOMAIN chain
               PROVE  chain[i] \in Branch[b] /\ Height[chain[i]] < Height[b]
    OBVIOUS
  <2>1. chain # <<>>
    BY <1>1
  <2>2. /\ Len(chain) \in DOMAIN chain /\ i <= Len(chain) /\ chain[i] \in Block
        /\ Cursor = chain[Len(chain)] /\ Cursor \in Block
    BY <1>1, <2>1, CursorOnChain
  <2>3. Parent[b] = Cursor /\ Height[b] = Height[Cursor] + 1
    BY <1>2, <2>1 DEF Extends
  <2>4. Branch[Cursor] \subseteq Branch[b]
    BY <2>2, <2>3 DEF ScannerAssumption, JournalAssumption
  <2>5. chain[i] \in Branch[Cursor]
    BY <2>2 DEF ScanChain, ChainLinked
  <2>6. Height[chain[i]] <= Height[Cursor]
    BY <2>2, <2>5, TreeIsOrdered DEF BranchOrdered
  <2>7. Height[chain[i]] \in Nat /\ Height[Cursor] \in Nat
    BY <2>2 DEF JournalAssumption
  <2> QED
    BY <2>3, <2>4, <2>5, <2>6, <2>7
<1>6. ChainLinked'
  <2>1. ASSUME NEW i \in DOMAIN chain', NEW j \in DOMAIN chain', i <= j
        PROVE  /\ chain'[i] \in Branch[chain'[j]]
               /\ i # j => Height[chain'[i]] < Height[chain'[j]]
    <3>1. CASE j \in DOMAIN chain
      BY <1>1, <1>3, <2>1, <3>1 DEF ScanChain, ChainLinked
    <3>2. CASE j = Len(chain) + 1
      BY <1>3, <1>4, <1>5, <3>2
    <3> QED
      BY <1>3, <3>1, <3>2
  <2> QED
    BY <1>3, <2>1 DEF ScanChain, ChainLinked
<1>7. ReceiptsOnChain'
  <2> SUFFICES ASSUME NEW p \in Payment, receipts'[p].active
               PROVE  \E i \in DOMAIN chain' : chain'[i] = receipts'[p].block
    BY DEF ReceiptsOnChain
  <2>1. CASE p \in Carries[b]
    BY <1>3, <2>1 DEF AppendState
  <2>2. CASE p \notin Carries[b]
    <3>1. receipts'[p] = receipts[p]
      BY <2>2 DEF AppendState
    <3> QED
      BY <1>3, <3>1 DEF ScanChain, ReceiptsOnChain
  <2> QED
    BY <2>1, <2>2
<1>8. ObserversKnown'
  <2>1. PICK new : Publish(new)
    BY DEF AppendState
  <2> QED
    BY <1>1, <1>2, <2>1, PublishObservers DEF ScanChain
<1> QED
  BY <1>6, <1>7, <1>8 DEF ScanChain

LEMMA RollbackChain ==
  ASSUME JournalAssumption, ScannerAssumption, Inv, ScanChain, RollbackOne
  PROVE  ScanChain'
<1>1. JournalTypeOK /\ DeliveriesBacked /\ chain \in Seq(Block) /\ chain # <<>>
  BY DEF Inv, JournalTypeOK, RollbackOne
<1>2. chain' = SubSeq(chain, 1, Len(chain) - 1) /\ UNCHANGED <<active, early>>
  BY DEF RollbackOne
<1>3. /\ DOMAIN chain' = DOMAIN chain \ {Len(chain)}
      /\ \A i \in DOMAIN chain' : chain'[i] = chain[i]
  BY <1>1, <1>2
<1>4. ChainLinked'
  BY <1>3 DEF ScanChain, ChainLinked
<1>5. ReceiptsOnChain'
  <2> SUFFICES ASSUME NEW p \in Payment, receipts'[p].active
               PROVE  \E i \in DOMAIN chain' : chain'[i] = receipts'[p].block
    BY DEF ReceiptsOnChain
  <2>1. receipts[p] \in Receipt
    BY <1>1 DEF JournalTypeOK
  <2>2. /\ receipts[p].active /\ p \notin Mined(Cursor)
        /\ receipts'[p].block = receipts[p].block
    BY <2>1 DEF RollbackOne, Receipt
  <2>3. Height[receipts[p].block] # Height[Cursor]
    BY <2>2 DEF Mined
  <2>4. PICK i \in DOMAIN chain : chain[i] = receipts[p].block
    BY <2>2 DEF ScanChain, ReceiptsOnChain
  <2>5. i # Len(chain)
    BY <1>1, <2>3, <2>4, CursorOnChain
  <2> QED
    BY <1>3, <2>2, <2>4, <2>5
<1>6. ObserversKnown'
  <2>1. PICK new : Publish(new)
    BY DEF RollbackOne
  <2> QED
    BY <1>1, <1>2, <2>1, PublishObservers DEF ScanChain
<1> QED
  BY <1>4, <1>5, <1>6 DEF ScanChain

LEMMA ReconcileChain ==
  ASSUME JournalAssumption, Inv, ScanChain,
         NEW safe \in Nat, ReconcileConfirmations(safe)
  PROVE  /\ ScanChain'
         /\ UNCHANGED <<chain, early>>
         /\ \A p \in Payment :
              /\ receipts'[p].active = receipts[p].active
              /\ receipts'[p].block = receipts[p].block
              /\ receipts'[p].active /\ receipts'[p].confirmed
                   => Height[receipts'[p].block] <= safe
<1>1. JournalTypeOK /\ DeliveriesBacked
  BY DEF Inv
<1>2. UNCHANGED <<chain, active, early>>
  BY DEF ReconcileConfirmations
<1>3. ASSUME NEW p \in Payment
      PROVE  /\ receipts'[p].active = receipts[p].active
             /\ receipts'[p].block = receipts[p].block
             /\ receipts'[p].active /\ receipts'[p].confirmed
                  => Height[receipts'[p].block] <= safe
  <2>1. receipts[p] \in Receipt
    BY <1>1 DEF JournalTypeOK
  <2>2. receipts'[p] = [receipts[p] EXCEPT
             !.confirmed = (@ /\ p \notin Shallow(safe)) \/ p \in Deep(safe),
             !.rev = IF p \in Shallow(safe) THEN NextRev(p) ELSE @]
    BY DEF ReconcileConfirmations
  <2>3. /\ receipts'[p].active = receipts[p].active
        /\ receipts'[p].block = receipts[p].block
        /\ receipts'[p].confirmed =
             ((receipts[p].confirmed /\ p \notin Shallow(safe)) \/ p \in Deep(safe))
    BY <2>1, <2>2 DEF Receipt
  <2>4. receipts[p].active => Height[receipts[p].block] \in Nat
    BY DEF Inv, ReceiptsMined, JournalAssumption
  <2>5. ASSUME receipts'[p].active, receipts'[p].confirmed
        PROVE  Height[receipts[p].block] <= safe
    <3>1. CASE p \in Deep(safe)
      BY <3>1 DEF Deep
    <3>2. CASE receipts[p].confirmed /\ p \notin Shallow(safe)
      <4>1. receipts[p].active
        BY <2>3, <2>5
      <4>2. ~(Height[receipts[p].block] > safe)
        BY <3>2, <4>1 DEF Shallow
      <4> QED
        BY <2>4, <4>1, <4>2
    <3> QED
      BY <2>3, <2>5, <3>1, <3>2
  <2> QED
    BY <2>3, <2>5
<1>4. ChainLinked' /\ ReceiptsOnChain'
  BY <1>2, <1>3 DEF ScanChain, ChainLinked, ReceiptsOnChain
<1>5. ObserversKnown'
  <2>1. PICK new : Publish(new)
    BY DEF ReconcileConfirmations
  <2> QED
    BY <1>1, <1>2, <2>1, PublishObservers DEF ScanChain
<1> QED
  BY <1>2, <1>3, <1>4, <1>5 DEF ScanChain

LEMMA OpenChain ==
  ASSUME Inv, ScanChain, NEW configured \in SUBSET Consumer, Open(configured)
  PROVE  ScanChain'
<1>1. /\ UNCHANGED <<chain, receipts, subs, queued>>
      /\ active' = configured
      /\ early' = (early \/ configured \cap Observer # {})
  BY DEF Open, Register, tables, queues
<1>2. ChainLinked' /\ ReceiptsOnChain'
  BY <1>1 DEF ScanChain, ChainLinked, ReceiptsOnChain
<1>3. ObserversKnown'
  BY <1>1 DEF ScanChain, ObserversKnown
<1> QED
  BY <1>2, <1>3 DEF ScanChain

LEMMA SameJournal ==
  ASSUME JournalAssumption, Inv, ScanChain, UNCHANGED jvars
  PROVE  Inv' /\ ScanChain'
<1>1. Inv'
  BY NextInv
<1>2. ScanChain'
  BY DEF jvars, ScanChain, ChainLinked, ReceiptsOnChain, ObserversKnown
<1> QED
  BY <1>1, <1>2

-----------------------------------------------------------------------------
(***************************************************************************)
(* The invariant of a scan: what its steps so far are evidence of.         *)
(***************************************************************************)
\* A scan denies readiness, and remembers the node's present tip, too.
Watching == pc \in Scanning => best \in views /\ ~ready

NextAbove == pc \in {"append", "birth", "recheckTip", "recheckBlock"} => next >= Birthday

TipSeen == pc \in Scanning \ {"tip"} => \E t \in views : Height[t] = tip

CursorSeen ==
  pc \in {"verify", "verifyTip", "publish"} /\ chain # <<>>
    => \E t \in views : Cursor \in Branch[t]

VerifiedSeen ==
  pc \in {"verifyTip", "publish"} => \E t \in views : Height[t] = verified

DepthChecked ==
  pc = "publish" =>
    \A p \in Payment : receipts[p].active /\ receipts[p].confirmed
                         => Height[receipts[p].block] <= Safe(verified)

Evidence ==
  Watching /\ NextAbove /\ TipSeen /\ CursorSeen /\ VerifiedSeen /\ DepthChecked

ScanInv == Inv /\ ScanTypeOK /\ ScanChain /\ Evidence /\ ReadyIsCanonical

LEMMA NodeAnswers ==
  ASSUME JournalAssumption, ScannerAssumption, ScanTypeOK, NEW h \in Nat, NEW x \in HashAt(h)
  PROVE  x \in Block /\ x \in Branch[best] /\ Height[x] = h
  BY DEF HashAt, ScanTypeOK, ScannerAssumption

LEMMA SafeNat ==
  ASSUME ScannerAssumption, NEW h \in Nat
  PROVE  /\ Safe(h) \in Nat
         /\ \A n \in Nat : n > Safe(h) /\ n >= Birthday => h - n + 1 < Depth
         /\ \A n \in Nat : n <= Safe(h) /\ n >= Birthday => h - n + 1 >= Depth
<1>1. Depth \in Nat /\ Depth >= 1 /\ Birthday \in Nat /\ Birthday >= 1
  BY DEF ScannerAssumption
<1>2. Safe(h) = IF h > Depth - 1 THEN h - (Depth - 1) ELSE 0
  BY DEF Safe, Minus
<1>3. Safe(h) \in Nat
  BY <1>1, <1>2
<1>4. \A n \in Nat : n > Safe(h) /\ n >= Birthday => h - n + 1 < Depth
  BY <1>1, <1>2
<1>5. ASSUME NEW n \in Nat, n <= Safe(h), n >= Birthday
      PROVE  h - n + 1 >= Depth
  <2>1. n >= 1 /\ n # 0
    BY <1>1, <1>5
  <2>2. h > Depth - 1 /\ Safe(h) = h - (Depth - 1)
    BY <1>1, <1>2, <1>5, <2>1
  <2> QED
    BY <1>1, <1>5, <2>2
<1> QED
  BY <1>3, <1>4, <1>5

\* Every step is a transaction of the journal, or none.
LEMMA ScanJournal ==
  ASSUME JournalAssumption, ScannerAssumption, ScanInv, [ScanNext]_svars
  PROVE  Inv' /\ ScanChain'
<1>0. Inv /\ ScanChain /\ ScanTypeOK /\ Evidence
  BY DEF ScanInv
<1>1. CASE UNCHANGED jvars
  BY <1>0, <1>1, SameJournal
<1>2. ASSUME NEW configured \in Configs, StartScanner(configured)
      PROVE  Inv' /\ ScanChain'
  <2>1. Open(configured) /\ configured \in SUBSET Consumer
    BY <1>2, HealthAssumption DEF StartScanner, HealthAssumption
  <2> QED
    BY <1>0, <2>1, OpenInv, OpenChain
<1>3. CASE RollBack
  BY <1>0, <1>3, RollbackInv, RollbackChain DEF RollBack
<1>4. CASE AppendBlock
  <2>1. /\ fetched \in HashAt(next) /\ next >= Birthday /\ next \in Nat
        /\ AppendState(fetched, ~early) /\ (~early) \in BOOLEAN
    BY <1>0, <1>4 DEF AppendBlock, Evidence, NextAbove, ScanTypeOK
  <2>2. fetched \in Block /\ Height[fetched] = next
    BY <1>0, <2>1, NodeAnswers
  <2> QED
    BY <1>0, <2>1, <2>2, AppendInv, AppendChain
<1>5. CASE Reconcile
  <2>1. Safe(verified) \in Nat /\ ReconcileConfirmations(Safe(verified))
    BY <1>0, <1>5, SafeNat DEF Reconcile, ScanTypeOK
  <2> QED
    BY <1>0, <2>1, ReconcileInv, ReconcileChain
<1>6. [ScanNext]_svars =>
        \/ UNCHANGED jvars
        \/ \E configured \in Configs : StartScanner(configured)
        \/ RollBack \/ AppendBlock \/ Reconcile
  BY DEF ScanNext, svars, StopScanner, Reorg, ScanStep, FailScan, BeginScan, ReadTip,
         ReadAnchor, StopRollingBack, FetchBlock, CheckPredecessor, RecheckTip,
         BatchDone, CheckFinalTip, CheckFinalCursor, VerifyTip, PublishHealth,
         MismatchEndsScan, Unmoved
<1> QED
  BY <1>1, <1>2, <1>3, <1>4, <1>5, <1>6

LEMMA ScanTypes ==
  ASSUME JournalAssumption, ScannerAssumption, ScanTypeOK, [ScanNext]_svars, JournalTypeOK'
  PROVE  ScanTypeOK'
<1> USE DEF ScanTypeOK, Scanning, Goto, node, local
<1>1. Birthday \in Nat /\ Batch \in Nat /\ Batch >= 1 /\ MaxReorgs \in Nat
      /\ MaxFails \in Nat /\ MaxStops \in Nat /\ Height[best] \in Nat
  BY HealthAssumption DEF ScannerAssumption, JournalAssumption, HealthAssumption
<1>2. CASE UNCHANGED svars
  BY <1>2 DEF svars
<1>3. ASSUME NEW configured \in Configs, StartScanner(configured)
      PROVE  ScanTypeOK'
  <2>1. pc' = "sleep" /\ ready' = FALSE
        /\ UNCHANGED <<best, reorgs, tip, anchor, next, last, fetched, verified, views,
                       fails, stops>>
    BY <1>3 DEF StartScanner
  <2> QED
    BY <2>1
<1>4. CASE StopScanner
  <2>1. pc' = "off" /\ stops' = stops + 1 /\ stops < MaxStops
        /\ UNCHANGED <<best, reorgs, tip, anchor, next, last, fetched, verified, views, fails>>
    BY <1>4 DEF StopScanner
  <2>2. ready' \in BOOLEAN
    BY <1>4 DEF StopScanner
  <2>3. stops' \in 0 .. MaxStops
    BY <1>1, <2>1
  <2> QED
    BY <2>1, <2>2, <2>3
<1>5. CASE \E b \in Block : Reorg(b)
  BY <1>1, <1>5 DEF Reorg
<1>6. CASE BeginScan
  BY <1>6 DEF BeginScan
<1>7. CASE ReadTip \/ VerifyTip
  BY <1>1, <1>7 DEF ReadTip, VerifyTip
<1>8. CASE ReadAnchor
  BY <1>8, NodeAnswers DEF ReadAnchor
<1>9. CASE RollBack
  BY <1>9 DEF RollBack
<1>10. CASE StopRollingBack
  <2>1. /\ next' = IF chain = <<>> THEN Birthday ELSE Height[Cursor] + 1
        /\ last' = LastOfBatch(next')
    BY <1>10 DEF StopRollingBack
  <2>2. next' \in Nat
    <3>1. chain # <<>> => Height[Cursor] \in Nat
      BY CursorOnChain DEF JournalAssumption
    <3> QED
      BY <1>1, <2>1, <3>1
  <2>3. Target \in Nat
    BY SafeNat DEF Target
  <2>4. last' \in Nat
    <3>1. last' = IF Target < next' + Batch THEN Target ELSE next' + Batch - 1
      BY <2>1 DEF LastOfBatch
    <3>2. next' + Batch - 1 \in Nat
      BY <1>1, <2>2
    <3> HIDE DEF ScanTypeOK
    <3> QED
      BY <2>3, <3>1, <3>2
  <2> QED
    BY <1>10, <2>2, <2>4 DEF StopRollingBack
<1>11. CASE FetchBlock
  BY <1>11, NodeAnswers DEF FetchBlock
<1>12. CASE CheckPredecessor \/ RecheckTip \/ BatchDone \/ CheckFinalTip \/ CheckFinalCursor
  BY <1>12 DEF CheckPredecessor, RecheckTip, BatchDone, CheckFinalTip, CheckFinalCursor,
               Unmoved
<1>13. CASE AppendBlock
  BY <1>13 DEF AppendBlock
<1>14. CASE Reconcile
  BY <1>14 DEF Reconcile
<1>15. CASE PublishHealth
  BY <1>15 DEF PublishHealth, CaughtUp
<1>16. CASE FailScan
  <2>1. pc' = "sleep" /\ ready' = FALSE /\ fails' = fails + 1 /\ fails < MaxFails
        /\ UNCHANGED <<best, reorgs, tip, anchor, next, last, fetched, verified, views, stops>>
    BY <1>16 DEF FailScan
  <2>2. fails' \in 0 .. MaxFails
    BY <1>1, <2>1
  <2> QED
    BY <2>1, <2>2
<1>17. CASE MismatchEndsScan
  BY <1>17 DEF MismatchEndsScan
<1> QED
  BY <1>2, <1>3, <1>4, <1>5, <1>6, <1>7, <1>8, <1>9, <1>10, <1>11, <1>12, <1>13, <1>14,
     <1>15, <1>16, <1>17 DEF ScanNext, ScanStep

\* Readiness stays true while the journal stands still.
LEMMA ReadyStays ==
  ASSUME ReadyIsCanonical, UNCHANGED <<chain, receipts, early>>,
         views \subseteq views', ready' => ready
  PROVE  ReadyIsCanonical'
  BY DEF ReadyIsCanonical, ChainIsCanonical, IsBuried, HasDepth

\* A health record that says ready sums up what the scan has seen.
LEMMA HealthIsEvidence ==
  ASSUME JournalAssumption, ScannerAssumption, ScanInv, PublishHealth
  PROVE  ReadyIsCanonical'
<1>0. /\ JournalTypeOK /\ ScanTypeOK /\ ScanChain /\ Evidence /\ Inv
      /\ pc = "publish" /\ ready' = CaughtUp
      /\ UNCHANGED <<chain, receipts, early, views>>
  BY DEF ScanInv, Inv, PublishHealth, jvars
<1>1. SUFFICES ASSUME CaughtUp
               PROVE  /\ ChainIsCanonical
                      /\ \A p \in Payment : receipts[p].active /\ receipts[p].confirmed
                                              => IsBuried(receipts[p].block)
  BY <1>0 DEF ReadyIsCanonical, ChainIsCanonical, IsBuried, HasDepth
<1>2. chain # <<>>
  BY <1>1 DEF CaughtUp
<1>3. PICK t \in views : Cursor \in Branch[t]
  BY <1>0, <1>2 DEF Evidence, CursorSeen
<1>4. PICK v \in views : Height[v] = verified
  BY <1>0 DEF Evidence, VerifiedSeen
<1>5. t \in Block /\ v \in Block
  BY <1>0 DEF ScanTypeOK
<1>6. \A i \in DOMAIN chain : chain[i] \in Branch[t]
  BY <1>0, <1>2, <1>3, <1>5, CursorSpeaksForChain DEF ScanChain
<1>7. ASSUME NEW p \in Payment, receipts[p].active, receipts[p].confirmed
      PROVE  IsBuried(receipts[p].block)
  <2> DEFINE b == receipts[p].block
  <2>1. PICK i \in DOMAIN chain : chain[i] = b
    BY <1>0, <1>7 DEF ScanChain, ReceiptsOnChain
  <2>2. b \in Block /\ b \in Branch[t] /\ Height[b] >= Birthday
    BY <1>0, <1>2, <1>6, <2>1, CursorOnChain DEF ScanChain, ChainLinked
  <2>3. Height[b] \in Nat /\ Height[t] \in Nat /\ Height[Cursor] \in Nat /\ verified \in Nat
    BY <1>0, <1>2, <1>5, <2>2, CursorOnChain DEF JournalAssumption, ScanTypeOK
  <2>4. Height[b] <= Safe(verified)
    BY <1>0, <1>7 DEF Evidence, DepthChecked
  <2>5. verified - Height[b] + 1 >= Depth
    BY <2>2, <2>3, <2>4, SafeNat
  <2>6. HasDepth(b, v)
    BY <1>4, <2>5 DEF HasDepth
  <2>7. CASE early
    <3>1. Height[Cursor] = verified
      BY <1>1, <2>7 DEF CaughtUp
    <3>2. Height[t] >= verified
      BY <1>3, <1>5, <3>1, TreeIsOrdered DEF BranchOrdered
    <3>3. HasDepth(b, t)
      <4>1. Depth \in Nat
        BY DEF ScannerAssumption
      <4> QED
        BY <2>3, <2>5, <3>2, <4>1 DEF HasDepth
    <3> QED
      BY <2>2, <2>7, <3>3 DEF IsBuried
  <2>8. CASE ~early
    BY <2>2, <2>6, <2>8 DEF IsBuried
  <2> QED
    BY <2>7, <2>8
<1> QED
  BY <1>6, <1>7 DEF ChainIsCanonical

LEMMA ScanEvidence ==
  ASSUME JournalAssumption, ScannerAssumption, ScanInv, [ScanNext]_svars
  PROVE  Evidence' /\ ReadyIsCanonical'
<1>0. /\ ScanTypeOK /\ JournalTypeOK /\ ScanChain /\ Evidence /\ ReadyIsCanonical
      /\ Watching /\ NextAbove /\ TipSeen /\ CursorSeen /\ VerifiedSeen /\ DepthChecked
      /\ Birthday \in Nat
  BY DEF ScanInv, Inv, Evidence, ScannerAssumption
<1> DEFINE Same == UNCHANGED jvars /\ UNCHANGED <<tip, verified, views, ready, best>>
\* Steps that leave the scan, or begin it.
<1>1. ASSUME pc' \in {"off", "sleep"}, UNCHANGED <<chain, receipts, early>>,
             views \subseteq views', ready' => ready
      PROVE  Evidence' /\ ReadyIsCanonical'
  <2>1. ReadyIsCanonical'
    BY <1>0, <1>1, ReadyStays
  <2>2. Evidence'
    BY <1>1 DEF Evidence, Watching, NextAbove, TipSeen, CursorSeen, VerifiedSeen,
                DepthChecked, Scanning
  <2> QED
    BY <2>1, <2>2
\* Steps within a scan find readiness denied, and leave it so.
<1>2. ASSUME pc \in Scanning, UNCHANGED ready
      PROVE  ReadyIsCanonical'
  BY <1>0, <1>2 DEF ReadyIsCanonical, Watching
<1> USE DEF Evidence, Watching, NextAbove, TipSeen, CursorSeen, VerifiedSeen,
            DepthChecked, Scanning, Goto
<1>3. CASE UNCHANGED svars
  <2>1. UNCHANGED <<chain, receipts, early, pc, views, ready, tip, next, verified, best>>
    BY <1>3 DEF svars, jvars, node, local
  <2>2. ReadyIsCanonical'
    BY <1>0, <2>1, ReadyStays
  <2> QED
    BY <1>0, <2>1, <2>2 DEF Cursor
<1>4. ASSUME NEW configured \in Configs, StartScanner(configured)
      PROVE  Evidence' /\ ReadyIsCanonical'
  BY <1>4 DEF StartScanner, ReadyIsCanonical
<1>5. CASE StopScanner
  <2>1. /\ pc' = "off" /\ UNCHANGED <<chain, receipts, early, views>>
        /\ ready' = ready \/ ready' = FALSE
    BY <1>5 DEF StopScanner, jvars
  <2>2. views \subseteq views' /\ (ready' => ready)
    BY <2>1
  <2> QED
    BY <1>1, <2>1, <2>2
<1>6. ASSUME NEW b \in Block, Reorg(b)
      PROVE  Evidence' /\ ReadyIsCanonical'
  <2>1. /\ UNCHANGED <<chain, receipts, early, pc, ready, tip, next, verified>>
        /\ best' = b /\ views' = views \cup {b}
    BY <1>6 DEF Reorg, jvars, local
  <2>2. ReadyIsCanonical'
    BY <1>0, <2>1, ReadyStays
  <2>3. \A t \in views : t \in views'
    BY <2>1
  <2>4. Cursor' = Cursor
    BY <2>1 DEF Cursor
  <2>5. Watching' /\ NextAbove' /\ DepthChecked'
    BY <1>0, <2>1
  <2>6. TipSeen' /\ VerifiedSeen'
    BY <1>0, <2>1, <2>3
  <2>7. CursorSeen'
    BY <1>0, <2>1, <2>3, <2>4
  <2> QED
    BY <2>2, <2>5, <2>6, <2>7
<1>7. CASE BeginScan
  BY <1>7 DEF BeginScan, node, ReadyIsCanonical
<1>8. CASE ReadTip
  <2>1. /\ pc = "tip" /\ pc' = "anchor" /\ tip' = Height[best]
        /\ UNCHANGED <<best, views, ready>>
    BY <1>8 DEF ReadTip, node
  <2> QED
    BY <1>0, <1>2, <2>1
<1>9. CASE ReadAnchor
  BY <1>0, <1>2, <1>9 DEF ReadAnchor, node
<1>10. CASE RollBack
  BY <1>0, <1>2, <1>10 DEF RollBack, node, local
<1>11. CASE StopRollingBack
  <2>1. /\ pc = "rollback" /\ pc' = "append"
        /\ next' = IF chain = <<>> THEN Birthday ELSE Height[Cursor] + 1
        /\ UNCHANGED <<best, views, ready, tip>>
    BY <1>11 DEF StopRollingBack, node
  <2>2. next' >= Birthday
    <3>1. CASE chain = <<>>
      BY <1>0, <2>1, <3>1
    <3>2. CASE chain # <<>>
      <4>1. Height[Cursor] >= Birthday /\ Height[Cursor] \in Nat
        BY <1>0, <3>2, CursorOnChain DEF ScanChain, ChainLinked, JournalAssumption
      <4> QED
        BY <1>0, <2>1, <3>2, <4>1
    <3> QED
      BY <3>1, <3>2
  <2> QED
    BY <1>0, <1>2, <2>1, <2>2
<1>12. CASE FetchBlock
  <2>1. /\ pc = "append" /\ pc' \in {"birth", "recheckTip"}
        /\ UNCHANGED <<best, views, ready, tip, next>>
    BY <1>12 DEF FetchBlock, node
  <2> QED
    BY <1>0, <1>2, <2>1
<1>13. CASE CheckPredecessor \/ RecheckTip
  BY <1>0, <1>2, <1>13 DEF CheckPredecessor, RecheckTip, Unmoved, node, local
<1>14. CASE AppendBlock
  <2>1. /\ pc = "recheckBlock" /\ pc' = "append" /\ next' = next + 1 /\ next \in Nat
        /\ UNCHANGED <<best, views, ready, tip>>
    BY <1>0, <1>14 DEF AppendBlock, node, ScanTypeOK
  <2> QED
    BY <1>0, <1>2, <2>1
<1>15. CASE BatchDone \/ CheckFinalTip
  BY <1>0, <1>2, <1>15 DEF BatchDone, CheckFinalTip, Unmoved, node, local
<1>16. CASE CheckFinalCursor
  <2>1. /\ pc = "finalCursor" /\ pc' = "verify"
        /\ chain # <<>> => Cursor \in Branch[best]
        /\ UNCHANGED <<chain, best, views, ready, tip>>
    BY <1>16 DEF CheckFinalCursor, HashAt, Unmoved, node, local, jvars
  <2>2. Cursor' = Cursor
    BY <2>1 DEF Cursor
  <2> QED
    BY <1>0, <1>2, <2>1, <2>2
<1>17. CASE VerifyTip
  <2>1. /\ pc = "verify" /\ pc' = "verifyTip" /\ verified' = Height[best]
        /\ UNCHANGED <<chain, best, views, ready, tip>>
    BY <1>17 DEF VerifyTip, node, jvars
  <2>2. Cursor' = Cursor
    BY <2>1 DEF Cursor
  <2> QED
    BY <1>0, <1>2, <2>1, <2>2
<1>18. CASE Reconcile
  <2>1. /\ pc = "verifyTip" /\ pc' = "publish"
        /\ ReconcileConfirmations(Safe(verified)) /\ Safe(verified) \in Nat
        /\ UNCHANGED <<best, views, ready, tip, verified>>
    BY <1>0, <1>18, SafeNat DEF Reconcile, node, local, ScanTypeOK
  <2>2. /\ chain' = chain
        /\ \A p \in Payment : receipts'[p].active /\ receipts'[p].confirmed
                                => Height[receipts'[p].block] <= Safe(verified)
    BY <2>1, ReconcileChain DEF ScanInv
  <2>3. Cursor' = Cursor
    BY <2>2 DEF Cursor
  <2>4. Safe(verified)' = Safe(verified)
    BY <2>1 DEF Safe, Minus
  <2> QED
    BY <1>0, <1>2, <2>1, <2>2, <2>3, <2>4
<1>19. CASE PublishHealth
  <2>1. pc' = "sleep"
    BY <1>19 DEF PublishHealth
  <2> QED
    BY <1>19, <2>1, HealthIsEvidence
<1>20. CASE FailScan \/ MismatchEndsScan
  BY <1>20 DEF FailScan, MismatchEndsScan, ReadyIsCanonical
<1> QED
  BY <1>3, <1>4, <1>5, <1>6, <1>7, <1>8, <1>9, <1>10, <1>11, <1>12, <1>13, <1>14, <1>15,
     <1>16, <1>17, <1>18, <1>19, <1>20 DEF ScanNext, ScanStep

LEMMA ScanInvKept ==
  ASSUME JournalAssumption, ScannerAssumption, ScanInv, [ScanNext]_svars
  PROVE  ScanInv'
<1>1. Inv' /\ ScanChain'
  BY ScanJournal
<1>2. ScanTypeOK'
  BY <1>1, ScanTypes DEF ScanInv, Inv
<1> QED
  BY <1>1, <1>2, ScanEvidence DEF ScanInv

LEMMA ScanInvBegins ==
  ASSUME JournalAssumption, ScannerAssumption, ScanInit
  PROVE  ScanInv
<1>1. Inv
  BY InitInv DEF ScanInit
<1>2. ScanTypeOK
  <2>1. 0 \in 0 .. MaxReorgs /\ 0 \in 0 .. MaxFails /\ 0 \in 0 .. MaxStops
    BY HealthAssumption DEF ScannerAssumption, HealthAssumption
  <2>2. reorgs \in 0 .. MaxReorgs /\ fails \in 0 .. MaxFails /\ stops \in 0 .. MaxStops
    BY <2>1 DEF ScanInit
  <2>3. {tip, next, last, verified} \subseteq Nat /\ {anchor, fetched} \subseteq {NoBlock}
    BY DEF ScanInit
  <2>4. JournalTypeOK /\ best \in Block /\ views \subseteq Block /\ pc = "off"
        /\ ready \in BOOLEAN
    BY <1>1 DEF ScanInit, Inv
  <2> QED
    BY <2>2, <2>3, <2>4 DEF ScanTypeOK
<1>3. ScanChain
  <2>1. DOMAIN chain = {}
    BY DEF ScanInit, JournalInit
  <2>2. \A p \in Payment : ~receipts[p].active
    BY DEF ScanInit, JournalInit
  <2>3. queued = {} /\ subs = {} /\ active = {}
    BY DEF ScanInit, JournalInit
  <2> QED
    BY <2>1, <2>2, <2>3 DEF ScanChain, ChainLinked, ReceiptsOnChain, ObserversKnown
<1>4. Evidence /\ ReadyIsCanonical
  BY DEF ScanInit, Evidence, Watching, NextAbove, TipSeen, CursorSeen, VerifiedSeen,
         DepthChecked, Scanning, ReadyIsCanonical
<1> QED
  BY <1>1, <1>2, <1>3, <1>4 DEF ScanInv

\* What the scanner theorems rest on, in every reachable state.
THEOREM ScanInvariant == ScanSpec => []ScanInv
<1>1. ScanInit => ScanInv
  BY JournalAssumption, ScannerAssumption, ScanInvBegins
<1>2. ScanInv /\ [ScanNext]_svars => ScanInv'
  BY JournalAssumption, ScannerAssumption, ScanInvKept
<1> QED
  BY <1>1, <1>2, PTL DEF ScanSpec

\* Type correctness of the scanner and the journal it writes.
THEOREM ScanTypeCorrect == ScanSpec => []ScanTypeOK
<1>1. ScanInv => ScanTypeOK
  BY DEF ScanInv
<1> QED
  BY <1>1, ScanInvariant, PTL

\* A journal that is declared ready was wholly on the node's best chain at one
\* instant of the scan, and what it calls confirmed is buried, however the node
\* moves between the scan's RPCs.
THEOREM ReadinessIsEvidence == ScanSpec => []ReadyIsCanonical
<1>1. ScanInv => ReadyIsCanonical
  BY DEF ScanInv
<1> QED
  BY <1>1, ScanInvariant, PTL

-----------------------------------------------------------------------------
(***************************************************************************)
(* Revocations.                                                            *)
(***************************************************************************)
LEMMA PublishedAreNew ==
  ASSUME NEW new, Publish(new), NEW e \in events', e \notin events
  PROVE  \E f \in new : f.id = e.id /\ f.block = e.block
<1>1. PICK n \in Numberings(new) :
        events' = events \cup {[id |-> x.id, block |-> x.block, seq |-> n[x]] : x \in new}
  BY DEF Publish
<1> QED
  BY <1>1

\* Appending a block withdraws nothing.
LEMMA AppendRevokesNothing ==
  ASSUME NEW b, NEW confirmed, AppendState(b, confirmed), NEW e \in events', e \notin events
  PROVE  e.id.phase # "revoked"
<1> DEFINE phase == IF confirmed THEN "confirmed" ELSE "observed"
           new == IF Height[b] < Floor THEN {}
                  ELSE {Body(Id(p, NextRev(p), phase), b) : p \in Carries[b]}
<1>1. Publish(new)
  BY DEF AppendState
<1>2. \A f \in new : f.id.phase = phase
  BY DEF Body, Id
<1> HIDE DEF new
<1>3. PICK f \in new : f.id = e.id
  BY <1>1, PublishedAreNew
<1> QED
  BY <1>2, <1>3

\* A rollback withdraws the payments of the block it drops.
LEMMA RollbackRevokes ==
  ASSUME JournalAssumption, Inv, ScanChain, RollbackOne, NEW e \in events', e \notin events
  PROVE  e.block = Cursor
<1>1. JournalTypeOK /\ chain # <<>>
  BY DEF Inv, RollbackOne
<1>2. Publish(Revocations(AboveFloor(Mined(Cursor))))
  BY DEF RollbackOne
<1>3. PICK f \in Revocations(AboveFloor(Mined(Cursor))) : f.block = e.block
  BY <1>2, PublishedAreNew
<1>4. PICK p \in Mined(Cursor) : f.block = receipts[p].block
  BY <1>3 DEF Revocations, AboveFloor, Body
<1>5. p \in Payment /\ receipts[p].active /\ Height[receipts[p].block] = Height[Cursor]
  BY <1>4 DEF Mined
<1>6. PICK i \in DOMAIN chain : chain[i] = receipts[p].block
  BY <1>5 DEF ScanChain, ReceiptsOnChain
<1>7. /\ Len(chain) \in DOMAIN chain /\ Cursor = chain[Len(chain)] /\ i <= Len(chain)
      /\ chain[i] \in Block /\ Cursor \in Block
  BY <1>1, <1>6, CursorOnChain
<1>8. i # Len(chain) => Height[chain[i]] < Height[Cursor]
  BY <1>7 DEF ScanChain, ChainLinked
<1>9. Height[Cursor] \in Nat
  BY <1>7 DEF JournalAssumption
<1> QED
  BY <1>3, <1>4, <1>5, <1>6, <1>7, <1>8, <1>9

\* A reconciliation withdraws confirmed payments above the safe height.
LEMMA ReconcileRevokes ==
  ASSUME Inv, ScanChain, NEW safe \in Nat, ReconcileConfirmations(safe),
         NEW e \in events', e \notin events, e.id.phase = "revoked"
  PROVE  /\ receipts[e.id.payment].confirmed
         /\ e.block \in Block /\ Height[e.block] > safe /\ Height[e.block] >= Birthday
<1> DEFINE lost == Shallow(safe)
           revoked == Revocations(AboveFloor(lost))
           others == Observations(AboveFloor(lost)) \cup Confirmed(AboveFloor(Deep(safe)))
<1>1. Publish(revoked \cup others)
  <2>1. Publish(Revocations(AboveFloor(lost)) \cup Observations(AboveFloor(lost))
                  \cup Confirmed(AboveFloor(Deep(safe))))
    BY DEF ReconcileConfirmations
  <2>2. revoked \cup others = Revocations(AboveFloor(lost)) \cup Observations(AboveFloor(lost))
                  \cup Confirmed(AboveFloor(Deep(safe)))
    OBVIOUS
  <2> QED
    BY <2>1, <2>2
<1>2. \A f \in others : f.id.phase # "revoked"
  BY DEF Observations, Confirmed, Body, Id
<1>3. \A f \in revoked : \E p \in lost : f.id.payment = p /\ f.block = receipts[p].block
  BY DEF Revocations, AboveFloor, Body, Id
<1>4. \A p \in lost : /\ p \in Payment /\ receipts[p].active /\ receipts[p].confirmed
                      /\ Height[receipts[p].block] > safe
  BY DEF Shallow
<1> HIDE DEF lost, revoked, others
<1>5. PICK f \in revoked \cup others : f.id = e.id /\ f.block = e.block
  BY <1>1, PublishedAreNew
<1>6. f \in revoked
  BY <1>2, <1>5
<1>7. PICK p \in lost : e.id.payment = p /\ e.block = receipts[p].block
  BY <1>3, <1>5, <1>6
<1>8. PICK i \in DOMAIN chain : chain[i] = e.block
  BY <1>4, <1>7 DEF ScanChain, ReceiptsOnChain
<1>9. chain[i] \in Block /\ Height[chain[i]] >= Birthday
  BY <1>8 DEF ScanChain, ChainLinked, Inv, JournalTypeOK
<1> QED
  BY <1>4, <1>7, <1>8, <1>9

LEMMA TooShallow ==
  ASSUME JournalAssumption, ScannerAssumption, NEW b \in Block, NEW t \in Block,
         Height[b] > Safe(Height[t]), Height[b] >= Birthday
  PROVE  ~HasDepth(b, t)
<1>1. Height[b] \in Nat /\ Height[t] \in Nat /\ Depth \in Nat
  BY DEF JournalAssumption, ScannerAssumption
<1>2. Height[t] - Height[b] + 1 < Depth
  BY <1>1, SafeNat
<1> QED
  BY <1>1, <1>2 DEF HasDepth

\* Nobody was told of an unconfirmed payment before the journal scans for them.
LEMMA NobodyToldEarly ==
  ASSUME Inv, ScanChain, ~early, NEW id \in EventId
  PROVE  ~ToldUnconfirmed(id)
<1> DEFINE seen == [id EXCEPT !.phase = "observed"]
<1>1. seen.phase = "observed"
  BY DEF EventId
<1> HIDE DEF seen
<1>2. ASSUME NEW c \in Consumer, <<c, seen>> \in queued
      PROVE  FALSE
  <2>1. <<c, seen>>[1] = c /\ <<c, seen>>[2] = seen
    OBVIOUS
  <2>2. c \in Observer
    BY <1>1, <1>2, <2>1 DEF ScanChain, ObserversKnown
  <2>3. <<c, seen.payment>> \in subs
    BY <1>2, <2>1 DEF Inv, DeliveriesBacked
  <2>4. <<c, seen.payment>>[1] = c
    OBVIOUS
  <2> QED
    BY <2>2, <2>3, <2>4 DEF ScanChain, ObserversKnown
<1> QED
  BY <1>2 DEF ToldUnconfirmed, seen

\* Why a revocation may be published: at an instant of the scan the block was off
\* the best chain, or short of its confirmations.
Justified(e) ==
  \E t \in views :
    \/ e.block \notin Branch[t]
    \/ /\ ~HasDepth(e.block, t)
       /\ receipts[e.id.payment].confirmed \/ ~ToldUnconfirmed(e.id)

LEMMA ScanJustifies ==
  ASSUME ScanInv, [ScanNext]_svars, NEW e \in events', e \notin events,
         e.id.phase = "revoked"
  PROVE  Justified(e)
<1>0. /\ JournalAssumption /\ ScannerAssumption
      /\ Inv /\ ScanChain /\ ScanTypeOK /\ JournalTypeOK
      /\ Watching /\ TipSeen /\ VerifiedSeen
  BY JournalAssumption, ScannerAssumption DEF ScanInv, Inv, Evidence
<1>1. CASE RollBack
  <2>1. /\ pc = "rollback" /\ chain # <<>> /\ CursorFalls /\ RollbackOne
    BY <1>1 DEF RollBack
  <2>2. e.block = Cursor
    BY <1>0, <2>1, RollbackRevokes
  <2>3. best \in views /\ best \in Block /\ views \subseteq Block
    BY <1>0, <2>1 DEF Watching, Scanning, ScanTypeOK
  <2>4. Cursor \in Block /\ Height[Cursor] \in Nat /\ Height[Cursor] >= Birthday
    <3>1. Cursor \in Block /\ Height[Cursor] >= Birthday
      BY <1>0, <2>1, CursorOnChain DEF ScanChain, ChainLinked
    <3> QED
      BY <1>0, <3>1 DEF JournalAssumption
  <2>5. CASE HashAt(Height[Cursor]) \notin {{}, {Cursor}}
    <3>1. Cursor \notin Branch[best]
      <4> SUFFICES ASSUME Cursor \in Branch[best]
                   PROVE  HashAt(Height[Cursor]) = {Cursor}
        BY <2>5
      <4> QED
        BY <1>0, <2>3, <2>4, TreeIsOrdered DEF HashAt, BranchOrdered
    <3> QED
      BY <2>2, <2>3, <3>1 DEF Justified
  <2>6. CASE Height[Cursor] > Target
    <3>1. PICK t \in views : Height[t] = tip
      BY <1>0, <2>1 DEF TipSeen, Scanning
    <3>2. t \in Block /\ Height[t] \in Nat
      BY <1>0, <2>3 DEF JournalAssumption
    <3>3. CASE early
      <4>1. Height[Cursor] > Height[t]
        BY <2>6, <3>1, <3>3 DEF Target
      <4>2. Cursor \notin Branch[t]
        <5>1. Cursor \in Branch[t] => Height[Cursor] <= Height[t]
          BY <1>0, <3>2, TreeIsOrdered DEF BranchOrdered
        <5> QED
          BY <2>4, <3>2, <4>1, <5>1
      <4> QED
        BY <2>2, <4>2 DEF Justified
    <3>4. CASE ~early
      <4>1. Height[Cursor] > Safe(Height[t])
        BY <2>6, <3>1, <3>4 DEF Target
      <4>2. ~HasDepth(e.block, t)
        BY <1>0, <2>2, <2>4, <3>2, <4>1, TooShallow
      <4>3. e.id \in EventId
        <5>1. JournalTypeOK'
          BY <1>0, ScanJournal DEF Inv
        <5> QED
          BY <5>1 DEF JournalTypeOK
      <4>4. ~ToldUnconfirmed(e.id)
        BY <1>0, <3>4, <4>3, NobodyToldEarly
      <4> QED
        BY <4>2, <4>4 DEF Justified
    <3> QED
      BY <3>3, <3>4
  <2> QED
    BY <2>1, <2>5, <2>6 DEF CursorFalls
<1>2. CASE AppendBlock
  BY <1>2, AppendRevokesNothing DEF AppendBlock
<1>3. CASE Reconcile
  <2>1. /\ pc = "verifyTip" /\ Safe(verified) \in Nat
        /\ ReconcileConfirmations(Safe(verified))
    BY <1>0, <1>3, SafeNat DEF Reconcile, ScanTypeOK
  <2>2. PICK t \in views : Height[t] = verified
    BY <1>0, <2>1 DEF VerifiedSeen
  <2>3. t \in Block
    BY <1>0, <2>2 DEF ScanTypeOK
  <2>4. /\ receipts[e.id.payment].confirmed /\ e.block \in Block
        /\ Height[e.block] > Safe(verified) /\ Height[e.block] >= Birthday
    BY <1>0, <2>1, ReconcileRevokes
  <2>5. ~HasDepth(e.block, t)
    BY <1>0, <2>2, <2>3, <2>4, TooShallow
  <2> QED
    BY <2>4, <2>5 DEF Justified
<1>4. CASE UNCHANGED events
  BY <1>4
<1>5. [ScanNext]_svars => UNCHANGED events \/ RollBack \/ AppendBlock \/ Reconcile
  BY DEF ScanNext, svars, StopScanner, Reorg, ScanStep, FailScan, BeginScan, ReadTip,
         ReadAnchor, StopRollingBack, FetchBlock, CheckPredecessor, RecheckTip,
         BatchDone, CheckFinalTip, CheckFinalCursor, VerifyTip, PublishHealth,
         MismatchEndsScan, Unmoved, jvars, StartScanner, Open, tables
<1> QED
  BY <1>1, <1>2, <1>3, <1>4, <1>5

\* The scan never manufactures a revocation, whatever the node, the failures and
\* the restarts do: the block of a withdrawn revision was off the best chain, or
\* short of its confirmations, at an instant of this very scan.
THEOREM RevocationsAreJustified == ScanSpec => RevocationIsJustified
<1> DEFINE Step == \A e \in events' \ events : e.id.phase = "revoked" => Justified(e)
<1>1. ScanInv /\ [ScanNext]_svars => [Step]_svars
  BY ScanJustifies
<1>2. Step <=> \A e \in events' \ events :
                 e.id.phase = "revoked" =>
                   \E t \in views :
                     \/ e.block \notin Branch[t]
                     \/ /\ ~HasDepth(e.block, t)
                        /\ receipts[e.id.payment].confirmed \/ ~ToldUnconfirmed(e.id)
  BY DEF Justified
<1> HIDE DEF Step
<1> QED
  BY <1>1, <1>2, ScanInvariant, PTL DEF ScanSpec, RevocationIsJustified

-----------------------------------------------------------------------------
(***************************************************************************)
(* The proofs of proof.rs.                                                 *)
(***************************************************************************)
\* While a proof is made, the node's present tip is one it has seen.
ProofWatches == step \notin {"idle", "proved"} => best \in proofViews

ProofTypeOK ==
  /\ step \in {"idle", "tip", "anchor", "inclusion", "recheck", "reread", "proved"}
  /\ proofTip \in Nat
  /\ proofViews \subseteq Block

\* The node never falls below the tip the depth is measured from.
TipHolds == step \in {"anchor", "inclusion"} => proofTip <= Height[best]

\* From the check of inclusion on, what the proof will have shown.
Shown == \E t \in proofViews : /\ claim.block \in Branch[t]
                               /\ claim.id.phase = "confirmed" => HasDepth(claim.block, t)
InclusionShown ==
  step \in {"recheck", "reread", "proved"} /\ claim.id.phase \in Positive => Shown

Proving == ProofTypeOK /\ ProofWatches /\ TipHolds /\ InclusionShown

LEMMA LapseKeepsScan ==
  ASSUME JournalAssumption, ScannerAssumption, ScanInv, EvidenceLapses
  PROVE  ScanInv'
<1>1. /\ UNCHANGED jvars /\ ready' = FALSE
      /\ UNCHANGED <<best, reorgs, tip, anchor, next, last, fetched, verified, pc, views,
                     fails, stops>>
  BY DEF EvidenceLapses, node, local
<1>2. Inv' /\ ScanChain'
  BY <1>1, SameJournal DEF ScanInv
<1>3. ScanTypeOK'
  BY <1>1, <1>2 DEF ScanInv, ScanTypeOK, Inv
<1>4. UNCHANGED <<chain, receipts, early, Cursor>>
  BY <1>1 DEF jvars, Cursor
<1>5. Evidence'
  <2>1. Evidence
    BY DEF ScanInv
  <2>2. Safe(verified)' = Safe(verified)
    BY <1>1 DEF Safe, Minus
  <2> QED
    BY <1>1, <1>4, <2>1, <2>2 DEF Evidence, Watching, NextAbove, TipSeen, CursorSeen,
                             VerifiedSeen, DepthChecked
<1>6. ReadyIsCanonical'
  BY <1>1 DEF ReadyIsCanonical
<1> QED
  BY <1>2, <1>3, <1>5, <1>6 DEF ScanInv

LEMMA VerifierKeepsScan ==
  ASSUME JournalAssumption, ScannerAssumption, ScanInv, UNCHANGED svars
  PROVE  ScanInv'
  BY ScanInvKept

\* The best tip only rises.
LEMMA NodeRises ==
  ASSUME JournalAssumption, ScannerAssumption, ScanTypeOK, ~MayRetreat,
         ScanNext \/ EvidenceLapses
  PROVE  Height[best'] >= Height[best]
<1>1. Height[best] \in Nat
  BY DEF JournalAssumption, ScanTypeOK
<1>2. CASE UNCHANGED best
  BY <1>1, <1>2
<1>3. ASSUME NEW b \in Block, Reorg(b)
      PROVE  Height[best'] >= Height[best]
  <2>1. best' = b /\ Height[b] > Height[best] /\ Height[b] \in Nat
    BY <1>3 DEF Reorg, JournalAssumption
  <2> QED
    BY <1>1, <2>1
<1>4. UNCHANGED best \/ \E b \in Block : Reorg(b)
  BY DEF ScanNext, StopScanner, ScanStep, FailScan, BeginScan, ReadTip,
         ReadAnchor, RollBack, StopRollingBack, FetchBlock, CheckPredecessor, RecheckTip,
         AppendBlock, BatchDone, CheckFinalTip, CheckFinalCursor, VerifyTip, Reconcile,
         PublishHealth, MismatchEndsScan, Unmoved, StartScanner, EvidenceLapses, node
<1> QED
  BY <1>2, <1>3, <1>4

LEMMA SurroundingsKeepProof ==
  ASSUME JournalAssumption, ScannerAssumption, ScanTypeOK, ScanTypeOK', ~MayRetreat,
         Proving, Surroundings
  PROVE  Proving'
<1>1. /\ ScanNext \/ EvidenceLapses
      /\ proofViews' = IF step = "proved" THEN proofViews ELSE proofViews \cup {best'}
      /\ UNCHANGED <<step, claim, proofTip>>
  BY DEF Surroundings
<1>2. proofViews \subseteq proofViews' /\ proofViews' \subseteq Block
  BY <1>1 DEF Proving, ProofTypeOK, ScanTypeOK
<1>3. ProofTypeOK' /\ ProofWatches'
  BY <1>1, <1>2 DEF Proving, ProofTypeOK, ProofWatches
<1>4. TipHolds'
  <2>1. Height[best'] >= Height[best] /\ Height[best] \in Nat /\ Height[best'] \in Nat
    BY <1>1, NodeRises DEF ScanTypeOK, JournalAssumption
  <2> QED
    BY <1>1, <2>1 DEF Proving, ProofTypeOK, TipHolds
<1>5. InclusionShown'
  BY <1>1, <1>2 DEF Proving, InclusionShown, Shown, HasDepth
<1> QED
  BY <1>3, <1>4, <1>5 DEF Proving

LEMMA InclusionProves ==
  ASSUME JournalAssumption, ScannerAssumption, ScanTypeOK, Proving, ProofInclusion
  PROVE  Shown
<1>1. /\ claim.block \in Branch[best] /\ ProofDepth
      /\ best \in proofViews /\ proofTip <= Height[best]
  BY DEF ProofInclusion, HashAt, Proving, ProofWatches, TipHolds
<1>2. /\ Height[claim.block] \in Nat /\ Height[best] \in Nat /\ proofTip \in Nat
      /\ Depth \in Nat
  BY <1>1 DEF ScannerAssumption, JournalAssumption, ScanTypeOK, Proving, ProofTypeOK
<1>3. claim.id.phase = "confirmed" => proofTip - Height[claim.block] + 1 >= Depth
  BY <1>1 DEF ProofDepth
<1>4. claim.id.phase = "confirmed" => Height[best] - Height[claim.block] + 1 >= Depth
  BY <1>1, <1>2, <1>3
<1> QED
  BY <1>1, <1>4 DEF Shown, HasDepth

LEMMA VerifierKeepsProof ==
  ASSUME JournalAssumption, ScannerAssumption, ScanTypeOK, Proving, Verifier
  PROVE  Proving'
<1> USE DEF Proving, ProofTypeOK, ProofWatches, TipHolds, InclusionShown
<1>0. Height[best] \in Nat /\ best \in Block
  BY DEF JournalAssumption, ScanTypeOK
<1>1. ASSUME NEW c, Begin(c)
      PROVE  Proving'
  BY <1>0, <1>1 DEF Begin, svars, node
<1>2. CASE ProofTip
  BY <1>0, <1>2 DEF ProofTip, svars, node
<1>3. CASE ProofAnchor
  <2>1. /\ step = "anchor" /\ UNCHANGED <<best, claim, proofTip, proofViews>>
        /\ step' = IF claim.id.phase = "revoked" THEN "recheck" ELSE "inclusion"
    BY <1>3 DEF ProofAnchor, svars, node
  <2> QED
    BY <2>1 DEF Positive
<1>4. CASE ProofInclusion
  <2>1. step' = "recheck" /\ step = "inclusion"
        /\ UNCHANGED <<best, claim, proofTip, proofViews>>
    BY <1>4 DEF ProofInclusion, svars, node
  <2>2. Shown
    BY <1>4, InclusionProves
  <2> QED
    BY <2>1, <2>2 DEF Shown, HasDepth
<1>5. CASE ProofRecheck \/ ProofReread
  <2>1. /\ step \in {"recheck", "reread"} /\ step' \in {"reread", "proved"}
        /\ UNCHANGED <<best, claim, proofTip, proofViews>>
    BY <1>5 DEF ProofRecheck, ProofReread, svars, node
  <2> QED
    BY <2>1 DEF Shown, HasDepth
<1>6. CASE ProofRefused
  BY <1>6 DEF ProofRefused, svars, node
<1>7. Verifier => \/ \E c : Begin(c)
                  \/ ProofTip \/ ProofAnchor \/ ProofInclusion \/ ProofRecheck
                  \/ ProofReread \/ ProofRefused
  BY DEF Verifier, BeginProof, BeginPayment
<1> QED
  BY <1>1, <1>2, <1>3, <1>4, <1>5, <1>6, <1>7

\* The scanner's invariant, with a verifier beside the scanner.
LEMMA ProofScanKept ==
  ASSUME JournalAssumption, ScannerAssumption, ScanInv, [Verifier \/ Surroundings]_allVars
  PROVE  ScanInv'
<1>1. CASE UNCHANGED svars
  BY <1>1, VerifierKeepsScan
<1>2. CASE ScanNext
  BY <1>2, ScanInvKept
<1>3. CASE EvidenceLapses
  BY <1>3, LapseKeepsScan
<1> QED
  BY <1>1, <1>2, <1>3 DEF Verifier, Surroundings, BeginProof, BeginPayment, Begin, ProofTip,
     ProofAnchor, ProofInclusion, ProofRecheck, ProofReread, ProofRefused, allVars

THEOREM ProofScanInvariant == ProofSpec => []ScanInv
<1>1. ProofInit => ScanInv
  BY JournalAssumption, ScannerAssumption, ScanInvBegins DEF ProofInit
<1>2. ScanInv /\ [Verifier \/ Surroundings]_allVars => ScanInv'
  BY JournalAssumption, ScannerAssumption, ProofScanKept
<1> QED
  BY <1>1, <1>2, PTL DEF ProofSpec

\* A proof is sound although its RPCs see different chains: the block it names
\* was canonical and deep enough at one instant.  A node that may also fall back
\* to a shorter chain is excluded: its tip would not bound the depth.
THEOREM ProofsAreSound ==
  ASSUME ~MayRetreat
  PROVE  ProofSpec => []ProofIsSound
<1>1. ProofInit => Proving
  BY DEF ProofInit, Proving, ProofTypeOK, ProofWatches, TipHolds, InclusionShown
<1>2. ScanInv /\ ScanInv' /\ Proving /\ [Verifier \/ Surroundings]_allVars => Proving'
  <2> SUFFICES ASSUME ScanInv, ScanInv', Proving, [Verifier \/ Surroundings]_allVars
               PROVE  Proving'
    OBVIOUS
  <2>1. ScanTypeOK /\ ScanTypeOK'
    BY DEF ScanInv
  <2>2. CASE UNCHANGED allVars
    BY <2>2 DEF allVars, svars, node, proofVars, Proving, ProofTypeOK, ProofWatches,
                TipHolds, InclusionShown, Shown, HasDepth
  <2> QED
    BY <2>1, <2>2, JournalAssumption, ScannerAssumption, SurroundingsKeepProof,
       VerifierKeepsProof
<1>3. Proving => ProofIsSound
  BY DEF Proving, InclusionShown, Shown, ProofIsSound
<1> QED
  BY <1>1, <1>2, <1>3, ProofScanInvariant, PTL DEF ProofSpec

\* Whoever was told of a revocation has the last word: no positive event and no
\* payment is proved once its revision is revoked in the log, although the node
\* is asked between the two readings of the journal.
THEOREM RevocationsOutliveProofs == ProofSpec => RevocationOutlivesProof
<1> DEFINE Outlived ==
             step = "reread" /\ step' = "proved" /\ claim.id.phase \in Positive =>
               ~ \E id \in Published : /\ id.payment = claim.id.payment
                                       /\ id.phase = "revoked" /\ id.rev >= claim.id.rev
<1>1. ASSUME ScanInv, [Verifier \/ Surroundings]_allVars
      PROVE  [Outlived]_allVars
  <2> SUFFICES ASSUME step = "reread", step' = "proved", claim.id.phase \in Positive,
                      NEW id \in Published, id.payment = claim.id.payment,
                      id.phase = "revoked", id.rev >= claim.id.rev
               PROVE  FALSE
    OBVIOUS
  <2>1. ProofReread
    BY <1>1 DEF Verifier, Surroundings, BeginProof, BeginPayment, Begin, ProofTip,
       ProofAnchor, ProofInclusion, ProofRecheck, ProofRefused, allVars, proofVars
  <2>2. claim.id.rev = receipts[claim.id.payment].rev /\ receipts[claim.id.payment].active
    <3>1. claim.id.phase # "revoked"
      BY DEF Positive
    <3>2. CASE claim.of = "event"
      BY <2>1, <3>1, <3>2 DEF ProofReread, Holds, Current
    <3>3. CASE claim.of # "event"
      <4> DEFINE p == claim.id.payment
      <4>1. Received(p) /\ RecordOf(p) = claim
        BY <2>1, <3>3 DEF ProofReread
      <4>2. RecordOf(p).id.rev = receipts[p].rev
        BY DEF RecordOf, Claim, Id
      <4> QED
        BY <4>1, <4>2 DEF Received
    <3> QED
      BY <3>2, <3>3
  <2>3. JournalTypeOK /\ RevocationIsFinal
    BY <1>1 DEF ScanInv, Inv
  <2>4. id.payment \in Payment /\ id.rev \in Nat
    BY <2>3 DEF Published, JournalTypeOK, EventId
  <2>5. receipts[id.payment].rev \in Nat
    BY <2>3, <2>4 DEF JournalTypeOK, Receipt
  <2>6. \/ receipts[id.payment].rev > id.rev
        \/ receipts[id.payment].rev = id.rev /\ ~receipts[id.payment].active
    BY <2>3 DEF RevocationIsFinal
  <2> QED
    BY <2>2, <2>4, <2>5, <2>6
<1> QED
  BY <1>1, ProofScanInvariant, PTL DEF ProofSpec, RevocationOutlivesProof
=============================================================================
