--------------------------- MODULE PaymentScanner ---------------------------
(***************************************************************************)
(* The scanner of the payment daemon (rs/zcash-payment-hooks/src/          *)
(* scanner.rs, scan) against a Zcash node whose best chain moves between   *)
(* any two RPCs, including to a shorter chain.  One step per RPC, with the *)
(* journal transaction that follows it: a transaction reads nothing from   *)
(* the node, so nothing can be observed between the two.  Fetching a block *)
(* by its hash returns the same block whatever the best chain is, and is   *)
(* part of reading the hash.  Any RPC may fail, which ends the scan.       *)
(***************************************************************************)
EXTENDS PaymentHealth

CONSTANTS
  Branch,       \* Block -> the block and all its ancestors
  Depth,        \* confirmations: a tip has one
  Birthday,     \* birthday_height
  Batch,        \* blocks appended by one scan (100 in the code)
  MayRetreat,   \* may the node fall back to a chain that is not higher?
  MaxReorgs, MaxFails   \* bounds on what the environment does

\* A block tree: every block but the genesis block, of height zero, is one above
\* its parent.
ASSUME ScannerAssumption ==
  /\ Branch \in [Block -> SUBSET Block]
  /\ \A b \in Block : Branch[b] =
       {b} \cup (IF Parent[b] = NoBlock THEN {} ELSE Branch[Parent[b]])
  /\ \A b \in Block :
       Height[b] = IF Parent[b] = NoBlock THEN 0 ELSE Height[Parent[b]] + 1
  /\ Depth \in Nat \ {0} /\ Birthday \in Nat \ {0} /\ Batch \in Nat \ {0}
  /\ MayRetreat \in BOOLEAN
  /\ MaxReorgs \in Nat /\ MaxFails \in Nat

VARIABLES
  best,       \* the tip of the node's best chain
  pc,         \* "off", "sleep", or the next RPC of scan()
  tip,        \* height of the tip the scan targets
  anchor,     \* tip_hash: the block at that height when it was read
  next,       \* height of the next block to append
  last,       \* height of the last block this scan appends
  fetched,    \* the block read for height `next`
  verified,   \* height of the tip when it was read again at the end
  views,      \* history: every best tip since this scan began
  reorgs, fails   \* counts of environment steps

node  == <<best, reorgs>>
local == <<tip, anchor, next, last, fetched, verified>>
svars == <<jvars, node, local, pc, ready, views, fails, stops>>

\* scan()'s next RPC, or "publish" for the health record it ends with.
Scanning == {"tip", "anchor", "rollback", "append", "birth", "recheckTip",
             "recheckBlock", "finalTip", "finalCursor", "verify", "verifyTip",
             "publish"}

ScanTypeOK ==
  /\ JournalTypeOK
  /\ best \in Block /\ views \subseteq Block
  /\ pc \in {"off", "sleep"} \cup Scanning
  /\ {tip, next, last, verified} \subseteq Nat
  /\ {anchor, fetched} \subseteq Block \cup {NoBlock}
  /\ ready \in BOOLEAN
  /\ reorgs \in 0 .. MaxReorgs /\ fails \in 0 .. MaxFails /\ stops \in 0 .. MaxStops

ScanInit ==
  /\ JournalInit
  /\ best \in Block
  /\ pc = "off" /\ ready = FALSE /\ views = {}
  /\ tip = 0 /\ next = 0 /\ last = 0 /\ verified = 0
  /\ anchor = NoBlock /\ fetched = NoBlock
  /\ reorgs = 0 /\ fails = 0 /\ stops = 0

-----------------------------------------------------------------------------
(***************************************************************************)
(* The node.                                                               *)
(***************************************************************************)
\* getblockhash: the best chain's block at height h; no member is an RPC error.
HashAt(h) == {x \in Branch[best] : Height[x] = h}

Minus(m, n) == IF m > n THEN m - n ELSE 0   \* saturating_sub

\* Mutant: one confirmation too few.
SafeOffByOne(h) == Minus(h, Depth - 2)

Safe(h) == Minus(h, Depth - 1)

Reorg(b) ==
  /\ reorgs < MaxReorgs
  /\ b # best
  /\ MayRetreat \/ Height[b] > Height[best]
  /\ best' = b
  /\ reorgs' = reorgs + 1
  /\ views' = views \cup {b}
  /\ UNCHANGED <<jvars, local, pc, ready, fails, stops>>

-----------------------------------------------------------------------------
(***************************************************************************)
(* scan().                                                                 *)
(***************************************************************************)
Goto(label) == pc' = label

\* Mutant: the last verdict stands while the next scan runs.
BeginScanStillReady ==
  /\ pc = "sleep" /\ Goto("tip")
  /\ views' = {best}
  /\ UNCHANGED <<jvars, node, local, ready, fails, stops>>

\* Deny readiness, then read the tip and, below, the block at its height.
BeginScan ==
  /\ pc = "sleep" /\ Goto("tip")
  /\ ready' = FALSE
  /\ views' = {best}
  /\ UNCHANGED <<jvars, node, local, fails, stops>>

ReadTip ==
  /\ pc = "tip" /\ Goto("anchor")
  /\ tip' = Height[best]
  /\ UNCHANGED <<jvars, node, anchor, next, last, fetched, verified, ready,
                 views, fails, stops>>

ReadAnchor ==
  /\ pc = "anchor" /\ Goto("rollback")
  /\ anchor' \in HashAt(tip)
  /\ UNCHANGED <<jvars, node, tip, next, last, fetched, verified, ready,
                 views, fails, stops>>

Target == IF early THEN tip ELSE Safe(tip)

\* Drop journal blocks above the target or off the best chain, one at a time.
\* The height test comes first and needs no RPC.
CursorStands == Height[Cursor] <= Target /\ Cursor \in HashAt(Height[Cursor])
CursorFalls  == \/ Height[Cursor] > Target
                \/ HashAt(Height[Cursor]) \notin {{}, {Cursor}}

RollBack ==
  /\ pc = "rollback" /\ chain # <<>> /\ CursorFalls
  /\ RollbackOne
  /\ UNCHANGED <<node, local, pc, ready, views, fails, stops>>

\* Mutant: the range of heights excludes its end.
LastOfBatchExclusive(from) ==
  IF Target < from + Batch THEN Minus(Target, 1) ELSE from + Batch - 1

LastOfBatch(from) == IF Target < from + Batch THEN Target ELSE from + Batch - 1

StopRollingBack ==
  /\ pc = "rollback" /\ Goto("append")
  /\ chain # <<>> => CursorStands
  /\ next' = IF chain = <<>> THEN Birthday ELSE Height[Cursor] + 1
  /\ last' = LastOfBatch(next')
  /\ UNCHANGED <<jvars, node, tip, anchor, fetched, verified, ready, views,
                 fails, stops>>

FetchBlock ==
  /\ pc = "append" /\ next <= last
  /\ fetched' \in HashAt(next)
  /\ Goto(IF chain = <<>> THEN "birth" ELSE "recheckTip")
  /\ UNCHANGED <<jvars, node, tip, anchor, next, last, verified, ready, views,
                 fails, stops>>

Unmoved == UNCHANGED <<jvars, node, local, ready, views, fails, stops>>

CheckPredecessor ==
  /\ pc = "birth" /\ Goto("recheckTip")
  /\ Parent[fetched] \in HashAt(next - 1)
  /\ Unmoved

RecheckTip ==
  /\ pc = "recheckTip" /\ Goto("recheckBlock")
  /\ anchor \in HashAt(tip)
  /\ Unmoved

AppendBlock ==
  /\ pc = "recheckBlock" /\ Goto("append")
  /\ fetched \in HashAt(next)
  /\ AppendState(fetched, ~early)
  /\ next' = next + 1
  /\ UNCHANGED <<node, tip, anchor, last, fetched, verified, ready, views,
                 fails, stops>>

BatchDone ==
  /\ pc = "append" /\ next > last /\ Goto("finalTip")
  /\ Unmoved

CheckFinalTip ==
  /\ pc = "finalTip" /\ Goto("finalCursor")
  /\ anchor \in HashAt(tip)
  /\ Unmoved

CheckFinalCursor ==
  /\ pc = "finalCursor" /\ Goto("verify")
  /\ chain # <<>> => Cursor \in HashAt(Height[Cursor])
  /\ Unmoved

VerifyTip ==
  /\ pc = "verify" /\ Goto("verifyTip")
  /\ verified' = Height[best]
  /\ UNCHANGED <<jvars, node, tip, anchor, next, last, fetched, ready, views,
                 fails, stops>>

Reconcile ==
  /\ pc = "verifyTip" /\ Goto("publish")
  /\ anchor \in HashAt(tip)
  /\ ReconcileConfirmations(Safe(verified))
  /\ UNCHANGED <<node, local, ready, views, fails, stops>>

CaughtUp == chain # <<>> /\ Height[Cursor] = (IF early THEN verified ELSE Safe(verified))

\* The health record; its evidence may already have expired.
PublishHealth ==
  /\ pc = "publish" /\ Goto("sleep")
  /\ ready' = CaughtUp
  /\ UNCHANGED <<jvars, node, local, views, fails, stops>>

\* An RPC or a check fails: run() denies readiness and sleeps.
FailScan ==
  /\ pc \in Scanning
  /\ fails < MaxFails
  /\ Goto("sleep")
  /\ ready' = FALSE
  /\ fails' = fails + 1
  /\ UNCHANGED <<jvars, node, local, views, stops>>

\* A check that cannot succeed on the present best chain.
MismatchEndsScan ==
  /\ \/ pc = "anchor" /\ HashAt(tip) = {}
     \/ pc = "rollback" /\ chain # <<>> /\ ~CursorFalls /\ ~CursorStands
     \/ pc = "append" /\ next <= last /\ HashAt(next) = {}
     \/ pc = "birth" /\ Parent[fetched] \notin HashAt(next - 1)
     \/ pc \in {"recheckTip", "finalTip", "verifyTip"} /\ anchor \notin HashAt(tip)
     \/ /\ pc = "recheckBlock"
        /\ \/ fetched \notin HashAt(next)
           \/ ~Extends(fetched)
           \/ \E p \in Carries[fetched] : receipts[p].active
     \/ pc = "finalCursor" /\ chain # <<>> /\ Cursor \notin HashAt(Height[Cursor])
  /\ Goto("sleep")
  /\ ready' = FALSE
  /\ UNCHANGED <<jvars, node, local, views, fails, stops>>

ScanStep ==
  \/ BeginScan \/ ReadTip \/ ReadAnchor \/ RollBack \/ StopRollingBack
  \/ FetchBlock \/ CheckPredecessor \/ RecheckTip \/ AppendBlock \/ BatchDone
  \/ CheckFinalTip \/ CheckFinalCursor \/ VerifyTip \/ Reconcile
  \/ PublishHealth \/ MismatchEndsScan

-----------------------------------------------------------------------------
(***************************************************************************)
(* The daemon around it, and the passing of time.                          *)
(***************************************************************************)
StartScanner(configured) ==
  /\ pc = "off" /\ Goto("sleep")
  /\ Open(configured)
  /\ ready' = FALSE
  /\ UNCHANGED <<node, local, views, fails, stops>>

StopScanner ==
  /\ pc # "off" /\ stops < MaxStops /\ Goto("off")
  /\ ready' \in {ready, FALSE}
  /\ stops' = stops + 1
  /\ UNCHANGED <<jvars, node, local, views, fails>>

ScanNext ==
  \/ \E configured \in Configs : StartScanner(configured)
  \/ StopScanner
  \/ \E b \in Block : Reorg(b)
  \/ ScanStep
  \/ FailScan

ScanSpec == ScanInit /\ [][ScanNext]_svars

\* The daemon is restarted and its loop keeps scanning; the node owes nothing
\* but to answer, and to rest in the end, which the bounds on it say.
FairScanSpec ==
  /\ ScanSpec
  /\ WF_svars(\E configured \in Configs : StartScanner(configured))
  /\ WF_svars(ScanStep)

-----------------------------------------------------------------------------
(***************************************************************************)
(* Properties.                                                             *)
(***************************************************************************)
HasDepth(b, t) == Height[t] - Height[b] + 1 >= Depth

\* Readiness is evidence: whenever the health record says ready, every block of
\* the journal was on the node's best chain at one instant of the last scan,
\* even if the node switched back and forth between the scan's RPCs.
ChainIsCanonical == \E t \in views : \A i \in DOMAIN chain : chain[i] \in Branch[t]

\* So is a confirmation: its block was on the node's best chain, and the node
\* was as high as the confirmations need, at one and the same instant where the
\* journal scans up to the tip.
IsBuried(b) ==
  IF early THEN \E t \in views : b \in Branch[t] /\ HasDepth(b, t)
           ELSE /\ \E t \in views : b \in Branch[t]
                /\ \E t \in views : HasDepth(b, t)

ReadyIsCanonical ==
  ready =>
    /\ ChainIsCanonical
    /\ \A p \in Payment :
         receipts[p].active /\ receipts[p].confirmed => IsBuried(receipts[p].block)

\* The scan never manufactures a revocation: a revision is withdrawn only if at
\* some instant of this scan its block was off the best chain or short of the
\* required depth; and for the latter never from someone who was told of it as
\* unconfirmed.  A chain that only grows revokes nothing, whatever RPCs fail, however
\* often the daemon restarts, and while observing consumers come and go.
ToldUnconfirmed(id) ==
  \E c \in Consumer : <<c, [id EXCEPT !.phase = "observed"]>> \in queued

RevocationIsJustified ==
  [][\A e \in events' \ events :
       e.id.phase = "revoked" =>
         \E t \in views :
           \/ e.block \notin Branch[t]
           \/ /\ ~HasDepth(e.block, t)
              /\ receipts[e.id.payment].confirmed \/ ~ToldUnconfirmed(e.id)]_svars

\* Once the node rests, the journal catches up with it, batch by batch, whatever
\* it had recorded before, and every scan ends in readiness again.
GoalHeight == IF early THEN Height[best] ELSE Safe(Height[best])

CatchesUp ==
  \/ <>[](chain # <<>> /\ Cursor \in HashAt(GoalHeight)) /\ []<>ready
  \/ <>[](GoalHeight < Birthday)
=============================================================================
