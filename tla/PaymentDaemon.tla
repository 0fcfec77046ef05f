--------------------------- MODULE PaymentDaemon ---------------------------
(***************************************************************************)
(* The whole payment daemon: the scanner of PaymentScanner, RPC by RPC,    *)
(* and the workers of PaymentDelivery over one journal.  PaymentDelivery   *)
(* lets the scanner be any sequence of transactions taken while readiness  *)
(* is denied; the property of this module is that the real one is such a   *)
(* sequence, so that what holds of PaymentDelivery holds of the daemon.    *)
(***************************************************************************)
EXTENDS PaymentDelivery, PaymentScanner

scanVars == <<node, local, pc, views, fails>>
workVars == <<running, worker, waiting, begun, done>>
daemonVars == <<vars, scanVars>>

DaemonInit == Init /\ ScanInit

Launch(configured) == Start(configured) /\ StartScanner(configured)
Halt == Stop /\ StopScanner

ScannerStep == (ScanStep \/ FailScan) /\ UNCHANGED workVars
NodeStep    == (\E b \in Block : Reorg(b)) /\ UNCHANGED workVars

\* fresh_until or the readiness lease passes.
EvidenceExpires == Health(FALSE) /\ UNCHANGED scanVars

WorkerStep ==
  /\ \E c \in Consumer : \/ ReadGate(c) \/ Take(c) \/ HookSucceeds(c)
                         \/ HookFails(c) \/ Record(c) \/ BackoffElapses(c)
  /\ UNCHANGED scanVars

OperatorStep ==
  /\ \/ \E configured \in Configs :
          OperatorOpen(configured) \/ OperatorHandoff(configured)
     \/ \E c \in Consumer, id \in Published : OperatorReplay(c, id)
  /\ UNCHANGED scanVars

DaemonNext ==
  \/ \E configured \in Configs : Launch(configured)
  \/ Halt
  \/ ScannerStep \/ NodeStep \/ EvidenceExpires \/ WorkerStep \/ OperatorStep

DaemonSpec == DaemonInit /\ [][DaemonNext]_daemonVars

-----------------------------------------------------------------------------
\* The scanner and the workers together are a PaymentDelivery: no transaction
\* of a scan runs while its readiness still lets positive work through, and
\* nothing but the modelled transactions touches the journal.
ImplementsDelivery == Spec

\* A hook that a worker may take right now with readiness in hand acts on a
\* payment whose block was on the node's best chain at some instant of the scan
\* that granted readiness, with the confirmations the event claims.  (A daemon
\* that was killed leaves its readiness behind until it expires; no worker runs
\* then, and an operator may already open the journal under another
\* configuration.)
OfferedWorkIsCanonical ==
  running /\ ready => \A d \in queued \ acked :
    d[2].phase \in Positive =>
      LET b == receipts[d[2].payment].block
      IN /\ \E t \in views : b \in Branch[t]
         /\ d[2].phase = "confirmed" => IsBuried(b)
=============================================================================
