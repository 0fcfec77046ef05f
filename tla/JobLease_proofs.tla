--------------------------- MODULE JobLease_proofs ---------------------------
(***************************************************************************)
(* Proofs about JobLease: the sweep's evidence is true, a NEVER body runs  *)
(* once, and status writes are a run's own.                                *)
(***************************************************************************)
EXTENDS JobLease, TLAPS

\* A run belongs to an attempt that was fetched, and the newest one to the
\* attempt that is doing.
RunsInOrder ==
  /\ status = "doing" => attempts \in Run /\ pc[attempts] # "none"
  /\ \A a \in Run : pc[a] # "none" => a < attempts \/ Current(a)

\* A body begins with the mark, and what a run leaves behind it leaves when it
\* is over.
RunsKeepPhase ==
  \A a \in Run :
    /\ pc[a] \in {"none", "fetched", "leased"} => a \notin begun
    /\ late[a] # "none" => pc[a] \in {"done", "dead"}
    /\ late[a] = "insert" => a \notin begun
    /\ cleanup[a] # "none" => pc[a] = "done"

\* A lease row is that of a run that acquired it and did not release it, and
\* says before_body only of a run that has not begun.
LeaseIsHonest ==
  IF lease.token = Absent
  THEN lease = NoLease
  ELSE /\ pc[lease.token] \notin {"none", "fetched", "over"}
       /\ lease.phase = "before_body" => lease.token \notin begun

\* An after_body marker names a run that is over.
MarkerIsHonest ==
  marker.kind = "after_body" =>
    marker.token \in Run /\ pc[marker.token] \in {"done", "dead"}

\* Unless an attempt was requeued without a lease, whoever holds the lease or
\* has just released it is the current run, or the job is finished.
Ownership ==
  ~orphaned => \A a \in Run : pc[a] = "over" \/ lease.token = a
                                => Current(a) \/ status = "finished"

\* The sweep takes a NEVER job only on a proof, and each of its bodies but the
\* last asked for its retry.
NeverTask ==
  task = "never" =>
    /\ ~orphaned
    /\ plan # NoPlan => plan.proof /\ plan.action \in {"retry", "failed"}
    /\ status # "finished" => \A a \in begun : a < attempts => a \in retried

IInv ==
  /\ RunsInOrder /\ RunsKeepPhase
  /\ LeaseIsHonest /\ MarkerIsHonest
  /\ Ownership /\ StatusWritesAreOwn
  /\ NeverTask /\ NeverBodyRunsOnce

-----------------------------------------------------------------------------
\* The rows that the statements write.
LEMMA Rows ==
  /\ NoLease \in LeaseRow /\ NoLease.token = Absent
  /\ NoMarker \in MarkerRow /\ NoMarker.kind = "none"
  /\ NoPlan \in PlanRow /\ NoPlan.action = "none"
  BY DEF LeaseRow, MarkerRow, PlanRow, NoLease, NoMarker, NoPlan, Token

LEMMA LeaseRows ==
  ASSUME lease \in LeaseRow
  PROVE  /\ lease.token \in Token /\ lease.silent \in BOOLEAN
         /\ lease.phase \in {"before_body", "body_started"}
         /\ Marked \in LeaseRow /\ Marked.token = lease.token
         /\ Marked.phase = "body_started"
         /\ \A b \in BOOLEAN :
              /\ [lease EXCEPT !.silent = b] \in LeaseRow
              /\ [lease EXCEPT !.silent = b].token = lease.token
              /\ [lease EXCEPT !.silent = b].phase = lease.phase
         /\ \A a \in Run :
              /\ Inserted(a) \in LeaseRow /\ Inserted(a).token = a
              /\ Inserted(a).phase = IF lease.token < a THEN "before_body"
                                                        ELSE lease.phase
  BY DEF LeaseRow, Marked, Inserted, Token

\* What Cleanup puts back.
LEMMA ReinsertedRows ==
  ASSUME NEW a \in Run
  PROVE  LET row == [token |-> a, silent |-> FALSE, phase |-> PhaseOf(a)] IN
         row \in LeaseRow /\ row.token = a /\ row.phase = PhaseOf(a)
  BY DEF LeaseRow, PhaseOf, Token

LEMMA MarkerRows ==
  ASSUME NEW kind \in {"before_body", "after_body", "deadline", "gave_up"},
         NEW t \in Token, NEW n \in Token
  PROVE  LET row == [kind |-> kind, token |-> t, attempts |-> n] IN
         row \in MarkerRow /\ row.kind = kind /\ row.token = t
  BY DEF MarkerRow

\* A stamp only spoils what the sweep has seen.
LEMMA StampedPlan ==
  ASSUME plan \in PlanRow, Stamp
  PROVE  /\ plan' \in PlanRow /\ plan'.action = plan.action
         /\ plan'.proof = plan.proof /\ (plan' # NoPlan => plan # NoPlan)
  BY DEF PlanRow, Stamp

\* What a status write leaves in the job row.
LEMMA RecordTypes ==
  ASSUME TypeOK, RunsInOrder, NEW a \in Run, NEW new \in Outcome(a), Record(a, new)
  PROVE  /\ status' \in {"todo", "finished"} /\ attempts' \in 0 .. MaxAttempts
         /\ retried' \in SUBSET Run /\ stray' \in BOOLEAN
         /\ UNCHANGED <<aged, stale, orphaned, dropped>>
<1>1. new \in {"todo", "finished"}
  BY DEF Outcome
<1>2. attempts' \in 0 .. MaxAttempts
  BY LeaseAssumption DEF Record, RunsInOrder, TypeOK, Run
<1> QED
  BY <1>1, <1>2 DEF Record, TypeOK

\* What the sweep plans: for a NEVER task only what a proof allows.
LEMMA PlannedRow ==
  ASSUME TypeOK, RunsInOrder, Decide
  PROVE  /\ plan' \in PlanRow
         /\ task = "never" => /\ plan'.proof
                              /\ plan'.action \in {"retry", "failed"}
<1>1. attempts \in Token /\ lease.token \in Token
  BY LeaseRows DEF Decide, RunsInOrder, TypeOK, Token
<1>2. PICK action \in Decisions :
        plan' = [action |-> action, attempts |-> attempts, token |-> lease.token,
                 proof |-> action = BoundedRetry /\ AbandonedPhase = "before_body",
                 seen |-> TRUE]
  BY DEF Decide
<1>3. action \in {"retry", "failed", "deadline_abort", "deadline_failed"}
  BY <1>2 DEF Decisions, ForNever, ForFinite, BoundedRetry
<1>4. task = "never" => /\ action = BoundedRetry /\ AbandonedPhase = "before_body"
                        /\ action \in {"retry", "failed"}
  BY <1>2 DEF Decisions, ForNever, BoundedRetry
<1> QED
  BY <1>1, <1>2, <1>3, <1>4 DEF PlanRow

-----------------------------------------------------------------------------
\* The variables keep their types.  attempts grows only while the job is doing,
\* and only an attempt that may be fetched is ever doing.
LEMMA TypeStep ==
  ASSUME TypeOK, RunsInOrder, [Next]_vars
  PROVE  TypeOK'
<1> USE LeaseAssumption DEF TypeOK, RunsInOrder, Run, Token, Current, job, runs, history
<1>1. ASSUME NEW a \in Run, Fetch(a) PROVE TypeOK'
  BY <1>1 DEF Fetch, To
<1>2. ASSUME NEW a \in Run, Acquire(a) PROVE TypeOK'
  BY LeaseRows, StampedPlan, <1>2 DEF Acquire, To
<1>3. ASSUME NEW a \in Run, BeginBody(a) PROVE TypeOK'
  BY LeaseRows, <1>3 DEF BeginBody, To
<1>4. ASSUME NEW a \in Run, Unverified(a) PROVE TypeOK'
  BY <1>4 DEF Unverified, To, Behind, Happens
<1>5. ASSUME NEW a \in Run, Beat(a) PROVE TypeOK'
  BY LeaseRows, StampedPlan, <1>5 DEF Beat
<1>6. ASSUME NEW a \in Run, Release(a) PROVE TypeOK'
  BY Rows, <1>6 DEF Release, To
<1>7. ASSUME NEW a \in Run, Persist(a) PROVE TypeOK'
  BY RecordTypes, <1>7 DEF Persist, To
<1>8. ASSUME NEW a \in Run, PersistRaised(a) PROVE TypeOK'
  <2>1. cleanup' \in [Run -> {"none", "before_body", "after_body"}] /\ faults' \in Nat
    BY <1>8 DEF PersistRaised, Happens
  <2>2. ASSUME NEW new \in Outcome(a), Record(a, new) PROVE TypeOK'
    BY RecordTypes, <2>1, <2>2, <1>8 DEF PersistRaised, To
  <2>3. CASE UNCHANGED <<job, history>>
    BY <2>1, <2>3, <1>8 DEF PersistRaised, To
  <2> QED
    BY <2>2, <2>3, <1>8 DEF PersistRaised
<1>9. ASSUME NEW a \in Run, Cleanup(a) PROVE TypeOK'
  BY ReinsertedRows, MarkerRows, StampedPlan, <1>9 DEF Cleanup
<1>10. ASSUME NEW a \in Run, DropCleanup(a) PROVE TypeOK'
  BY <1>10 DEF DropCleanup, Happens
<1>11. ASSUME NEW a \in Run, LateLands(a) PROVE TypeOK'
  BY LeaseRows, StampedPlan, Rows, <1>11 DEF LateLands
<1>12. ASSUME NEW a \in Run, LateLost(a) PROVE TypeOK'
  BY <1>12 DEF LateLost
<1>13. ASSUME NEW a \in Run, Crash(a) PROVE TypeOK'
  BY <1>13 DEF Crash, To, Happens
<1>14. ASSUME NEW a \in Run, Freeze(a) PROVE TypeOK'
  <2>1. lease' \in LeaseRow
    BY LeaseRows, <1>14 DEF Freeze
  <2> QED
    BY <2>1, <1>14 DEF Freeze, Happens
<1>15. ASSUME NEW a \in Run, Heartbeat(a) PROVE TypeOK'
  BY <1>15 DEF Heartbeat
<1>16. ASSUME NEW a \in Run, HeartbeatExpires(a) PROVE TypeOK'
  BY <1>16 DEF HeartbeatExpires
<1>17. ASSUME NEW a \in Run, LeaseExpires(a) PROVE TypeOK'
  BY LeaseRows, <1>17 DEF LeaseExpires
<1>18. ASSUME NEW a \in Run, Overrun(a) PROVE TypeOK'
  BY <1>18 DEF Overrun
<1>19. CASE Age
  BY <1>19 DEF Age
<1>20. CASE Decide
  <2>1. plan' \in PlanRow
    BY PlannedRow, <1>20
  <2> QED
    BY <2>1, <1>20 DEF Decide
<1>21. CASE ApplyAbort
  <2>1. lease.token \in Token /\ attempts \in Token
    BY LeaseRows, <1>21 DEF ApplyAbort, Applies, SameRows
  <2>2. marker' \in MarkerRow /\ plan' \in PlanRow
    BY Rows, MarkerRows, <2>1, <1>21 DEF ApplyAbort
  <2> QED
    BY <2>2, <1>21 DEF ApplyAbort
<1>22. CASE ApplyFailure
  BY Rows, LeaseRows, MarkerRows, <1>22 DEF ApplyFailure, Applies, SameRows
<1>23. CASE ApplyRetry
  BY Rows, <1>23 DEF ApplyRetry, Applies, SameRows
<1>24. CASE Abstain
  BY Rows, <1>24 DEF Abstain, Happens
<1>25. CASE UNCHANGED vars
  BY <1>25 DEF vars
<1> QED
  BY <1>1, <1>2, <1>3, <1>4, <1>5, <1>6, <1>7, <1>8, <1>9, <1>10, <1>11, <1>12,
    <1>13, <1>14, <1>15, <1>16, <1>17, <1>18, <1>19, <1>20, <1>21, <1>22, <1>23,
    <1>24, <1>25 DEF Next, Execute, Environment, Clock, Apply

-----------------------------------------------------------------------------
\* Every step keeps the invariant.
LEMMA InvStep ==
  ASSUME TypeOK, TypeOK', IInv, [Next]_vars
  PROVE  IInv'
<1> USE LeaseAssumption DEF TypeOK, IInv, RunsInOrder, RunsKeepPhase, LeaseIsHonest,
    MarkerIsHonest, Ownership, NeverTask, NeverBodyRunsOnce, StatusWritesAreOwn, Run,
    Token, Absent, Current, job, runs, history
<1>1. ASSUME NEW a \in Run, Fetch(a) PROVE IInv'
  BY <1>1 DEF Fetch, To
<1>2. ASSUME NEW a \in Run, Acquire(a) PROVE IInv'
  BY LeaseRows, StampedPlan, <1>2 DEF Acquire, To, MayInsert
<1>3. ASSUME NEW a \in Run, BeginBody(a) PROVE IInv'
  <2>1. RunsInOrder'
    BY LeaseRows, <1>3 DEF BeginBody, To, MayMark
  <2>2. RunsKeepPhase'
    BY LeaseRows, <1>3 DEF BeginBody, To, MayMark
  <2>3. LeaseIsHonest'
    BY LeaseRows, <1>3 DEF BeginBody, To, MayMark
  <2>4. MarkerIsHonest'
    BY LeaseRows, <1>3 DEF BeginBody, To, MayMark
  <2>5. Ownership'
    BY LeaseRows, <1>3 DEF BeginBody, To, MayMark
  <2>6. StatusWritesAreOwn'
    BY LeaseRows, <1>3 DEF BeginBody, To, MayMark
  <2>7. NeverTask'
    BY LeaseRows, <1>3 DEF BeginBody, To, MayMark
  <2>8. NeverBodyRunsOnce'
    BY LeaseRows, <1>3 DEF BeginBody, To, MayMark
  <2> QED
    BY <2>1, <2>2, <2>3, <2>4, <2>5, <2>6, <2>7, <2>8
<1>4. ASSUME NEW a \in Run, Unverified(a) PROVE IInv'
  BY <1>4 DEF Unverified, To, Behind, Issued
<1>5. ASSUME NEW a \in Run, Beat(a) PROVE IInv'
  BY LeaseRows, StampedPlan, <1>5 DEF Beat
<1>6. ASSUME NEW a \in Run, Release(a) PROVE IInv'
  <2>1. RunsInOrder'
    BY Rows, <1>6 DEF Release, To, MayDelete
  <2>2. RunsKeepPhase'
    BY Rows, <1>6 DEF Release, To, MayDelete
  <2>3. LeaseIsHonest'
    <3>1. CASE lease.token = a
      BY Rows, <3>1, <1>6 DEF Release, MayDelete
    <3>2. CASE lease.token # a
      BY LeaseRows, <3>2, <1>6 DEF Release, To, MayDelete
    <3> QED
      BY <3>1, <3>2
  <2>4. MarkerIsHonest'
    BY Rows, <1>6 DEF Release, To, MayDelete
  <2>5. Ownership'
    BY Rows, <1>6 DEF Release, To, MayDelete
  <2>6. StatusWritesAreOwn'
    BY Rows, <1>6 DEF Release, To, MayDelete
  <2>7. NeverTask'
    BY Rows, <1>6 DEF Release, To, MayDelete
  <2>8. NeverBodyRunsOnce'
    BY Rows, <1>6 DEF Release, To, MayDelete
  <2> QED
    BY <2>1, <2>2, <2>3, <2>4, <2>5, <2>6, <2>7, <2>8
<1>7. ASSUME NEW a \in Run, Persist(a) PROVE IInv'
  BY <1>7 DEF Persist, To, Record, Accepted, Outcome
<1>8. ASSUME NEW a \in Run, PersistRaised(a) PROVE IInv'
  BY <1>8 DEF PersistRaised, To, Record, Accepted, Outcome
<1>9. ASSUME NEW a \in Run, Cleanup(a) PROVE IInv'
  <2>1. /\ pc[a] = "done" /\ cleanup[a] \in {"before_body", "after_body"}
        /\ UNCHANGED <<task, status, attempts, orphaned, stray, pc, late, begun, retried>>
        /\ cleanup' = [cleanup EXCEPT ![a] = "none"]
    BY <1>9 DEF Cleanup
  <2>2. \/ lease' = lease /\ plan' = plan
        \/ /\ Current(a) /\ lease = NoLease /\ Stamp
           /\ lease' = [token |-> a, silent |-> FALSE, phase |-> PhaseOf(a)]
    BY <1>9 DEF Cleanup
  <2>3. lease' = lease \/ (Current(a) /\ lease'.token = a /\ lease'.phase = PhaseOf(a))
    BY <2>2, ReinsertedRows
  <2>4. /\ plan'.action = plan.action /\ plan'.proof = plan.proof
        /\ plan' # NoPlan => plan # NoPlan
    BY <2>2, StampedPlan
  <2>5. marker' = marker \/ marker'.token = a
    BY <1>9, MarkerRows, <2>1 DEF Cleanup
  <2>6. RunsInOrder'
    BY <2>1
  <2>7. RunsKeepPhase'
    BY <2>1
  <2>8. LeaseIsHonest'
    BY <2>1, <2>3, LeaseRows DEF PhaseOf
  <2>9. MarkerIsHonest'
    BY <2>1, <2>5
  <2>10. Ownership'
    BY <2>1, <2>3
  <2>11. StatusWritesAreOwn'
    BY <2>1
  <2>12. NeverTask'
    BY <2>1, <2>4
  <2>13. NeverBodyRunsOnce'
    BY <2>1
  <2> QED
    BY <2>6, <2>7, <2>8, <2>9, <2>10, <2>11, <2>12, <2>13
<1>10. ASSUME NEW a \in Run, DropCleanup(a) PROVE IInv'
  BY <1>10 DEF DropCleanup
<1>11. ASSUME NEW a \in Run, LateLands(a) PROVE IInv'
  <2>1. /\ late[a] # "none" /\ late' = [late EXCEPT ![a] = "none"]
        /\ UNCHANGED <<task, status, attempts, orphaned, stray, pc, cleanup, begun,
                       retried, marker>>
    BY <1>11 DEF LateLands
  <2>2. /\ plan'.action = plan.action /\ plan'.proof = plan.proof
        /\ plan' # NoPlan => plan # NoPlan
    BY StampedPlan, <1>11 DEF LateLands
  <2>3. \/ lease' = lease
        \/ late[a] = "insert" /\ Current(a) /\ lease' = Inserted(a)
        \/ Current(a) /\ lease.token = a /\ lease' = Marked
        \/ lease' = NoLease
    BY <1>11 DEF LateLands, MayInsert, MayMark
  <2>4. RunsInOrder'
    BY <2>1
  <2>5. RunsKeepPhase'
    BY <2>1
  <2>6. LeaseIsHonest'
    <3>1. CASE late[a] = "insert" /\ Current(a) /\ lease' = Inserted(a)
      <4>1. lease'.token = a
        BY <3>1, LeaseRows
      <4>2. pc'[a] \in {"done", "dead"} /\ a \notin begun'
        BY <2>1, <3>1
      <4> QED
        BY <4>1, <4>2
    <3>2. CASE Current(a) /\ lease.token = a /\ lease' = Marked
      BY <2>1, <3>2, LeaseRows
    <3> QED
      BY <2>1, <2>3, <3>1, <3>2, Rows
  <2>7. MarkerIsHonest'
    BY <2>1
  <2>8. Ownership'
    BY <2>1, <2>3, LeaseRows, Rows
  <2>9. StatusWritesAreOwn'
    BY <2>1
  <2>10. NeverTask'
    BY <2>1, <2>2
  <2>11. NeverBodyRunsOnce'
    BY <2>1
  <2> QED
    BY <2>4, <2>5, <2>6, <2>7, <2>8, <2>9, <2>10, <2>11
<1>12. ASSUME NEW a \in Run, LateLost(a) PROVE IInv'
  BY <1>12 DEF LateLost
<1>13. ASSUME NEW a \in Run, Crash(a) PROVE IInv'
  BY <1>13 DEF Crash, To, Alive
<1>14. ASSUME NEW a \in Run, Freeze(a) PROVE IInv'
  BY LeaseRows, <1>14 DEF Freeze
<1>15. ASSUME NEW a \in Run, Heartbeat(a) PROVE IInv'
  BY <1>15 DEF Heartbeat
<1>16. ASSUME NEW a \in Run, HeartbeatExpires(a) PROVE IInv'
  BY <1>16 DEF HeartbeatExpires
<1>17. ASSUME NEW a \in Run, LeaseExpires(a) PROVE IInv'
  BY LeaseRows, <1>17 DEF LeaseExpires
<1>18. ASSUME NEW a \in Run, Overrun(a) PROVE IInv'
  BY <1>18 DEF Overrun
<1>19. CASE Age
  BY <1>19 DEF Age
<1>20. CASE Decide
  BY PlannedRow, <1>20 DEF Decide
<1>21. CASE ApplyAbort
  BY Rows, LeaseRows, MarkerRows, <1>21 DEF ApplyAbort
<1>22. CASE ApplyFailure
  <2>1. RunsInOrder'
    <3>1. status' = "finished" /\ attempts' = attempts + 1 /\ UNCHANGED pc
      BY <1>22 DEF ApplyFailure
    <3> QED
      BY <3>1
  <2>2. RunsKeepPhase'
    BY Rows, LeaseRows, MarkerRows, <1>22 DEF ApplyFailure, Applies, SameRows
  <2>3. LeaseIsHonest'
    BY Rows, LeaseRows, MarkerRows, <1>22 DEF ApplyFailure, Applies, SameRows
  <2>4. MarkerIsHonest'
    BY Rows, LeaseRows, MarkerRows, <1>22 DEF ApplyFailure, Applies, SameRows
  <2>5. Ownership'
    BY Rows, LeaseRows, MarkerRows, <1>22 DEF ApplyFailure, Applies, SameRows
  <2>6. StatusWritesAreOwn'
    BY Rows, LeaseRows, MarkerRows, <1>22 DEF ApplyFailure, Applies, SameRows
  <2>7. NeverTask'
    BY Rows, LeaseRows, MarkerRows, <1>22 DEF ApplyFailure, Applies, SameRows
  <2>8. NeverBodyRunsOnce'
    BY Rows, LeaseRows, MarkerRows, <1>22 DEF ApplyFailure, Applies, SameRows
  <2> QED
    BY <2>1, <2>2, <2>3, <2>4, <2>5, <2>6, <2>7, <2>8
<1>23. CASE ApplyRetry
  <2>1. RunsInOrder'
    BY Rows, <1>23 DEF ApplyRetry, Applies, SameRows, EvidenceHolds, AbandonedPhase, Unleased
  <2>2. RunsKeepPhase'
    BY Rows, <1>23 DEF ApplyRetry, Applies, SameRows, EvidenceHolds, AbandonedPhase, Unleased
  <2>3. LeaseIsHonest'
    BY Rows, <1>23 DEF ApplyRetry, Applies, SameRows, EvidenceHolds, AbandonedPhase, Unleased
  <2>4. MarkerIsHonest'
    BY Rows, <1>23 DEF ApplyRetry, Applies, SameRows, EvidenceHolds, AbandonedPhase, Unleased
  <2>5. Ownership'
    <3>1. /\ lease'.token = Absent /\ UNCHANGED pc /\ status = "doing"
          /\ orphaned' = (orphaned \/ lease = NoLease)
      BY Rows, <1>23 DEF ApplyRetry, Applies, SameRows, Unleased
    <3>2. CASE lease = NoLease
      BY <3>1, <3>2
    <3>3. ASSUME lease # NoLease, ~orphaned, NEW a \in Run, pc[a] = "over" PROVE FALSE
      \* The row the sweep deletes is the current run's, so no run is over.
      <4>1. lease.token \in Run
        BY LeaseRows, <3>3
      <4> QED
        BY <4>1, <3>1, <3>3
    <3> QED
      BY <3>1, <3>2, <3>3
  <2>6. StatusWritesAreOwn'
    BY Rows, <1>23 DEF ApplyRetry, Applies, SameRows, EvidenceHolds, AbandonedPhase, Unleased
  <2>7. NeverTask'
    BY Rows, <1>23 DEF ApplyRetry, Applies, SameRows, EvidenceHolds, AbandonedPhase, Unleased
  <2>8. NeverBodyRunsOnce'
    BY Rows, <1>23 DEF ApplyRetry, Applies, SameRows, EvidenceHolds, AbandonedPhase, Unleased
  <2> QED
    BY <2>1, <2>2, <2>3, <2>4, <2>5, <2>6, <2>7, <2>8
<1>24. CASE Abstain
  BY Rows, <1>24 DEF Abstain
<1>25. CASE UNCHANGED vars
  BY <1>25 DEF vars
<1> QED
  BY <1>1, <1>2, <1>3, <1>4, <1>5, <1>6, <1>7, <1>8, <1>9, <1>10, <1>11, <1>12,
    <1>13, <1>14, <1>15, <1>16, <1>17, <1>18, <1>19, <1>20, <1>21, <1>22, <1>23,
    <1>24, <1>25 DEF Next, Execute, Environment, Clock, Apply

-----------------------------------------------------------------------------
\* The invariant holds of the job that was just deferred.
LEMMA InvInit == Init => TypeOK /\ IInv
<1> SUFFICES ASSUME Init PROVE TypeOK /\ IInv
  OBVIOUS
<1>1. TypeOK
  <2>1. attempts \in 0 .. MaxAttempts /\ faults \in Nat
    BY LeaseAssumption DEF Init
  <2>2. lease \in LeaseRow /\ marker \in MarkerRow /\ plan \in PlanRow
    BY Rows DEF Init
  <2> QED
    BY <2>1, <2>2 DEF Init, TypeOK
<1>2. RunsInOrder /\ RunsKeepPhase
  BY DEF Init, RunsInOrder, RunsKeepPhase
<1>3. LeaseIsHonest /\ MarkerIsHonest
  BY Rows DEF Init, LeaseIsHonest, MarkerIsHonest
<1>4. Ownership
  BY Rows DEF Init, Ownership, Run, Absent
<1>5. NeverTask
  BY DEF Init, NeverTask
<1>6. StatusWritesAreOwn /\ NeverBodyRunsOnce
  BY DEF Init, NeverBodyRunsOnce, StatusWritesAreOwn
<1> QED
  BY <1>1, <1>2, <1>3, <1>4, <1>5, <1>6 DEF IInv

\* Hence it holds forever.
THEOREM Invariance == Spec => [](TypeOK /\ IInv)
<1>1. TypeOK /\ IInv /\ [Next]_vars => (TypeOK /\ IInv)'
  BY TypeStep, InvStep DEF IInv
<1> QED
  BY InvInit, <1>1, PTL DEF Spec

\* Every variable keeps its type: the tables hold what their columns allow.
THEOREM TypeCorrect == Spec => []TypeOK
BY Invariance, PTL

\* What lets the sweep requeue a job whose worker may be alive is true: the
\* body did not begin, or it is over (reclaim.py, _abandoned_phase).
THEOREM EvidenceTrue == Spec => []EvidenceIsTrue
<1>1. TypeOK /\ IInv => EvidenceIsTrue
  BY DEF TypeOK, IInv, RunsInOrder, LeaseIsHonest, MarkerIsHonest, EvidenceIsTrue,
    AbandonedPhase, Run, Absent
<1> QED
  BY Invariance, <1>1, PTL

\* The body of a task that may not be replayed runs once for every time it was
\* asked for, through crashes, stalls and lost answers in any number.
THEOREM NeverOnce == Spec => []NeverBodyRunsOnce
BY Invariance, PTL DEF IInv

\* A run records its own outcome and nobody else's, unless it stalled between
\* proving its ownership and writing.
THEOREM WritesOwn == Spec => []StatusWritesAreOwn
BY Invariance, PTL DEF IInv

=============================================================================
