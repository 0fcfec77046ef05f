------------------------------- MODULE JobLease -------------------------------
(***************************************************************************)
(* The execution lease of a background job (py/free2z/dj/apps/jobs/lease.py*)
(* and reclaim.py).  A worker that fetched the job inserts a lease, beats  *)
(* it while the task's body runs, deletes it to prove it still owns the    *)
(* job, and only then writes the job's status.  The reclaimer takes over   *)
(* jobs whose worker and lease have gone silent.                           *)
(*                                                                         *)
(* One job is modelled.  Every requeue increments its attempts, so each    *)
(* value of attempts is fetched once: the run of attempt a is called a,    *)
(* and a is also its lease's token.  Absent is the token of no lease.      *)
(*                                                                         *)
(* A statement whose outcome the worker cannot verify is one that did not  *)
(* run yet (late): it lands at a later moment, at once included, or never. *)
(* The cleanup that a run leaves behind is queued behind it.  The sweep    *)
(* judges every age against the moment it began, so no clock moves between *)
(* its decision and the transaction that applies it; runs move freely.     *)
(* The task's own budget only delays the sweep further and is left out, so *)
(* is the operator's side (ops.py, paused and excluded queues).            *)
(***************************************************************************)
EXTENDS Integers

CONSTANTS
  Allowance,    \* retry_allowance() of the task
  MaxReclaims,  \* JOB_RECLAIM_MAX_RECLAIMS
  MaxAttempts,  \* bound: the job is fetched this often
  MaxFaults     \* bound on crashes, stalls, lost answers

ASSUME LeaseAssumption ==
  /\ Allowance \in Nat /\ MaxReclaims \in Nat
  /\ MaxAttempts \in Nat \ {0} /\ MaxFaults \in Nat

VARIABLES
  task,      \* the task's policy: NEVER replayed, finite, or with a deadline
  status,    \* procrastinate_jobs.status; finished stands for the final ones
  attempts,  \* procrastinate_jobs.attempts
  aged,      \* it has been doing for longer than the reclaim floor
  stale,     \* the heartbeat of the worker that has it is stale
  lease,     \* its row of jobs_joblease
  marker,    \* its row of jobs_quarantined_job
  overrun,   \* the runs whose deadline_at has passed
  pc,        \* where each run is
  late,      \* its statement that may still land
  cleanup,   \* the re-INSERT it has queued, by the phase it will claim
  plan,      \* what the sweep is about to apply
  begun,     \* history: the runs whose body started
  retried,   \* history: the runs whose own retry was recorded
  orphaned,  \* history: the sweep requeued an attempt that had no lease
  stray,     \* history: a run recorded its status over another attempt
  dropped,   \* history: a cleanup was given up
  faults

job == <<status, attempts, aged, stale>>
runs == <<pc, late, cleanup, begun>>
history == <<retried, orphaned, stray, dropped>>
vars == <<task, job, lease, marker, overrun, runs, plan, history, faults>>

Run == 0 .. MaxAttempts - 1
Absent == -1
NoLease == [token |-> Absent, phase |-> "before_body", silent |-> FALSE]
NoMarker == [kind |-> "none", token |-> Absent, attempts |-> Absent]
NoPlan == [action |-> "none", attempts |-> Absent, token |-> Absent,
           proof |-> FALSE, seen |-> FALSE]

Token == Run \cup {Absent}
LeaseRow == [token : Token, phase : {"before_body", "body_started"}, silent : BOOLEAN]
MarkerRow == [kind : {"none", "before_body", "after_body", "deadline", "gave_up"},
              token : Token, attempts : Token]
PlanRow == [action : {"none", "retry", "failed", "deadline_abort", "deadline_failed"},
            attempts : Token, token : Token, proof : BOOLEAN, seen : BOOLEAN]

TypeOK ==
  /\ task \in {"never", "finite", "deadline"}
  /\ status \in {"todo", "doing", "finished"}
  /\ attempts \in 0 .. MaxAttempts
  /\ aged \in BOOLEAN /\ stale \in BOOLEAN
  /\ lease \in LeaseRow /\ marker \in MarkerRow /\ plan \in PlanRow
  /\ overrun \in SUBSET Run
  /\ pc \in [Run -> {"none", "fetched", "leased", "body", "over", "done", "dead"}]
  /\ late \in [Run -> {"none", "insert", "mark", "delete"}]
  /\ cleanup \in [Run -> {"none", "before_body", "after_body"}]
  /\ begun \in SUBSET Run
  /\ retried \in SUBSET Run
  /\ orphaned \in BOOLEAN /\ stray \in BOOLEAN /\ dropped \in BOOLEAN
  /\ faults \in Nat

Init ==
  /\ task \in {"never", "finite", "deadline"}
  /\ status = "todo" /\ attempts = 0 /\ aged = FALSE /\ stale = FALSE
  /\ lease = NoLease /\ marker = NoMarker /\ overrun = {}
  /\ pc = [a \in Run |-> "none"]
  /\ late = [a \in Run |-> "none"]
  /\ cleanup = [a \in Run |-> "none"]
  /\ plan = NoPlan
  /\ begun = {} /\ retried = {} /\ orphaned = FALSE /\ stray = FALSE
  /\ dropped = FALSE
  /\ faults = 0

Happens == faults < MaxFaults /\ faults' = faults + 1
Current(a) == status = "doing" /\ attempts = a
Alive(a) == pc[a] \notin {"none", "dead"}
To(a, step) == pc' = [pc EXCEPT ![a] = step]

\* A write of last_beat_at between the sweep's read and its transaction.
Stamp == plan' = IF plan = NoPlan THEN plan ELSE [plan EXCEPT !.seen = FALSE]

-----------------------------------------------------------------------------
(***************************************************************************)
(* The statements on the lease row.  Each one is a compare-and-set; what   *)
(* it does to the row is the same whenever it lands.                       *)
(***************************************************************************)
\* _INSERT_SQL: the job row says this attempt is current, and nobody newer
\* holds the row.
MayInsert(a) == Current(a) /\ lease.token <= a
Inserted(a) ==
  [token |-> a, silent |-> FALSE,
   phase |-> IF lease.token < a THEN "before_body" ELSE lease.phase]

\* _BODY_STARTED_SQL
MayMark(a) == Current(a) /\ lease.token = a /\ lease.phase = "before_body"
Marked == [lease EXCEPT !.phase = "body_started"]

\* _DELETE_SQL
MayDelete(a) == lease.token = a

-----------------------------------------------------------------------------
(***************************************************************************)
(* A run.                                                                  *)
(***************************************************************************)
\* procrastinate fetches the job.
Fetch(a) ==
  /\ status = "todo" /\ attempts = a
  /\ status' = "doing" /\ aged' = FALSE /\ stale' = FALSE
  /\ To(a, "fetched")
  /\ UNCHANGED <<task, attempts, lease, marker, overrun, late, cleanup, begun,
                 plan, history, faults>>

\* acquire(): leased, or refused.
Acquire(a) ==
  /\ pc[a] = "fetched"
  /\ IF MayInsert(a)
     THEN lease' = Inserted(a) /\ To(a, "leased") /\ Stamp
     ELSE To(a, "done") /\ UNCHANGED <<lease, plan>>
  /\ UNCHANGED <<task, job, marker, overrun, late, cleanup, begun, history, faults>>

\* _begin_body(): the handshake that must be answered before the body runs.
BeginBody(a) ==
  /\ pc[a] = "leased"
  /\ IF MayMark(a)
     THEN lease' = Marked /\ begun' = begun \cup {a} /\ To(a, "body")
     ELSE To(a, "done") /\ UNCHANGED <<lease, begun>>
  /\ UNCHANGED <<task, job, marker, overrun, late, cleanup, plan, history, faults>>

\* Where a run issues a statement, and the cleanup it queues behind one whose
\* outcome it did not hear.
Issued(statement) ==
  CASE statement = "insert" -> {"fetched"}
    [] statement = "mark"   -> {"leased"}
    [] statement = "delete" -> {"leased", "body"}

\* Mutant: no lease is left behind.
BehindNothing(statement) == "none"

Behind(statement) ==
  CASE statement = "insert" -> "before_body"
    [] statement = "mark"   -> "none"
    [] statement = "delete" -> "after_body"

\* The outcome of an INSERT, of a mark or of a DELETE is unknown: the run is
\* fenced, and a lease is left to go silent, but not behind a mark.
Unverified(a) ==
  /\ Happens
  /\ \E statement \in {"insert", "mark", "delete"} :
       /\ pc[a] \in Issued(statement)
       /\ late' = [late EXCEPT ![a] = statement]
       /\ cleanup' = [cleanup EXCEPT ![a] = Behind(statement)]
  /\ To(a, "done")
  /\ UNCHANGED <<task, job, lease, marker, overrun, begun, plan, history>>

\* beat(): a compare-and-set, too; a run it fences learns nothing that its
\* next statement does not tell it.
Beat(a) ==
  /\ pc[a] \in {"leased", "body"} /\ lease.token = a
  /\ lease' = [lease EXCEPT !.silent = FALSE]
  /\ Stamp
  /\ UNCHANGED <<task, job, marker, overrun, runs, history, faults>>

\* Mutant: the run goes on whether or not it removed its row.
ReleaseUnfenced(a) ==
  /\ pc[a] \in {"leased", "body"}
  /\ lease' = IF MayDelete(a) THEN NoLease ELSE lease
  /\ To(a, "over")
  /\ UNCHANGED <<task, job, marker, overrun, late, cleanup, begun, plan, history, faults>>

\* release(), after the body or a cancellation before it: whoever deletes its
\* own row may persist.
Release(a) ==
  /\ pc[a] \in {"leased", "body"}
  /\ IF MayDelete(a)
     THEN lease' = NoLease /\ To(a, "over")
     ELSE To(a, "done") /\ UNCHANGED lease
  /\ UNCHANGED <<task, job, marker, overrun, late, cleanup, begun, plan, history, faults>>

\* procrastinate's retry_job and finish_job look at the status only.
Outcome(a) == {"finished"} \cup IF a < Allowance THEN {"todo"} ELSE {}
Accepted(new) == status = "doing" \/ (status = "todo" /\ new = "finished")
Record(a, new) ==
  /\ Accepted(new)
  /\ status' = new
  /\ attempts' = attempts + IF status = "doing" THEN 1 ELSE 0
  /\ retried' = IF new = "todo" /\ Current(a) THEN retried \cup {a} ELSE retried
  /\ stray' = (stray \/ ~Current(a))
  /\ UNCHANGED <<aged, stale, orphaned, dropped>>

Persist(a) ==
  /\ pc[a] = "over"
  /\ \E new \in Outcome(a) : Record(a, new)
  /\ To(a, "done")
  /\ UNCHANGED <<task, lease, marker, overrun, late, cleanup, begun, plan, faults>>

\* persist_unless_fenced(): the status write raised, refused or unanswered.
PersistRaised(a) ==
  /\ pc[a] = "over"
  /\ \/ /\ \E new \in Outcome(a) : ~Accepted(new)
        /\ UNCHANGED <<job, history, faults>>
     \/ /\ Happens
        /\ (\E new \in Outcome(a) : Record(a, new)) \/ UNCHANGED <<job, history>>
  /\ cleanup' = [cleanup EXCEPT ![a] = "after_body"]
  /\ To(a, "done")
  /\ UNCHANGED <<task, lease, marker, overrun, late, begun, plan>>

\* A recovery marker gives way to one of a later attempt, or of its own kind.
MayMarkRecovery(a) ==
  \/ marker.attempts < a
  \/ marker.kind \in {"before_body", "after_body"}

\* Mutant: the run writes the phase of its acquisition.
PhaseAtAcquire(a) == "before_body"

\* values['phase'] of the run's lease.
PhaseOf(a) == IF a \in begun THEN "body_started" ELSE "before_body"

\* _leave_a_lease_to_go_silent(): the row back if nobody has one, and the
\* marker if the row is this run's.
Cleanup(a) ==
  /\ Alive(a) /\ cleanup[a] # "none" /\ late[a] = "none"
  /\ IF Current(a) /\ lease = NoLease
     THEN /\ lease' = [token |-> a, silent |-> FALSE,
                       phase |-> PhaseOf(a)]
          /\ Stamp
     ELSE UNCHANGED <<lease, plan>>
  /\ marker' = IF Current(a) /\ lease'.token = a /\ MayMarkRecovery(a)
               THEN [kind |-> cleanup[a], token |-> a, attempts |-> a] ELSE marker
  /\ cleanup' = [cleanup EXCEPT ![a] = "none"]
  /\ UNCHANGED <<task, job, overrun, pc, late, begun, history, faults>>

\* _retry_or_drop_cleanup() gives up.
DropCleanup(a) ==
  /\ Happens
  /\ cleanup[a] # "none"
  /\ cleanup' = [cleanup EXCEPT ![a] = "none"]
  /\ dropped' = TRUE
  /\ UNCHANGED <<task, job, lease, marker, overrun, pc, late, begun, plan, retried,
                 orphaned, stray>>

-----------------------------------------------------------------------------
(***************************************************************************)
(* The environment.                                                        *)
(***************************************************************************)
LateLands(a) ==
  /\ \/ /\ late[a] = "insert"
        /\ IF MayInsert(a) THEN lease' = Inserted(a) /\ Stamp
                           ELSE UNCHANGED <<lease, plan>>
     \/ /\ late[a] = "mark"
        /\ lease' = IF MayMark(a) THEN Marked ELSE lease
        /\ UNCHANGED plan
     \/ /\ late[a] = "delete"
        /\ lease' = IF MayDelete(a) THEN NoLease ELSE lease
        /\ UNCHANGED plan
  /\ late' = [late EXCEPT ![a] = "none"]
  /\ UNCHANGED <<task, job, marker, overrun, pc, cleanup, begun, history, faults>>

LateLost(a) ==
  /\ late[a] # "none"
  /\ late' = [late EXCEPT ![a] = "none"]
  /\ UNCHANGED <<task, job, lease, marker, overrun, pc, cleanup, begun, plan,
                 history, faults>>

\* The worker's process dies, and its cleanup with it.
Crash(a) ==
  /\ pc[a] \in {"fetched", "leased", "body", "over"} \/ (Alive(a) /\ Current(a))
     \/ cleanup[a] # "none"
  /\ Happens
  /\ To(a, "dead")
  /\ cleanup' = [cleanup EXCEPT ![a] = "none"]
  /\ UNCHANGED <<task, job, lease, marker, overrun, late, begun, plan, history>>

\* The process is stopped long enough for both of its signs of life to lapse.
Freeze(a) ==
  /\ plan = NoPlan /\ Current(a) /\ Alive(a) /\ Happens
  /\ stale' = TRUE
  /\ lease' = IF lease.token = a THEN [lease EXCEPT !.silent = TRUE] ELSE lease
  /\ UNCHANGED <<task, status, attempts, aged, marker, overrun, runs, plan, history>>

Heartbeat(a) ==
  /\ Current(a) /\ Alive(a) /\ stale
  /\ stale' = FALSE
  /\ UNCHANGED <<task, status, attempts, aged, lease, marker, overrun, runs, plan,
                 history, faults>>

\* Time passes for a job, for the heartbeat of a dead worker, for a lease
\* nobody beats, and for a deadline.
Age ==
  /\ plan = NoPlan /\ status = "doing" /\ ~aged
  /\ aged' = TRUE
  /\ UNCHANGED <<task, status, attempts, stale, lease, marker, overrun, runs, plan,
                 history, faults>>

HeartbeatExpires(a) ==
  /\ plan = NoPlan /\ Current(a) /\ pc[a] = "dead" /\ ~stale
  /\ stale' = TRUE
  /\ UNCHANGED <<task, status, attempts, aged, lease, marker, overrun, runs, plan,
                 history, faults>>

LeaseExpires(a) ==
  /\ plan = NoPlan /\ lease.token = a /\ ~lease.silent
  /\ pc[a] \notin {"leased", "body"}
  /\ lease' = [lease EXCEPT !.silent = TRUE]
  /\ UNCHANGED <<task, job, marker, overrun, runs, plan, history, faults>>

Overrun(a) ==
  /\ plan = NoPlan /\ task = "deadline" /\ lease.token = a /\ a \notin overrun
  /\ overrun' = overrun \cup {a}
  /\ UNCHANGED <<task, job, lease, marker, runs, plan, history, faults>>

-----------------------------------------------------------------------------
(***************************************************************************)
(* The reclaimer.                                                          *)
(***************************************************************************)
\* _abandoned_phase(): durable evidence that the body of the current attempt
\* never began or is over.  A marker never takes back that it began.
AbandonedPhase ==
  CASE lease.token # attempts -> "none"
    [] lease.token = attempts /\ lease.phase = "before_body" -> "before_body"
    [] OTHER -> IF marker = [kind |-> "after_body", token |-> attempts,
                             attempts |-> attempts]
                THEN "after_body" ELSE "none"

Unleased == lease = NoLease
Expired == lease.token \in overrun
DeadlineRequested ==
  marker = [kind |-> "deadline", token |-> lease.token, attempts |-> attempts]

\* _stalled_candidates() without the deadlines.
Stalled ==
  /\ aged
  /\ Unleased \/ lease.silent
  /\ stale \/ AbandonedPhase # "none"

\* The sweep counts the requeues that were not the task's own.
BoundedRetry == IF attempts - Allowance >= MaxReclaims THEN "failed" ELSE "retry"

\* reclaim_decision() by the task's policy, and the choice of the sweep.
ForNever ==
  IF AbandonedPhase = "before_body" /\ Stalled THEN {BoundedRetry} ELSE {}
ForFinite ==
  IF task = "deadline" /\ ~Unleased /\ Expired /\ DeadlineRequested
  THEN {"deadline_failed"}
  ELSE IF task = "deadline" /\ ~Unleased /\ Expired /\ ~lease.silent
  THEN {"deadline_abort"}
  ELSE IF Stalled THEN {BoundedRetry} ELSE {}

Decisions == IF task = "never" THEN ForNever ELSE ForFinite

Decide ==
  /\ plan = NoPlan /\ status = "doing"
  /\ \E action \in Decisions :
       plan' = [action |-> action, attempts |-> attempts, token |-> lease.token,
                proof |-> action = BoundedRetry /\ AbandonedPhase = "before_body",
                seen |-> TRUE]
  /\ UNCHANGED <<task, job, lease, marker, overrun, runs, history, faults>>

\* _apply_action_sync(), everything it reads again under the row locks.
SameRows == Current(plan.attempts) /\ plan.token = lease.token
EvidenceHolds ==
  /\ plan.proof => AbandonedPhase = "before_body"
  /\ AbandonedPhase # "none" => lease.silent
  /\ plan.action \in {"retry", "failed"} => stale \/ AbandonedPhase # "none"

\* Mutant: the proof is not read again.
AppliesUnproved ==
  /\ SameRows
  /\ stale \/ plan.proof \/ AbandonedPhase # "none"
  /\ Unleased \/ plan.seen

Applies ==
  /\ SameRows /\ EvidenceHolds
  /\ Unleased \/ plan.seen
  /\ CASE plan.action = "deadline_abort"  -> Expired /\ ~DeadlineRequested
       [] plan.action = "deadline_failed" -> Expired /\ DeadlineRequested
       [] OTHER                           -> Unleased \/ lease.silent

ApplyAbort ==
  /\ plan.action = "deadline_abort" /\ Applies
  /\ marker' = [kind |-> "deadline", token |-> lease.token, attempts |-> attempts]
  /\ plan' = NoPlan
  /\ UNCHANGED <<task, job, lease, overrun, runs, history, faults>>

ApplyFailure ==
  /\ plan.action \in {"failed", "deadline_failed"} /\ Applies
  /\ lease' = NoLease
  /\ marker' = [kind |-> "gave_up", token |-> lease.token, attempts |-> attempts]
  /\ status' = "finished" /\ attempts' = attempts + 1
  /\ plan' = NoPlan
  /\ UNCHANGED <<task, aged, stale, overrun, runs, history, faults>>

ApplyRetry ==
  /\ plan.action = "retry" /\ Applies
  /\ lease' = NoLease
  /\ marker' = NoMarker
  /\ status' = "todo" /\ attempts' = attempts + 1
  /\ orphaned' = (orphaned \/ Unleased)
  /\ plan' = NoPlan
  /\ UNCHANGED <<task, aged, stale, overrun, runs, retried, stray, dropped, faults>>

\* The transaction finds something changed, or fails.
Abstain ==
  /\ plan # NoPlan
  /\ IF Applies THEN Happens ELSE UNCHANGED faults
  /\ plan' = NoPlan
  /\ UNCHANGED <<task, job, lease, marker, overrun, runs, history>>

Execute(a) ==
  \/ Fetch(a) \/ Acquire(a) \/ BeginBody(a) \/ Unverified(a) \/ Beat(a)
  \/ Release(a) \/ Persist(a) \/ PersistRaised(a) \/ Cleanup(a) \/ DropCleanup(a)

Environment(a) ==
  \/ LateLands(a) \/ LateLost(a) \/ Crash(a) \/ Freeze(a) \/ Heartbeat(a)

Clock ==
  \/ Age
  \/ \E a \in Run : HeartbeatExpires(a) \/ LeaseExpires(a) \/ Overrun(a)

Apply == ApplyAbort \/ ApplyFailure \/ ApplyRetry

Next ==
  \/ \E a \in Run : Execute(a) \/ Environment(a)
  \/ Clock
  \/ Decide \/ Apply \/ Abstain

Spec == Init /\ [][Next]_vars

\* Workers go on, time passes, and the sweep is deferred every few minutes.
\* A task without a deadline ends by itself; one with a deadline may not.  The
\* two transactions of a deadline compare last_beat_at, so a beat may thwart
\* each sweep, but not every one of them.  The clocks stand still during a
\* sweep, which does not stop time: they are strongly fair, too.
Fairness ==
  /\ \A a \in Run :
       /\ WF_vars(Acquire(a)) /\ WF_vars(BeginBody(a)) /\ WF_vars(Persist(a))
       /\ WF_vars(PersistRaised(a)) /\ WF_vars(Cleanup(a)) /\ WF_vars(LateLost(a))
       /\ WF_vars(Beat(a)) /\ WF_vars(task # "deadline" /\ Release(a))
  /\ WF_vars(Decide) /\ WF_vars(Abstain)
  /\ SF_vars(Apply) /\ SF_vars(Clock)

FairSpec == Spec /\ Fairness

-----------------------------------------------------------------------------
(***************************************************************************)
(* Properties.                                                             *)
(***************************************************************************)
\* What a sweep may requeue without a dead worker: a before_body proof is
\* never held by a body that began, an after_body proof only by one that is
\* over.
EvidenceIsTrue ==
  status = "doing" =>
    /\ AbandonedPhase = "before_body" => attempts \notin begun
    /\ AbandonedPhase = "after_body" => pc[attempts] \in {"done", "dead"}

\* The side effects of a task classified NEVER happen once, whatever crashes,
\* stalls or gets lost, unless a run asked for a retry itself.
NeverBodyRunsOnce ==
  task = "never" => \A a, b \in begun : a < b => a \in retried

\* A run that was replaced does not record its status over its replacement.
\* The exception the code documents is a run that stalls between proving its
\* ownership and writing: the sweep requeues that attempt without a lease.
StatusWritesAreOwn == stray => orphaned

\* What leaves an attempt without evidence, so that nobody may take the job
\* while the worker that gave it up lives: the run did not hear whether its
\* body_started mark was written; or a stray status write left a row or a
\* marker of an earlier attempt, which keeps its own out; or its cleanup was
\* given up.
Stranded ==
  /\ status = "doing" /\ pc[attempts] = "done"
  /\ late[attempts] = "none" /\ cleanup[attempts] = "none"
  /\ \/ /\ lease.token = attempts /\ lease.phase = "body_started"
        /\ attempts \notin begun
     \/ stray
     \/ dropped

\* No attempt of a task that may be replayed stays doing forever.
Recovers == (task # "never" /\ status = "doing") ~> (status # "doing" \/ Stranded)
=============================================================================
