-------------------------- MODULE PaymentDelivery --------------------------
(***************************************************************************)
(* The delivery side of the payment daemon: one worker per consumer        *)
(* (rs/zcash-payment-hooks/src/main.rs, run) takes deliveries from the     *)
(* journal and hands them to an external hook, while the scanner rewrites  *)
(* the journal, the daemon stops, crashes and restarts, and an operator    *)
(* replays events or enrols consumers between two runs.                    *)
(*                                                                         *)
(* The scanner is any sequence of journal transactions taken while its     *)
(* health record denies readiness; module PaymentScanner has its steps.    *)
(* A worker reads the readiness gate and the queue in two statements, runs *)
(* the hook, and records the outcome in a third.  Wall-clock time is the   *)
(* choice of when a retry falls due and when readiness evidence expires.   *)
(***************************************************************************)
EXTENDS PaymentHealth

VARIABLES
  running,    \* a daemon holds the writer lock
  worker,     \* what each consumer's worker is doing
  waiting,    \* the deliveries whose next_attempt lies in the future
  begun,      \* history: <<c, id>> whose hook was started
  done        \* history: <<c, id>> whose hook committed its effect

dvars == <<running, ready, worker, waiting, begun, done, stops>>
vars  == <<jvars, dvars>>

\* Worker stages: "idle"; "gate" has read readiness; "hook" is in the hook; "ack"
\* and "nack" hold its outcome, not yet written to the journal.
Idle == [stage |-> "idle"]
Worker == {Idle} \cup [stage : {"gate"}, ready : BOOLEAN]
                 \cup [stage : {"hook", "ack", "nack"}, id : EventId]

TypeOK ==
  /\ JournalTypeOK
  /\ running \in BOOLEAN /\ ready \in BOOLEAN
  /\ worker \in [Consumer -> Worker]
  /\ waiting \subseteq queued
  /\ begun \subseteq queued
  /\ done \subseteq begun
  /\ stops \in 0 .. MaxStops

Init ==
  /\ JournalInit
  /\ running = FALSE /\ ready = FALSE
  /\ worker = [c \in Consumer |-> Idle]
  /\ waiting = {} /\ begun = {} /\ done = {}
  /\ stops = 0

-----------------------------------------------------------------------------
(***************************************************************************)
(* Daemon lifecycle and scanner.                                           *)
(***************************************************************************)
\* run(): open the journal, deny readiness, start a worker per consumer.
Start(configured) ==
  /\ ~running
  /\ Open(configured)
  /\ running' = TRUE
  /\ ready' = FALSE
  /\ UNCHANGED <<worker, waiting, begun, done, stops>>

\* A signal, a fatal worker error or a crash.  Workers are aborted wherever
\* they are; only the orderly exit still clears the health record.
Stop ==
  /\ running
  /\ stops < MaxStops
  /\ running' = FALSE
  /\ ready' \in {ready, FALSE}
  /\ worker' = [c \in Consumer |-> Idle]
  /\ stops' = stops + 1
  /\ UNCHANGED <<jvars, waiting, begun, done>>

\* scan() denies readiness before its first transaction and grants it after
\* its last one; evidence may also expire by itself.
Health(verdict) ==
  /\ running
  /\ ready' = verdict
  /\ UNCHANGED <<jvars, running, worker, waiting, begun, done, stops>>

ScanTransaction ==
  /\ running
  /\ ~ready
  /\ \/ \E b \in Block : AppendState(b, ~early)
     \/ RollbackOne
     \/ \E safe \in {Height[b] : b \in Block} : ReconcileConfirmations(safe)
  /\ UNCHANGED dvars

-----------------------------------------------------------------------------
(***************************************************************************)
(* A worker.                                                               *)
(***************************************************************************)
Working(c) == running /\ c \in active

\* next_for_automation(), first statement: read the readiness gate.
ReadGate(c) ==
  /\ Working(c)
  /\ worker[c] = Idle
  /\ worker' = [worker EXCEPT ![c] = [stage |-> "gate", ready |-> ready]]
  /\ UNCHANGED <<jvars, running, ready, waiting, begun, done, stops>>

\* Mutant: nothing at all is delivered while the scanner is unready.
PendingWhenReady(c, isReady) ==
  {e \in events : <<c, e.id>> \in queued \ acked /\ isReady}

Pending(c, isReady) ==
  {e \in events : /\ <<c, e.id>> \in queued \ acked
                  /\ isReady \/ e.id.phase = "revoked"}
\* Mutant: a delivery that waits for its retry is overtaken.
QueueHeadDue(c, isReady) ==
  LET due == {e \in Pending(c, isReady) : <<c, e.id>> \notin waiting}
  IN {e \in due : \A f \in due : e.seq <= f.seq}

QueueHead(c, isReady) ==
  {e \in Pending(c, isReady) : \A f \in Pending(c, isReady) : e.seq <= f.seq}

\* next_for_automation(), second statement: the head of the queue, or of its
\* revocations; nothing if that head is not due.
Take(c) ==
  /\ worker[c].stage = "gate"
  /\ LET due == {e \in QueueHead(c, worker[c].ready) : <<c, e.id>> \notin waiting}
     IN IF due = {}
        THEN /\ worker' = [worker EXCEPT ![c] = Idle]
             /\ UNCHANGED begun
        ELSE \E e \in due :
             /\ worker' = [worker EXCEPT ![c] = [stage |-> "hook", id |-> e.id]]
             /\ begun' = begun \cup {<<c, e.id>>}
  /\ UNCHANGED <<jvars, running, ready, waiting, done, stops>>

\* The hook commits its effect and exits zero.
HookSucceeds(c) ==
  /\ worker[c].stage = "hook"
  /\ worker' = [worker EXCEPT ![c].stage = "ack"]
  /\ done' = done \cup {<<c, worker[c].id>>}
  /\ UNCHANGED <<jvars, running, ready, waiting, begun, stops>>

\* The hook exits non-zero or is killed at its timeout, possibly after its
\* effect was committed.
HookFails(c) ==
  /\ worker[c].stage = "hook"
  /\ worker' = [worker EXCEPT ![c].stage = "nack"]
  /\ done' \in {done, done \cup {<<c, worker[c].id>>}}
  /\ UNCHANGED <<jvars, running, ready, waiting, begun, stops>>

\* Mutant: a failed call is acknowledged like a successful one.
RecordAlwaysAcks(c) ==
  /\ worker[c].stage \in {"ack", "nack"}
  /\ Acknowledge(c, worker[c].id)
  /\ worker' = [worker EXCEPT ![c] = Idle]
  /\ UNCHANGED <<running, ready, waiting, begun, done, stops>>

Record(c) ==
  /\ \/ /\ worker[c].stage = "ack"
        /\ Acknowledge(c, worker[c].id)
        /\ UNCHANGED waiting
     \/ \* failed(): schedules a retry unless the row is acknowledged by now
        /\ worker[c].stage = "nack"
        /\ waiting' = waiting \cup ({<<c, worker[c].id>>} \ acked)
        /\ UNCHANGED jvars
  /\ worker' = [worker EXCEPT ![c] = Idle]
  /\ UNCHANGED <<running, ready, begun, done, stops>>

\* The clock passes next_attempt.
BackoffElapses(c) ==
  /\ \E d \in waiting : d[1] = c /\ waiting' = waiting \ {d}
  /\ UNCHANGED <<jvars, running, ready, worker, begun, done, stops>>

-----------------------------------------------------------------------------
(***************************************************************************)
(* Operator commands that need the writer lock, i.e. a stopped daemon.     *)
(***************************************************************************)
OperatorOpen(configured) ==
  /\ ~running
  /\ Open(configured)
  /\ UNCHANGED dvars

\* The replay command, after its Journal::open.
OperatorReplay(c, id) ==
  /\ ~running
  /\ Replay(c, id)
  /\ waiting' = waiting \ {<<c, id>>}
  /\ UNCHANGED <<running, ready, worker, begun, done, stops>>

OperatorHandoff(configured) ==
  /\ ~running
  /\ EnqueueMissing(configured)
  /\ UNCHANGED dvars

-----------------------------------------------------------------------------
Next ==
  \/ \E configured \in Configs :
       \/ Start(configured)
       \/ OperatorOpen(configured)
       \/ OperatorHandoff(configured)
  \/ \E c \in Consumer, id \in Published : OperatorReplay(c, id)
  \/ Stop
  \/ \E verdict \in BOOLEAN : Health(verdict)
  \/ ScanTransaction
  \/ \E c \in Consumer :
       ReadGate(c) \/ Take(c) \/ HookSucceeds(c) \/ HookFails(c) \/ Record(c)
         \/ BackoffElapses(c)

Spec == Init /\ [][Next]_vars

(***************************************************************************)
(* Fairness: the supervisor restarts a stopped daemon; the runtime polls   *)
(* every worker; the clock advances; a hook is killed at its timeout, so   *)
(* every call ends; and a hook that is called again and again succeeds     *)
(* again and again.  The scanner owes nothing: the node may stay away.     *)
(***************************************************************************)
Fairness ==
  /\ WF_vars(\E configured \in Configs : Start(configured))
  /\ \A c \in Consumer :
       /\ WF_vars(ReadGate(c))
       /\ WF_vars(Take(c))
       /\ WF_vars(HookSucceeds(c) \/ HookFails(c))
       /\ SF_vars(HookSucceeds(c))
       /\ WF_vars(Record(c))
       /\ WF_vars(BackoffElapses(c))

FairSpec == Spec /\ Fairness

-----------------------------------------------------------------------------
(***************************************************************************)
(* Properties.                                                             *)
(***************************************************************************)
\* No delivery is acknowledged without its hook's effect, except a positive
\* event that the chain superseded before a hook could take it.  Crashes,
\* timeouts and cancellations lose nothing; they may only repeat.
NothingLost ==
  \A d \in acked : d \in done \/ (d[2].phase \in Positive /\ ~Current(d[2]))

\* A worker starts a hook only after everything queued earlier for the same
\* consumer and payment is settled, although an unready scanner lets
\* revocations overtake the positive work of other payments.
Begins(c, id) == worker[c].stage = "gate" /\ worker'[c] = [stage |-> "hook", id |-> id]

HooksInOrder ==
  [][\A c \in Consumer, e, f \in events :
       /\ Begins(c, e.id)
       /\ f.id.payment = e.id.payment /\ f.seq < e.seq
       => <<c, f.id>> \notin queued \ acked]_vars

\* A consumer that began to act on a revocation is never again started on that
\* revision or an older one, whatever an operator replays.
NoPositiveAfterRevocation ==
  [][\A d \in begun' \ begun :
       d[2].phase \in Positive =>
         ~ \E e \in begun : /\ e[1] = d[1] /\ e[2].payment = d[2].payment
                            /\ e[2].phase = "revoked" /\ e[2].rev >= d[2].rev]_vars

(***************************************************************************)
(* The daemon keeps its promise.                                           *)
(***************************************************************************)
Revision == 1 .. MaxRev
Promise == INSTANCE PaymentPromise WITH
  granted   <- {<<d[1], d[2].payment, d[2].rev>> :
                  d \in {x \in begun : x[2].phase \in Positive}},
  withdrawn <- {<<id.payment, id.rev>> :
                  id \in {i \in Published : i.phase = "revoked"}},
  corrected <- {<<d[1], d[2].payment, d[2].rev>> :
                  d \in {x \in done : x[2].phase = "revoked"}}

PromiseKept == Promise!Spec

\* Every queued revocation reaches its hook's effect, even when the scanner
\* never becomes ready again, hooks fail and the daemon restarts.
RevocationsArrive ==
  \A c \in Consumer, p \in Payment, r \in Revision :
    <<c, Id(p, r, "revoked")>> \in queued ~> <<c, Id(p, r, "revoked")>> \in done
=============================================================================
