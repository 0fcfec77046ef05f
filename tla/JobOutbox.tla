----------------------------- MODULE JobOutbox -----------------------------
(***************************************************************************)
(* The transactional Pub/Sub outbox of py/free2z/dj/apps/jobs/outbox.py.   *)
(* Producers insert rows inside their own transactions; any number of      *)
(* relay passes claim due rows, publish them one by one and record the     *)
(* outcome; an operator may abandon a row, and a sweep prunes old ones.    *)
(*                                                                         *)
(* A message is identified with the transaction that enqueues it.  Primary *)
(* keys are kept as the order they give: older[m] are the rows with a      *)
(* smaller id.  next_attempt_at is kept as what its value says to the      *)
(* readers: whether it has passed (due), and whose claim wrote it (token). *)
(* A pass that ends leaves a timestamp nobody compares with any more, so   *)
(* its tokens become NoPass.  attempts is left out: it paces the backoff   *)
(* and is a threshold an operator may choose (outbox_abandon), so any row  *)
(* that has failed may be abandoned here.                                  *)
(*                                                                         *)
(* The relay is at-least-once: it may crash, stall past its lease, hear    *)
(* of a timeout although the message was accepted, or fail to build its    *)
(* client.  MaxTrouble bounds how often the environment does any of these. *)
(* A pass's deadline lies before its lease runs out (LEASE_SECONDS covers  *)
(* DRAIN_BUDGET_SECONDS and the worst row), and its clock runs on while it *)
(* is stalled.                                                             *)
(***************************************************************************)
EXTENDS Naturals, FiniteSets

CONSTANTS
  Message,      \* the transactions that enqueue, one message each
  OrderingKey,  \* ordering_key of each message, NoKey for the empty string
  DedupKey,     \* dedup_key of each message, NoKey for NULL
  NoKey,
  Relay,        \* relay passes that may run at once
  NoPass,
  NoMessage,
  BatchSize,    \* BATCH_SIZE
  MaxTrouble    \* bound on crashes, stalls, errors

ASSUME OutboxAssumption ==
  /\ NoPass \notin Relay /\ NoMessage \notin Message
  /\ BatchSize \in Nat \ {0} /\ MaxTrouble \in Nat

VARIABLES
  tx,        \* the producer's transaction
  row,       \* the message's row
  older,     \* the rows inserted before it
  carrier,   \* the row that carries the message: its own, or an older one
             \* with its dedup_key
  ahead,     \* history: older rows of its key that were committed first
  failed,    \* last_error is not empty
  due,       \* next_attempt_at has passed
  token,     \* the running pass whose lease next_attempt_at is
  stage,     \* what each pass is doing
  todo,      \* the claimed rows it has not started
  cur,       \* the row it is publishing or settling
  late,      \* its lease has run out
  copies,    \* history: how often the broker accepted the message
  trouble

pvars == <<tx, older, carrier, ahead>>
rvars == <<row, failed, due, token>>
wvars == <<stage, todo, cur, late>>
vars  == <<pvars, rvars, wvars, copies, trouble>>

InTable  == {"pending", "published"}
Working  == {"publishing", "ok", "error"}

TypeOK ==
  /\ tx \in [Message -> {"idle", "open", "committed", "aborted"}]
  /\ row \in [Message -> {"none", "pruned", "abandoned"} \cup InTable]
  /\ older \in [Message -> SUBSET Message]
  /\ carrier \in [Message -> Message]
  /\ ahead \in [Message -> SUBSET Message]
  /\ failed \in [Message -> BOOLEAN]
  /\ due \in [Message -> BOOLEAN]
  /\ token \in [Message -> Relay \cup {NoPass}]
  /\ stage \in [Relay -> {"idle", "prologue", "broken", "batch"} \cup Working]
  /\ todo \in [Relay -> SUBSET Message]
  /\ cur \in [Relay -> Message \cup {NoMessage}]
  /\ late \in [Relay -> BOOLEAN]
  /\ copies \in [Message -> Nat]
  /\ trouble \in Nat

Init ==
  /\ tx = [m \in Message |-> "idle"]
  /\ row = [m \in Message |-> "none"]
  /\ older = [m \in Message |-> {}]
  /\ carrier = [m \in Message |-> m]
  /\ ahead = [m \in Message |-> {}]
  /\ failed = [m \in Message |-> FALSE]
  /\ due = [m \in Message |-> TRUE]
  /\ token = [m \in Message |-> NoPass]
  /\ stage = [s \in Relay |-> "idle"]
  /\ todo = [s \in Relay |-> {}]
  /\ cur = [s \in Relay |-> NoMessage]
  /\ late = [s \in Relay |-> FALSE]
  /\ copies = [m \in Message |-> 0]
  /\ trouble = 0

Happens == trouble < MaxTrouble /\ trouble' = trouble + 1

Visible(m) == tx[m] = "committed" /\ row[m] \in InTable
Pending(m) == tx[m] = "committed" /\ row[m] = "pending"
SameKey(m, q) == OrderingKey[m] # NoKey /\ OrderingKey[m] = OrderingKey[q]
Delivered == {m \in Message : copies[m] > 0}
Abandoned == {m \in Message : row[m] = "abandoned"}

-----------------------------------------------------------------------------
(***************************************************************************)
(* Producers.                                                              *)
(***************************************************************************)
\* The rows the UNIQUE index on dedup_key knows, committed or not.
Holders(m) == {q \in Message : /\ row[q] \in InTable
                               /\ DedupKey[m] # NoKey
                               /\ DedupKey[q] = DedupKey[m]}

\* enqueue() when no row has the dedup_key.
Enqueue(m) ==
  /\ tx[m] = "idle"
  /\ Holders(m) = {}
  /\ tx' = [tx EXCEPT ![m] = "open"]
  /\ row' = [row EXCEPT ![m] = "pending"]
  /\ older' = [older EXCEPT ![m] = {q \in Message : row[q] # "none"}]
  /\ UNCHANGED <<carrier, ahead, failed, due, token, wvars, copies,
                 trouble>>

\* enqueue() when one has: get_or_create waits for a row that is not
\* committed yet and returns one that is.
EnqueueDuplicate(m) ==
  /\ tx[m] = "idle"
  /\ \E q \in Holders(m) : /\ tx[q] = "committed"
                           /\ carrier' = [carrier EXCEPT ![m] = q]
  /\ tx' = [tx EXCEPT ![m] = "open"]
  /\ UNCHANGED <<older, ahead, rvars, wvars, copies, trouble>>

Commit(m) ==
  /\ tx[m] = "open"
  /\ tx' = [tx EXCEPT ![m] = "committed"]
  /\ ahead' = [ahead EXCEPT ![m] =
                 {q \in older[m] : SameKey(m, q) /\ tx[q] = "committed"}]
  /\ UNCHANGED <<older, carrier, rvars, wvars, copies, trouble>>

Rollback(m) ==
  /\ tx[m] = "open"
  /\ tx' = [tx EXCEPT ![m] = "aborted"]
  /\ row' = [row EXCEPT ![m] = "none"]
  /\ UNCHANGED <<older, carrier, ahead, failed, due, token, wvars,
                 copies, trouble>>

-----------------------------------------------------------------------------
(***************************************************************************)
(* A relay pass.                                                           *)
(***************************************************************************)
\* Mutant: the lease of a claimed row is not looked at.
DueMessagesLeased ==
  {m \in Message : /\ Pending(m)
                   /\ \A q \in older[m] : ~(SameKey(m, q) /\ Pending(q))}

\* Mutant: a waiting row does not hold back its successors.
DueMessagesUnordered == {m \in Message : Pending(m) /\ due[m]}

\* due_messages(): the head of every ordering key, and all unordered rows.
DueMessages ==
  {m \in Message : /\ Pending(m) /\ due[m]
                   /\ \A q \in older[m] : ~(SameKey(m, q) /\ Pending(q))}

OldestOf(set) ==
  {m \in set : Cardinality({q \in set : q \in older[m]}) < BatchSize}

\* _claim(): one transaction takes the oldest due rows that nobody has locked.
Claim(s) ==
  LET batch == OldestOf(DueMessages) IN
  /\ stage[s] = "idle"
  /\ batch # {}
  /\ stage' = [stage EXCEPT ![s] = "prologue"]
  /\ todo' = [todo EXCEPT ![s] = batch]
  /\ due' = [m \in Message |-> due[m] /\ m \notin batch]
  /\ token' = [m \in Message |-> IF m \in batch THEN s ELSE token[m]]
  /\ UNCHANGED <<pvars, row, failed, cur, late, copies, trouble>>

\* drain() after the claim: PubSubClient() is built, or raises.
BuildClient(s) ==
  /\ stage[s] = "prologue"
  /\ \/ /\ stage' = [stage EXCEPT ![s] = "batch"]
        /\ UNCHANGED trouble
     \/ /\ Happens
        /\ stage' = [stage EXCEPT ![s] = "broken"]
  /\ UNCHANGED <<pvars, rvars, todo, cur, late, copies>>

\* A pass is over, and so are its tokens.
Idle(s) ==
  /\ stage' = [stage EXCEPT ![s] = "idle"]
  /\ todo' = [todo EXCEPT ![s] = {}]
  /\ cur' = [cur EXCEPT ![s] = NoMessage]
  /\ late' = [late EXCEPT ![s] = FALSE]
Forget(s) == [m \in Message |-> IF token[m] = s THEN NoPass ELSE token[m]]

\* _settle_failure(): only the owner writes the error and shortens its lease
\* to the backoff.
RecordFailure(s, m) ==
  IF Pending(m) /\ token[m] = s
  THEN /\ failed' = [failed EXCEPT ![m] = TRUE]
       /\ due' = [due EXCEPT ![m] = FALSE]
       /\ token' = [token EXCEPT ![m] = NoPass]
  ELSE UNCHANGED <<failed, due, token>>

\* drain() without a client: every claimed row records the failure.
SettleBroken(s) ==
  /\ stage[s] = "broken"
  /\ \E m \in todo[s] : RecordFailure(s, m) /\ todo' = [todo EXCEPT ![s] = @ \ {m}]
  /\ UNCHANGED <<pvars, row, stage, cur, late, copies, trouble>>

\* The loop of drain(): the oldest row left, unless the deadline has passed.
StartPublish(s) ==
  /\ stage[s] = "batch"
  /\ ~late[s]
  /\ \E m \in todo[s] :
       /\ \A q \in todo[s] \ {m} : m \in older[q]
       /\ cur' = [cur EXCEPT ![s] = m]
       /\ todo' = [todo EXCEPT ![s] = @ \ {m}]
  /\ stage' = [stage EXCEPT ![s] = "publishing"]
  /\ UNCHANGED <<pvars, rvars, late, copies, trouble>>

\* Mutant: the release is not fenced by the lease.
ReleasedUnfenced(s) == {m \in todo[s] : Pending(m)}

\* _release(): the rows that are handed back are those the pass still owns.
Released(s) == {m \in todo[s] : Pending(m) /\ token[m] = s}

\* The deadline of drain() passes before the batch is done.
HitDeadline(s) ==
  LET rows == Released(s) IN
  /\ stage[s] = "batch" /\ todo[s] # {}
  /\ due' = [m \in Message |-> due[m] \/ m \in rows]
  /\ token' = [m \in Message |-> IF m \in rows THEN NoPass ELSE Forget(s)[m]]
  /\ Idle(s)
  /\ UNCHANGED <<pvars, row, failed, copies, trouble>>

EndPass(s) ==
  /\ stage[s] \in {"batch", "broken"} /\ todo[s] = {}
  /\ Idle(s)
  /\ token' = Forget(s)
  /\ UNCHANGED <<pvars, row, failed, due, copies, trouble>>

Arrives(m) == copies' = [copies EXCEPT ![m] = @ + 1]

\* publish() and its future: the broker accepts and says so, or the pass gets
\* an exception, whether or not the broker accepted.
Accepted(s) ==
  /\ stage[s] = "publishing"
  /\ Arrives(cur[s])
  /\ stage' = [stage EXCEPT ![s] = "ok"]
  /\ UNCHANGED <<pvars, rvars, todo, cur, late, trouble>>

PublishError(s) ==
  /\ stage[s] = "publishing"
  /\ Happens
  /\ Arrives(cur[s]) \/ UNCHANGED copies
  /\ stage' = [stage EXCEPT ![s] = "error"]
  /\ UNCHANGED <<pvars, rvars, todo, cur, late>>

NextRow(s) ==
  /\ stage' = [stage EXCEPT ![s] = "batch"]
  /\ cur' = [cur EXCEPT ![s] = NoMessage]

\* _settle_success(): not fenced, because the message did go out.
SettleSuccess(s) ==
  /\ stage[s] = "ok"
  /\ LET m == cur[s] IN
     IF Pending(m)
     THEN /\ row' = [row EXCEPT ![m] = "published"]
          /\ failed' = [failed EXCEPT ![m] = FALSE]
     ELSE UNCHANGED <<row, failed>>
  /\ NextRow(s)
  /\ UNCHANGED <<pvars, due, token, todo, late, copies, trouble>>

\* Mutant: a refused message is stamped as published.
SettleFailureAsPublished(s) ==
  /\ stage[s] = "error"
  /\ row' = IF Pending(cur[s]) THEN [row EXCEPT ![cur[s]] = "published"] ELSE row
  /\ NextRow(s)
  /\ UNCHANGED <<pvars, failed, due, token, todo, late, copies, trouble>>

SettleFailure(s) ==
  /\ stage[s] = "error"
  /\ RecordFailure(s, cur[s])
  /\ NextRow(s)
  /\ UNCHANGED <<pvars, row, todo, late, copies, trouble>>

-----------------------------------------------------------------------------
(***************************************************************************)
(* Time, crashes, the operator and retention.                              *)
(***************************************************************************)
\* A worker is killed.  Its rows keep their lease until it runs out.
Crash(s) ==
  /\ stage[s] # "idle"
  /\ Happens
  /\ Idle(s)
  /\ token' = Forget(s)
  /\ UNCHANGED <<pvars, row, failed, due, copies>>

\* A pass stalls until the lease it wrote on its rows has run out.
OutliveLease(s) ==
  /\ stage[s] # "idle" /\ ~late[s]
  /\ Happens
  /\ late' = [late EXCEPT ![s] = TRUE]
  /\ due' = [m \in Message |-> due[m] \/ token[m] = s]
  /\ UNCHANGED <<pvars, row, failed, token, stage, todo, cur, copies>>

\* A backoff, or the lease of a pass that is gone, runs out.
BecomeDue(m) ==
  /\ Pending(m) /\ token[m] = NoPass /\ ~due[m]
  /\ due' = [due EXCEPT ![m] = TRUE]
  /\ UNCHANGED <<pvars, row, failed, token, wvars, copies, trouble>>

\* outbox_abandon: the operator deletes a row the relay tried and failed to
\* publish.  Whether a pass is publishing it right now is not asked.
Abandon(m) ==
  /\ Pending(m)
  /\ failed[m]
  /\ row' = [row EXCEPT ![m] = "abandoned"]
  /\ UNCHANGED <<pvars, failed, due, token, wvars, copies, trouble>>

\* Mutant: rows with a dedup_key are pruned, too.
PruneKeyed(m) ==
  /\ Visible(m) /\ row[m] = "published"
  /\ row' = [row EXCEPT ![m] = "pruned"]
  /\ UNCHANGED <<pvars, failed, due, token, wvars, copies, trouble>>

\* prune_published(): old published rows without a dedup_key are deleted.
Prune(m) ==
  /\ Visible(m) /\ row[m] = "published" /\ DedupKey[m] = NoKey
  /\ row' = [row EXCEPT ![m] = "pruned"]
  /\ UNCHANGED <<pvars, failed, due, token, wvars, copies, trouble>>

Pass(s) ==
  \/ Claim(s) \/ BuildClient(s) \/ SettleBroken(s) \/ StartPublish(s)
  \/ HitDeadline(s) \/ EndPass(s)
  \/ Accepted(s) \/ PublishError(s) \/ SettleSuccess(s) \/ SettleFailure(s)
  \/ Crash(s) \/ OutliveLease(s)

Table(m) ==
  \/ Enqueue(m) \/ EnqueueDuplicate(m) \/ Commit(m) \/ Rollback(m)
  \/ BecomeDue(m) \/ Abandon(m) \/ Prune(m)

Next == (\E s \in Relay : Pass(s)) \/ (\E m \in Message : Table(m))

Spec == Init /\ [][Next]_vars

\* The sweep starts a pass whenever rows are due, workers run, the broker
\* answers and time passes.  Only a pass that never gets to a row within its
\* budget needs strong fairness: a deadline may pass it by, but not forever.
\* Producers, operators and retention owe nothing.
Fairness ==
  /\ \A s \in Relay :
       /\ WF_vars(Claim(s)) /\ WF_vars(BuildClient(s)) /\ WF_vars(SettleBroken(s))
       /\ WF_vars(HitDeadline(s)) /\ WF_vars(EndPass(s)) /\ WF_vars(Accepted(s))
       /\ WF_vars(SettleSuccess(s)) /\ WF_vars(SettleFailure(s))
       /\ SF_vars(StartPublish(s))
  /\ \A m \in Message : WF_vars(BecomeDue(m))

FairSpec == Spec /\ Fairness

-----------------------------------------------------------------------------
(***************************************************************************)
(* Properties.                                                             *)
(***************************************************************************)
\* Messages that must not be in flight together: a message and itself, and a
\* message and one it has to wait for.
Exclude(m, q) == m = q \/ m \in ahead[q] \/ q \in ahead[m]

\* What no relay has sent yet, one relay sends: two passes publish the same
\* message, or two messages of one ordering key, only when one of them has
\* outlived its lease, or an operator gave one of the messages up.
FirstPublishIsAlone ==
  \A s, t \in Relay :
    (/\ s # t
     /\ stage[s] = "publishing" /\ stage[t] = "publishing"
     /\ Exclude(cur[s], cur[t])
     /\ {cur[s], cur[t]} \cap (Delivered \cup Abandoned) = {})
    => late[s] \/ late[t]

\* A committed promise, also one that was collapsed into an older row, waits
\* in the table until the broker has the message; it leaves the table
\* undelivered only by an operator's hand.
NothingForgotten ==
  \A m \in Message : tx[m] = "committed"
    => Pending(carrier[m]) \/ carrier[m] \in Delivered \cup Abandoned

\* However many transactions promise the same event and however long the
\* table is pruned, one message goes out for a dedup_key, unless an operator
\* abandoned one.
OneMessagePerKey ==
  \A m, q \in Delivered :
    m # q /\ DedupKey[m] # NoKey /\ DedupKey[m] = DedupKey[q]
      => {m, q} \cap Abandoned # {}

\* A message goes out once more only for a crash, a stall or an error that
\* happened: neither concurrent passes nor deadlines send anything twice.
DuplicatesHaveCauses == \A m \in Message : copies[m] <= 1 + trouble

\* The outbox implements MessagePromise: the broker first gets a message
\* after those committed before it in its ordering key, and every promise is
\* kept in the end or abandoned by an operator.
Promise == INSTANCE MessagePromise WITH
  promised  <- {m \in Message : tx[m] = "committed" /\ carrier[m] = m},
  delivered <- Delivered,
  withdrawn <- Abandoned
PromiseIsKept == Promise!Spec
=============================================================================
