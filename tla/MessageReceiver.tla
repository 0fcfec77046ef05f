-------------------------- MODULE MessageReceiver --------------------------
(***************************************************************************)
(* The receiving engine (tauri-plugin-f2zmsg, engine.rs) and the relay:    *)
(* the subscription of its connection, and its passes over the inbound     *)
(* queue, with what it has on disk and what it has in memory.              *)
(*                                                                         *)
(* The engine holds its lock over a pass, so its steps are those of one    *)
(* thread; a connection that failed is replaced only by stopping and       *)
(* starting the engine.  Of the senders there is what they may append: any *)
(* message any number of times, as a retry does.                           *)
(*                                                                         *)
(* A chat message is recorded in the transaction that moves the cursor.    *)
(* A control message moves the cursor first and takes effect afterwards.   *)
(* The effects themselves, and gap repair, are left out.  Kept history:    *)
(* unfinished has the records that met an error, or a crash after the      *)
(* cursor had passed them.                                                 *)
(***************************************************************************)
EXTENDS RelayQueue

CONSTANTS
  NoIndex,
  Control,    \* the messages that are control payloads, e.g. QUEUE_ADVERT
  ReadBatch   \* READ_BATCH

ASSUME ReceiverAssumption ==
  NoIndex \notin Nat /\ Control \subseteq Message /\ ReadBatch \in Nat \ {0}

VARIABLES
  \* at the relay
  listening,  \* the connection is in the subscription table
  stale,      \* so is one the engine has left
  offered,    \* indices pushed to the connection, or dropped as it is full
  covered,    \* where the log ended at the connection's first READ
  \* on disk
  cursor,     \* the last index next_index has passed
  handled,    \* the MLS engine's handled keys
  used,       \* messages whose ratchet secret is spent
  kept,       \* indices recorded in the transcript, or put into effect
  marked,     \* indices with the marker of an unrecoverable message
  unfinished,
  \* in memory
  phase,      \* the next step of the pass
  batch,      \* the records of the page it has not finished
  mem,        \* the cursor in the pass's copy of the conversation
  top,        \* the highest index it may acknowledge
  failed,     \* the records this pass failed on: `outcomes` with false
  link        \* the connection is up

subscription == <<listening, stale, offered, covered>>
disk == <<cursor, handled, used, kept, marked, unfinished>>
pass == <<phase, batch, mem, top, failed>>
relay == <<queue, tasks, subscription>>
vars == <<relay, trouble, disk, pass, link>>

Phase == {"off", "idle", "receive", "record", "effect", "mark", "ack", "settle"}

TypeOK ==
  /\ QueueTypeOK
  /\ listening \in BOOLEAN /\ stale \in BOOLEAN
  /\ offered \in SUBSET Indices /\ covered \in Nat \cup {NoIndex}
  /\ cursor \in Nat /\ mem \in Nat /\ top \in Nat
  /\ handled \in SUBSET Indices /\ used \in SUBSET Message
  /\ kept \in SUBSET Indices /\ marked \in SUBSET Indices
  /\ unfinished \in SUBSET Indices
  /\ phase \in Phase /\ batch \in SUBSET Indices
  /\ failed \in SUBSET Indices /\ link \in BOOLEAN

Init ==
  /\ QueueInit
  /\ listening = FALSE /\ stale = FALSE /\ offered = {} /\ covered = NoIndex
  /\ cursor = 0 /\ handled = {} /\ used = {} /\ kept = {} /\ marked = {}
  /\ unfinished = {}
  /\ phase = "off" /\ batch = {} /\ mem = 0 /\ top = 0 /\ failed = {}
  /\ link = FALSE

-----------------------------------------------------------------------------
(***************************************************************************)
(* The relay.                                                              *)
(***************************************************************************)
Arrive(m) ==
  /\ Write(m)
  /\ UNCHANGED <<trouble, subscription, disk, pass, link>>

\* commit_append() after the commit: the task pushes to the subscribers there
\* are now.
Push(i) ==
  /\ i \in tasks
  /\ tasks' = tasks \ {i}
  /\ offered' = IF listening THEN offered \cup {i} ELSE offered
  /\ UNCHANGED <<queue, listening, stale, covered, trouble, disk, pass, link>>

Expire ==
  /\ ExpireOldest
  /\ UNCHANGED <<tasks, subscription, trouble, disk, pass, link>>

\* Mutant: a closed connection is dropped by its address, not its id.
DropAddress ==
  /\ stale
  /\ stale' = FALSE /\ listening' = FALSE
  /\ UNCHANGED <<queue, tasks, offered, covered, trouble, disk, pass, link>>

\* drop_connection(): the relay notices that a connection is closed.
DropConnection ==
  /\ stale
  /\ stale' = FALSE
  /\ UNCHANGED <<queue, tasks, listening, offered, covered, trouble, disk, pass, link>>

\* The relay's process dies and starts again: the tasks and the table are
\* lost, what was committed is there.
RelayCrash ==
  /\ Happens
  /\ tasks' = {}
  /\ listening' = FALSE /\ stale' = FALSE /\ offered' = {} /\ covered' = NoIndex
  /\ link' = FALSE
  /\ UNCHANGED <<queue, disk, pass>>

-----------------------------------------------------------------------------
(***************************************************************************)
(* A session of the engine.                                                *)
(***************************************************************************)
\* start_engine connects and subscribes; a failure of either is logged and the
\* engine runs all the same.  The record that SUBSCRIBE answers with is read
\* before it registers; the engine ignores it.
Start ==
  /\ phase = "off"
  /\ phase' = "idle"
  /\ \/ Smoothly /\ link' = TRUE /\ listening' = TRUE
     \/ Happens /\ link' \in BOOLEAN /\ listening' \in BOOLEAN
  /\ offered' = {} /\ covered' = NoIndex
  /\ UNCHANGED <<queue, tasks, stale, disk, batch, mem, top, failed>>

\* The user stops the engine, or the process dies; only a stop that the lost
\* connection calls for is not counted as trouble.  The relay may not notice
\* at once.
Stop ==
  /\ phase # "off"
  /\ \/ phase = "idle" /\ ~link /\ Smoothly
     \/ Happens
  /\ unfinished' = IF phase \in {"effect", "mark"}
                     THEN unfinished \cup {i \in batch : \A j \in batch : i <= j}
                     ELSE unfinished
  /\ phase' = "off" /\ batch' = {} /\ mem' = cursor /\ top' = 0 /\ failed' = {}
  /\ link' = FALSE
  /\ listening' = FALSE /\ offered' = {} /\ covered' = NoIndex
  /\ stale' = (stale \/ listening)
  /\ UNCHANGED <<queue, tasks, cursor, handled, used, kept, marked>>

-----------------------------------------------------------------------------
(***************************************************************************)
(* A pass: pump_conversation() and apply_inbound().                        *)
(***************************************************************************)
Read ==
  /\ phase = "idle" /\ link
  /\ covered' = IF listening /\ covered = NoIndex THEN Len(log) ELSE covered
  /\ batch' = Page(cursor + 1, ReadBatch)
  /\ mem' = cursor /\ top' = 0 /\ failed' = {}
  /\ phase' = IF batch' = {} THEN "idle" ELSE "receive"
  /\ UNCHANGED <<queue, tasks, listening, stale, offered, trouble, disk, link>>

\* A READ fails, and with it every one that follows on the connection.
ReadFails ==
  /\ phase = "idle" /\ link
  /\ Happens
  /\ link' = FALSE
  /\ UNCHANGED <<relay, disk, pass>>

\* The record the pass is at.
At(i) == i \in batch /\ \A j \in batch : i <= j

\* Mutant: a failure excludes itself from what may be acknowledged, no more.
NextRecordLeaps(i, ok) ==
  /\ top' = IF ok THEN i ELSE top
  /\ failed' = IF ok THEN failed ELSE failed \cup {i}
  /\ batch' = batch \ {i}
  /\ phase' = IF batch' # {} THEN "receive" ELSE IF top' # 0 THEN "ack" ELSE "idle"

\* acknowledgeable(): the first failure ends what may be acknowledged.
NextRecord(i, ok) ==
  /\ top' = IF ok /\ failed = {} THEN i ELSE top
  /\ failed' = IF ok THEN failed ELSE failed \cup {i}
  /\ batch' = batch \ {i}
  /\ phase' = IF batch' # {} THEN "receive" ELSE IF top' # 0 THEN "ack" ELSE "idle"

\* An error of one record.
Fail(i) ==
  /\ unfinished' = unfinished \cup {i}
  /\ NextRecord(i, FALSE)

\* advance(), and every other commit that moves the cursor past i.
Advance(i) == mem' = i /\ cursor' = i
AdvanceFails(i) == mem' = i /\ UNCHANGED cursor

\* MlsEngine::receive() decrypts a record it has not seen and spends the
\* message's secret, in one transaction.
Receive(i) ==
  /\ phase = "receive" /\ At(i)
  /\ i \notin handled /\ log[i] \notin used
  /\ handled' = handled \cup {i}
  /\ used' = used \cup {log[i]}
  /\ phase' = "record"
  /\ UNCHANGED <<relay, trouble, cursor, kept, marked, unfinished, batch, mem, top, failed, link>>


\* receive() refuses: the secret is spent, as for a message appended twice,
\* or the MLS store fails and the group is rolled back.
Undecryptable(i) ==
  /\ phase = "receive" /\ At(i)
  /\ i \notin handled
  /\ \/ log[i] \in used /\ Smoothly /\ Advance(i)
     \/ Happens /\ (Advance(i) \/ AdvanceFails(i))
  /\ Fail(i)
  /\ UNCHANGED <<relay, handled, used, kept, marked, link>>

\* GroupStateUnavailable, from a rollback that fails or from reload_group():
\* the pass stops at this record.
GroupUnavailable(i) ==
  /\ phase = "receive" /\ At(i)
  /\ Happens
  /\ failed' = failed \cup {i} /\ batch' = {}
  /\ phase' = IF top # 0 THEN "ack" ELSE "idle"
  /\ UNCHANGED <<relay, disk, mem, top, link>>

\* A record MLS has handled in a pass that was cut short.
Duplicate(i) ==
  /\ phase = "receive" /\ At(i)
  /\ i \in handled
  /\ \/ /\ Smoothly
        /\ Advance(i)
        /\ phase' = "mark"
        /\ UNCHANGED <<unfinished, batch, top, failed>>
     \/ /\ Happens
        /\ AdvanceFails(i)
        /\ Fail(i)
  /\ UNCHANGED <<relay, handled, used, kept, marked, link>>

\* record_unrecoverable(): a marker takes the place of the message.
Mark(i) ==
  /\ phase = "mark" /\ At(i)
  /\ \/ /\ Smoothly
        /\ marked' = marked \cup {i}
        /\ NextRecord(i, TRUE)
        /\ UNCHANGED unfinished
     \/ /\ Happens
        /\ Fail(i)
        /\ UNCHANGED marked
  /\ UNCHANGED <<relay, cursor, handled, used, kept, mem, link>>

\* Mutant: the cursor is moved by the commit that ends the pass.
RecordChatAlone(i) ==
  /\ phase = "record" /\ At(i) /\ log[i] \notin Control
  /\ Smoothly
  /\ kept' = kept \cup {i}
  /\ AdvanceFails(i)
  /\ NextRecord(i, TRUE)
  /\ UNCHANGED <<relay, handled, used, marked, unfinished, link>>

\* A chat message, its index in the transcript and the cursor are one
\* transaction.  An error before it leaves the pass's cursor, too.
RecordChat(i) ==
  /\ phase = "record" /\ At(i) /\ log[i] \notin Control
  /\ \/ /\ Smoothly
        /\ kept' = kept \cup {i}
        /\ Advance(i)
        /\ NextRecord(i, TRUE)
        /\ UNCHANGED unfinished
     \/ /\ Happens
        /\ AdvanceFails(i) \/ UNCHANGED <<mem, cursor>>
        /\ Fail(i)
        /\ UNCHANGED kept
  /\ UNCHANGED <<relay, handled, used, marked, link>>

\* A control message: the cursor first ...
AdvanceControl(i) ==
  /\ phase = "record" /\ At(i) /\ log[i] \in Control
  /\ \/ /\ Smoothly
        /\ Advance(i)
        /\ phase' = "effect"
        /\ UNCHANGED <<unfinished, batch, top, failed>>
     \/ /\ Happens
        /\ AdvanceFails(i) \/ UNCHANGED <<mem, cursor>>
        /\ Fail(i)
  /\ UNCHANGED <<relay, handled, used, kept, marked, link>>

\* ... then what it asks for.
Effect(i) ==
  /\ phase = "effect" /\ At(i)
  /\ \/ /\ Smoothly
        /\ kept' = kept \cup {i}
        /\ NextRecord(i, TRUE)
        /\ UNCHANGED unfinished
     \/ /\ Happens
        /\ Fail(i)
        /\ UNCHANGED kept
  /\ UNCHANGED <<relay, cursor, handled, used, marked, mem, link>>

\* ACK of everything up to the first failure; the request or its answer may
\* be lost, and is, on a connection that is down.
Ack ==
  /\ phase = "ack"
  /\ \/ /\ link /\ Smoothly
        /\ Acknowledge(top)
        /\ phase' = "settle"
        /\ UNCHANGED link
     \/ /\ link /\ Happens
        /\ Acknowledge(top) \/ UNCHANGED queue
        /\ phase' = "idle" /\ link' = FALSE
     \/ /\ ~link /\ Smoothly
        /\ phase' = "idle"
        /\ UNCHANGED <<queue, link>>
  /\ UNCHANGED <<tasks, subscription, disk, batch, mem, top, failed>>

\* The conversation is written again after an ACK, with the pass's cursor.
Settle ==
  /\ phase = "settle"
  /\ \/ cursor' = mem /\ Smoothly
     \/ UNCHANGED cursor /\ Happens
  /\ phase' = "idle"
  /\ UNCHANGED <<relay, handled, used, kept, marked, unfinished, batch, mem, top, failed, link>>

-----------------------------------------------------------------------------
Apply(i) ==
  \/ Receive(i) \/ Undecryptable(i) \/ GroupUnavailable(i) \/ Duplicate(i)
  \/ Mark(i) \/ RecordChat(i) \/ AdvanceControl(i) \/ Effect(i)

Pump == Read \/ (\E i \in batch : Apply(i)) \/ Ack \/ Settle

Relay ==
  \/ \E m \in Message : Arrive(m)
  \/ \E i \in tasks : Push(i)
  \/ Expire \/ DropConnection \/ RelayCrash

Next == Relay \/ Start \/ Stop \/ Pump \/ ReadFails

Spec == Init /\ [][Next]_vars

\* The receive loop polls for the life of the process, a user whose engine
\* is off starts it, and one who is cut off stops it.
Reconnect == ~link /\ Stop

FairSpec == Spec /\ WF_vars(Pump) /\ WF_vars(Start) /\ WF_vars(Reconnect)

-----------------------------------------------------------------------------
(***************************************************************************)
(* Properties.                                                             *)
(***************************************************************************)
\* A record is done when its message is in the transcript, in effect, or
\* marked as lost, here or under another index.
Done(i) == \E j \in kept \cup marked : log[j] = log[i]

\* acknowledgeable(): ACK is cumulative, so no pass lets the relay delete a record
\* it failed on, nor anything it has not looked at.  What is deleted is done, had
\* expired, or was given up by an earlier pass or in a crash.
AckedIsSettled ==
  \A i \in Indices : i <= acked =>
    i \notin failed /\ (Done(i) \/ i \in expired \/ i \in unfinished)

\* WIRE.md:1408, "A reader that cannot process message 5 must not acknowledge 7",
\* and engine.rs:5281, where a refused record moves the cursor and "what does not
\* advance is the deletion": what is deleted is done, or had expired.
AckedIsProcessed ==
  \A i \in Indices : i <= acked => Done(i) \/ i \in expired

\* retry_send() and record_unrecoverable(): however often a message was
\* appended, and wherever a pass was cut short, the transcript shows it once:
\* the message itself, or the marker that it is lost.
ShownOnce ==
  /\ kept \cap marked = {}
  /\ \A i, j \in kept \cup marked : log[i] = log[j] => i = j

\* subscriptions.rs: a connection that subscribes and then reads misses
\* nothing.  Every message that its first READ came too early for has been
\* pushed to it, is about to be, or was dropped because it is full.
PushesCoverTheRest ==
  covered # NoIndex => \A i \in Indices : i > covered => i \in offered \cup tasks

=============================================================================
