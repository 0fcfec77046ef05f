--------------------------- MODULE MessageSender ---------------------------
(***************************************************************************)
(* The sending engine (tauri-plugin-f2zmsg, engine.rs and relay.rs) and    *)
(* the relay: binding the send address, delivering and retrying messages,  *)
(* with what the engine has on disk and what it has in memory.             *)
(*                                                                         *)
(* An engine holds its lock over a whole delivery, so one request is out   *)
(* at a time.  A READ_TIMEOUT leaves the connection open with an answer    *)
(* still to come, which every later request then mistakes for its own;     *)
(* nothing but stopping and starting the engine replaces a connection.     *)
(*                                                                         *)
(* Of the reader there is what it may do to the queue.  A repeated late    *)
(* request is kept once at a time.                                         *)
(***************************************************************************)
EXTENDS RelayQueue

CONSTANT NoMessage

ASSUME SenderAssumption == NoMessage \notin Message

VARIABLES
  bound,  \* whose key the send address is bound to
  call,   \* the request whose answer the sender awaits
  late,   \* requests it no longer awaits, on the wire or in the channel
  box,    \* delivery state of each message; "failed" keeps its ciphertext
  bind,   \* bind_state
  alarm,  \* the alarm of a stolen send address
  link    \* the connection

sender == <<box, bind, alarm, link>>
vars   == <<queue, tasks, trouble, bound, call, late, sender>>

\* What the sender may ask: BIND_SEND while delivering msg, or APPEND of msg.
Op    == {"bind", "append"}
Stage == {"sent", "committed", "ok", "taken", "refused", "unreachable", "violation"}
Call  == [op : Op, msg : Message, first : BOOLEAN, stage : Stage, index : Nat]
NoCall == [op |-> "none", msg |-> NoMessage, first |-> FALSE, stage |-> "sent", index |-> 0]
BindRequest == [op |-> "bind", msg |-> NoMessage]
AppendOf(m) == [op |-> "append", msg |-> m]
Request == {BindRequest} \cup {AppendOf(m) : m \in Message}

TypeOK ==
  /\ QueueTypeOK
  /\ bound \in {"nobody", "sender", "other"}
  /\ call \in Call \cup {NoCall}
  /\ late \in SUBSET Request
  /\ box \in [Message -> {"none", "pending", "accepted", "failed", "cancelled"}]
  /\ bind \in {"Fresh", "OutcomeUnknown", "Confirmed"}
  /\ alarm \in {"none", "volatile", "durable"}
  /\ link \in {"up", "behind", "closed"}

Init ==
  /\ QueueInit
  /\ bound = "nobody" /\ call = NoCall /\ late = {}
  /\ box = [m \in Message |-> "none"]
  /\ bind = "Fresh" /\ alarm = "none" /\ link = "up"

-----------------------------------------------------------------------------
(***************************************************************************)
(* The relay.                                                              *)
(***************************************************************************)
\* A request as the relay meets it: the one its sender awaits, or a late one.
Awaited(op, m) == call.op = op /\ call.msg = m /\ call.stage = "sent"

\* Mutant: the writer answers when it takes the append into its batch.
AppendAnsweredEarly(m) ==
  /\ bound = "sender"
  /\ \/ /\ Awaited("append", m)
        /\ HasRoom
        /\ call' = [call EXCEPT !.stage = "ok"]
        /\ late' = late \cup {AppendOf(m)}
        /\ UNCHANGED <<queue, tasks>>
     \/ /\ AppendOf(m) \in late
        /\ Write(m)
        /\ late' = late \ {AppendOf(m)}
        /\ UNCHANGED call
  /\ UNCHANGED <<trouble, bound, sender>>

\* The writer thread commits one append; its task is told the index.
CommitAppend(m) ==
  /\ bound = "sender"
  /\ Write(m)
  /\ \/ /\ Awaited("append", m)
        /\ call' = [call EXCEPT !.stage = "committed", !.index = Len(log) + 1]
        /\ UNCHANGED late
     \/ /\ AppendOf(m) \in late
        /\ late' = late \ {AppendOf(m)}
        /\ UNCHANGED call
  /\ UNCHANGED <<trouble, bound, sender>>

\* The queue refuses an append, or its transaction fails.
RefuseAppend(m) ==
  /\ \/ (bound # "sender" \/ ~HasRoom) /\ Smoothly
     \/ Happens
  /\ \/ /\ Awaited("append", m)
        /\ call' = [call EXCEPT !.stage = "refused"]
        /\ UNCHANGED late
     \/ /\ AppendOf(m) \in late
        /\ late' = late \ {AppendOf(m)}
        /\ UNCHANGED call
  /\ UNCHANGED <<queue, tasks, bound, sender>>

\* commit_append() and defer() after the commit: the sender is answered, if
\* it still listens.  Tasks run in any order.
Answer(i) ==
  /\ i \in tasks
  /\ tasks' = tasks \ {i}
  /\ call' = IF call.stage = "committed" /\ call.index = i
               THEN [call EXCEPT !.stage = "ok"] ELSE call
  /\ UNCHANGED <<queue, trouble, bound, late, sender>>

\* bind_send(): the first key is bound, whatever key asks later.
BindSend ==
  /\ bound' = IF bound = "nobody" THEN "sender" ELSE bound
  /\ \/ /\ call.op = "bind" /\ call.stage = "sent"
        /\ call' = [call EXCEPT !.stage = IF bound = "nobody" THEN "ok" ELSE "taken"]
        /\ UNCHANGED late
     \/ /\ BindRequest \in late
        /\ late' = late \ {BindRequest}
        /\ UNCHANGED call
  /\ UNCHANGED <<queue, tasks, trouble, sender>>

\* Whoever else learned the address binds it.
OtherBinds ==
  /\ bound = "nobody"
  /\ bound' = "other"
  /\ UNCHANGED <<queue, tasks, trouble, call, late, sender>>

\* A request of a connection that is gone never arrives.
LoseRequest(r) ==
  /\ r \in late
  /\ late' = late \ {r}
  /\ UNCHANGED <<queue, tasks, trouble, bound, call, sender>>

\* The reader acknowledges what it has read, or a message expires.
ReaderAcks(i) ==
  /\ i \in held
  /\ Acknowledge(i)
  /\ UNCHANGED <<tasks, trouble, bound, call, late, sender>>

Expire ==
  /\ ExpireOldest
  /\ UNCHANGED <<tasks, trouble, bound, call, late, sender>>

-----------------------------------------------------------------------------
(***************************************************************************)
(* The engine.                                                             *)
(***************************************************************************)
Idle == call = NoCall

Asks(op, m, first, stage) ==
  call' = [op |-> op, msg |-> m, first |-> first, stage |-> stage, index |-> 0]

\* A request as it is kept when its sender gives up on it.
AsLate(op, m) == IF op = "bind" THEN BindRequest ELSE AppendOf(m)

\* Put a request on the connection.  On one that is behind, the request goes
\* out, and the answer that comes, if one does, is to an earlier request.
Ask(op, m, first) ==
  \/ link = "up" /\ Asks(op, m, first, "sent") /\ late' = late
  \/ /\ link = "behind"
     /\ \E stage \in {"violation", "unreachable"} : Asks(op, m, first, stage)
     /\ late' = late \cup {AsLate(op, m)}
  \/ link = "closed" /\ Asks(op, m, first, "unreachable") /\ late' = late

\* Mutant: the record is left to the answer.
DeliverUnrecorded(m) ==
  /\ bind' = bind
  /\ IF bind = "Confirmed" THEN Ask("append", m, FALSE)
                           ELSE Ask("bind", m, bind = "Fresh")

\* ensure_bound() and append(): that the outcome of a bind may be unknown
\* from now on is recorded before BIND_SEND is sent.
Deliver(m) ==
  IF bind = "Confirmed"
    THEN Ask("append", m, FALSE) /\ bind' = bind
    ELSE Ask("bind", m, bind = "Fresh") /\ bind' = "OutcomeUnknown"

\* A new message is stored before it is delivered.
Stored(m) == IF box[m] = "none" THEN [box EXCEPT ![m] = "pending"] ELSE box

\* send_message(): durable first, then delivered; retry_send() delivers what
\* still has its ciphertext.  A stolen address is never used again; what was
\* for it is marked when that can be written.
Send(m) ==
  /\ Idle
  /\ box[m] \in {"none", "pending", "failed"}
  /\ \/ /\ alarm = "none"
        /\ Deliver(m)
        /\ box' = Stored(m)
     \/ /\ alarm # "none"
        /\ box' \in {Stored(m), [box EXCEPT ![m] = "failed"]}
        /\ UNCHANGED <<bind, call, late>>
  /\ UNCHANGED <<queue, tasks, trouble, bound, alarm, link>>

\* cancel_send()
Cancel(m) ==
  /\ Idle
  /\ box[m] \in {"pending", "failed", "accepted"}
  /\ box' = [box EXCEPT ![m] = "cancelled"]
  /\ UNCHANGED <<queue, tasks, trouble, bound, call, late, bind, alarm, link>>

\* BIND_SEND succeeded, or was refused after one whose outcome was unknown:
\* the append follows, unless the record of the success cannot be written.
Bound ==
  /\ call.op = "bind"
  /\ \/ /\ call.stage = "ok" /\ Smoothly
        /\ bind' = "Confirmed"
        /\ Ask("append", call.msg, FALSE)
     \/ /\ call.stage = "ok" /\ Happens
        /\ call' = NoCall
        /\ UNCHANGED <<bind, late>>
     \/ /\ call.stage = "taken" /\ ~call.first /\ Smoothly
        /\ Ask("append", call.msg, FALSE)
        /\ UNCHANGED bind
  /\ UNCHANGED <<queue, tasks, bound, box, alarm, link>>

\* The first BIND_SEND to a fresh address was refused.  The alarm is written
\* to disk, or kept in memory when that fails; then the delivery is marked.
Stolen ==
  /\ call.op = "bind" /\ call.stage = "taken" /\ call.first
  /\ \/ /\ alarm' = "durable" /\ Smoothly
        /\ box' = [box EXCEPT ![call.msg] = "failed"]
     \/ /\ alarm' \in {"volatile", "durable"} /\ Happens
        /\ box' \in {box, [box EXCEPT ![call.msg] = "failed"]}
  /\ call' = NoCall
  /\ UNCHANGED <<queue, tasks, bound, late, bind, link>>

\* APPEND was accepted.  It also confirms a binding that was in doubt.
Accepted ==
  /\ call.op = "append" /\ call.stage = "ok"
  /\ call' = NoCall
  /\ \/ /\ Smoothly
        /\ bind' = "Confirmed"
        /\ box' = [box EXCEPT ![call.msg] = "accepted"]
     \/ /\ Happens
        /\ bind' \in {bind, "Confirmed"}
        /\ box' \in {box, [box EXCEPT ![call.msg] = "accepted"]}
  /\ UNCHANGED <<queue, tasks, bound, late, alarm, link>>

\* A request failed: a bind changes nothing; an append leaves the message
\* pending when its error is retryable, if that can be written.
Failed ==
  /\ call.op \in Op
  /\ call.stage \in {"refused", "unreachable", "violation"}
  /\ \/ call.op = "append" /\ Smoothly
        /\ box' = [box EXCEPT ![call.msg] = IF call.stage = "violation"
                                              THEN "failed" ELSE "pending"]
     \/ call.op = "append" /\ Happens /\ box' = box
     \/ call.op = "bind" /\ Smoothly /\ box' = box
  /\ call' = NoCall
  /\ UNCHANGED <<queue, tasks, bound, late, bind, alarm, link>>

\* What becomes of a request nobody awaits any more.
LeftBehind ==
  IF call.op \in Op /\ call.stage = "sent"
    THEN late \cup {AsLate(call.op, call.msg)} ELSE late

\* The answer does not come in time, or the connection breaks.
Unanswered ==
  /\ call.op \in Op
  /\ call.stage \in {"sent", "committed", "ok", "taken", "refused"}
  /\ Happens
  /\ late' = LeftBehind
  /\ call' = [call EXCEPT !.stage = "unreachable"]
  /\ link' \in {"behind", "closed"}
  /\ UNCHANGED <<queue, tasks, bound, box, bind, alarm>>

\* The engine's process dies and starts again.
SenderCrash ==
  /\ Happens
  /\ late' = LeftBehind
  /\ call' = NoCall
  /\ link' = "up"
  /\ alarm' = IF alarm = "volatile" THEN "none" ELSE alarm
  /\ UNCHANGED <<queue, tasks, bound, box, bind>>

\* stop_engine and start_engine: an alarm in memory is written down first.
SenderRestart ==
  /\ Idle /\ link # "up"
  /\ link' = "up"
  /\ alarm' = IF alarm = "volatile" THEN "durable" ELSE alarm
  /\ UNCHANGED <<queue, tasks, trouble, bound, call, late, box, bind>>

\* The relay's process dies and starts again: the channel and the tasks are
\* lost, the connections closed, what was committed is there.
RelayCrash ==
  /\ Happens
  /\ tasks' = {} /\ late' = {}
  /\ call' = IF Idle THEN call ELSE [call EXCEPT !.stage = "unreachable"]
  /\ link' = "closed"
  /\ UNCHANGED <<queue, bound, box, bind, alarm>>

-----------------------------------------------------------------------------
Relay ==
  \/ \E m \in Message : CommitAppend(m) \/ RefuseAppend(m)
  \/ \E i \in tasks : Answer(i)
  \/ BindSend \/ OtherBinds
  \/ \E r \in late : LoseRequest(r)
  \/ \E i \in held : ReaderAcks(i)
  \/ Expire

Engine ==
  \/ \E m \in Message : Send(m) \/ Cancel(m)
  \/ Bound \/ Stolen \/ Accepted \/ Failed

Next == Relay \/ Engine \/ Unanswered \/ SenderCrash \/ SenderRestart \/ RelayCrash

Spec == Init /\ [][Next]_vars

-----------------------------------------------------------------------------
(***************************************************************************)
(* Properties.                                                             *)
(***************************************************************************)
\* WIRE.md 8.4 and 13.2: a message its sender knows to be accepted was
\* committed, and the relay has it until it is acknowledged or expires.
AcceptedIsStored ==
  \A m \in Message : box[m] = "accepted"
    => \E i \in Indices : log[i] = m /\ (i \in held \/ i <= acked \/ i \in expired)

\* ensure_bound(): an alarm says the truth.  Whatever was lost, retried or
\* forgotten, the sender never takes its own earlier BIND_SEND for theft.
NoFalseAlarm == alarm # "none" => bound = "other"
=============================================================================
