------------------------ MODULE MessageSender_proofs ------------------------
(***************************************************************************)
(* Proofs about MessageSender: what the sender holds for accepted was      *)
(* stored, and it never takes its own bind for theft.                      *)
(***************************************************************************)
EXTENDS MessageSender, TLAPS

\* A bind that may raise the alarm is the first one ever sent: none of the
\* engine's own can be ahead of it.
FirstBindIsFirst ==
  /\ bind = "Fresh" => call.op # "bind" /\ bound # "sender" /\ BindRequest \notin late
  /\ call.op = "bind" /\ call.first /\ call.stage = "sent"
       => bound # "sender" /\ BindRequest \notin late
  /\ call.op = "bind" /\ call.first /\ call.stage = "taken" => bound = "other"

\* Nothing leaves the queue but by acknowledgement and expiry.
LogIsKept == \A i \in Indices : i \in held \/ i <= acked \/ i \in expired

\* An append that was committed is in the log where its task says, and so is
\* every message whose append was answered.
AnswersAreTrue ==
  /\ call.op = "append" /\ call.stage \in {"committed", "ok"}
       => call.index \in Indices /\ log[call.index] = call.msg
  /\ \A m \in Message : box[m] = "accepted" => \E i \in Indices : log[i] = m

IInv == FirstBindIsFirst /\ NoFalseAlarm /\ LogIsKept /\ AnswersAreTrue

-----------------------------------------------------------------------------
\* What a write leaves in the log.
LEMMA WriteExtends ==
  ASSUME TypeOK, NEW m \in Message, Write(m)
  PROVE  /\ log' \in Seq(Message)
         /\ Indices' = Indices \cup {Len(log) + 1}
         /\ log'[Len(log) + 1] = m
         /\ \A i \in Indices : log'[i] = log[i]
         /\ Len(log) + 1 \in Nat
  BY DEF TypeOK, QueueTypeOK, Write, Indices

\* The queue's types do not depend on who uses it.
LEMMA QueueTypes ==
  ASSUME TypeOK,
         \/ \E m \in Message : Write(m)
         \/ (\E i \in held : Acknowledge(i)) /\ tasks' = tasks
         \/ ExpireOldest /\ tasks' = tasks
         \/ UNCHANGED queue /\ tasks' \in SUBSET tasks,
         trouble' \in Nat
  PROVE  QueueTypeOK'
<1>1. CASE \E m \in Message : Write(m)
  <2>1. PICK m \in Message : Write(m)
    BY <1>1
  <2> QED
    BY <2>1, WriteExtends DEF TypeOK, QueueTypeOK, Write
<1>2. CASE (\E i \in held : Acknowledge(i)) /\ tasks' = tasks
  BY <1>2 DEF TypeOK, QueueTypeOK, Acknowledge, Indices
<1>3. CASE ExpireOldest /\ tasks' = tasks
  BY <1>3 DEF TypeOK, QueueTypeOK, ExpireOldest, Indices
<1>4. CASE UNCHANGED queue /\ tasks' \in SUBSET tasks
  BY <1>4 DEF TypeOK, QueueTypeOK, queue, Indices
<1> QED
  BY <1>1, <1>2, <1>3, <1>4

\* Counting trouble.
LEMMA Trouble ==
  ASSUME TypeOK, Happens \/ Smoothly
  PROVE  trouble' \in Nat
  BY DEF TypeOK, QueueTypeOK, Happens, Smoothly

-----------------------------------------------------------------------------
\* The requests there are.
LEMMA Requests ==
  /\ BindRequest \in Request
  /\ \A m \in Message : AppendOf(m) \in Request /\ AppendOf(m) # BindRequest
  /\ NoCall.op = "none" /\ NoCall.stage = "sent"
  BY DEF Request, BindRequest, AppendOf, NoCall

\* The record of a request that is awaited.
LEMMA CallFields ==
  ASSUME TypeOK, call.op \in Op
  PROVE  /\ call \in Call
         /\ call.msg \in Message /\ call.first \in BOOLEAN
         /\ call.stage \in Stage /\ call.index \in Nat
         /\ AsLate(call.op, call.msg) \in Request
         /\ \A s \in Stage : [call EXCEPT !.stage = s] \in Call
  BY Requests DEF TypeOK, Call, Op, NoCall, AsLate, Request

\* Asking keeps the types.
LEMMA AskType ==
  ASSUME TypeOK, NEW op \in Op, NEW m \in Message, NEW first \in BOOLEAN, Ask(op, m, first)
  PROVE  /\ call' \in Call /\ late' \in SUBSET Request
         /\ call'.op = op /\ call'.msg = m /\ call'.first = first
         /\ call'.stage \in {"sent", "violation", "unreachable"}
         /\ \/ late' = late
            \/ late' = late \cup {AsLate(op, m)} /\ call'.stage # "sent"
<1>1. AsLate(op, m) \in Request
  BY Requests DEF AsLate, Op, Request
<1> QED
  BY <1>1 DEF TypeOK, Ask, Asks, Call, Stage, Op

\* What is left behind is a request.
LEMMA LeftBehindType ==
  ASSUME TypeOK
  PROVE  /\ LeftBehind \in SUBSET Request
         /\ BindRequest \in LeftBehind => BindRequest \in late \/ call.op = "bind"
<1>1. CASE call.op \in Op /\ call.stage = "sent"
  BY <1>1, CallFields, Requests DEF TypeOK, LeftBehind, AsLate, Op
<1>2. CASE ~(call.op \in Op /\ call.stage = "sent")
  BY <1>2 DEF TypeOK, LeftBehind
<1> QED
  BY <1>1, <1>2


-----------------------------------------------------------------------------
\* Every step keeps the types.
LEMMA TypeStep == TypeOK /\ [Next]_vars => TypeOK'
<1> SUFFICES ASSUME TypeOK, [Next]_vars PROVE TypeOK'
  OBVIOUS
<1> USE Trouble, Requests
<1>1. ASSUME NEW m \in Message, CommitAppend(m) PROVE TypeOK'
  <2>1. QueueTypeOK'
    BY <1>1, QueueTypes DEF CommitAppend, TypeOK, QueueTypeOK
  <2>2. Len(log) + 1 \in Nat
    BY <1>1, WriteExtends DEF CommitAppend
  <2>3. call' \in Call \cup {NoCall} /\ late' \in SUBSET Request
    BY <1>1, <2>2, CallFields DEF CommitAppend, Awaited, TypeOK, Call, Stage, Op
  <2> QED
    BY <1>1, <2>1, <2>3 DEF CommitAppend, TypeOK, sender
<1>2. ASSUME NEW m \in Message, RefuseAppend(m) PROVE TypeOK'
  <2>1. QueueTypeOK'
    BY <1>2, QueueTypes DEF RefuseAppend, TypeOK, QueueTypeOK
  <2>2. call' \in Call \cup {NoCall} /\ late' \in SUBSET Request
    BY <1>2, CallFields DEF RefuseAppend, Awaited, TypeOK, Stage, Op
  <2> QED
    BY <1>2, <2>1, <2>2 DEF RefuseAppend, TypeOK, sender
<1>3. ASSUME NEW i \in tasks, Answer(i) PROVE TypeOK'
  <2>1. QueueTypeOK'
    BY <1>3, QueueTypes DEF Answer, TypeOK, QueueTypeOK
  <2>2. call' \in Call \cup {NoCall}
    BY <1>3 DEF Answer, TypeOK, Call, Stage, NoCall
  <2> QED
    BY <1>3, <2>1, <2>2 DEF Answer, TypeOK, sender
<1>4. ASSUME BindSend PROVE TypeOK'
  <2>1. QueueTypeOK'
    BY <1>4, QueueTypes DEF BindSend, TypeOK, QueueTypeOK
  <2>2. call' \in Call \cup {NoCall} /\ late' \in SUBSET Request
    BY <1>4, CallFields DEF BindSend, TypeOK, Stage, Op
  <2> QED
    BY <1>4, <2>1, <2>2 DEF BindSend, TypeOK, sender
<1>5. ASSUME OtherBinds PROVE TypeOK'
  BY <1>5, QueueTypes DEF OtherBinds, TypeOK, QueueTypeOK, sender
<1>6. ASSUME NEW r \in late, LoseRequest(r) PROVE TypeOK'
  BY <1>6, QueueTypes DEF LoseRequest, TypeOK, QueueTypeOK, sender
<1>7. ASSUME NEW i \in held, ReaderAcks(i) PROVE TypeOK'
  <2>1. QueueTypeOK'
    BY <1>7, QueueTypes DEF ReaderAcks, TypeOK, QueueTypeOK
  <2> QED
    BY <1>7, <2>1 DEF ReaderAcks, TypeOK, sender
<1>8. ASSUME Expire PROVE TypeOK'
  <2>1. QueueTypeOK'
    BY <1>8, QueueTypes DEF Expire, TypeOK, QueueTypeOK
  <2> QED
    BY <1>8, <2>1 DEF Expire, TypeOK, sender
<1>9. ASSUME NEW m \in Message, Send(m) PROVE TypeOK'
  <2>1. QueueTypeOK'
    BY <1>9, QueueTypes DEF Send, TypeOK, QueueTypeOK
  <2>2. box' \in [Message -> {"none", "pending", "accepted", "failed", "cancelled"}]
    BY <1>9 DEF Send, Stored, TypeOK
  <2>3. CASE Deliver(m)
    <3>1. call' \in Call /\ late' \in SUBSET Request
      BY <2>3, AskType DEF Deliver, Op
    <3> QED
      BY <1>9, <2>1, <2>2, <2>3, <3>1 DEF Send, Deliver, TypeOK
  <2>4. CASE UNCHANGED <<bind, call, late>>
    BY <1>9, <2>1, <2>2, <2>4 DEF Send, TypeOK
  <2> QED
    BY <1>9, <2>3, <2>4 DEF Send
<1>10. ASSUME NEW m \in Message, Cancel(m) PROVE TypeOK'
  BY <1>10, QueueTypes DEF Cancel, TypeOK, QueueTypeOK
<1>11. ASSUME Bound PROVE TypeOK'
  <2>1. QueueTypeOK'
    BY <1>11, QueueTypes DEF Bound, TypeOK, QueueTypeOK
  <2>2. call.msg \in Message
    BY <1>11, CallFields DEF Bound, Op
  <2>3. call' \in Call \cup {NoCall} /\ late' \in SUBSET Request
    <3>1. CASE Ask("append", call.msg, FALSE)
      BY <2>2, <3>1, AskType DEF Op
    <3>2. CASE call' = NoCall /\ late' = late
      BY <3>2 DEF TypeOK
    <3> QED
      BY <1>11, <3>1, <3>2 DEF Bound
  <2> QED
    BY <1>11, <2>1, <2>3 DEF Bound, TypeOK
<1>12. ASSUME Stolen PROVE TypeOK'
  BY <1>12, QueueTypes DEF Stolen, TypeOK, QueueTypeOK
<1>13. ASSUME Accepted PROVE TypeOK'
  BY <1>13, QueueTypes DEF Accepted, TypeOK, QueueTypeOK
<1>14. ASSUME Failed PROVE TypeOK'
  BY <1>14, QueueTypes DEF Failed, TypeOK, QueueTypeOK
<1>15. ASSUME Unanswered PROVE TypeOK'
  <2>1. QueueTypeOK'
    BY <1>15, QueueTypes DEF Unanswered, TypeOK, QueueTypeOK
  <2>2. call' \in Call /\ late' \in SUBSET Request
    BY <1>15, CallFields, LeftBehindType DEF Unanswered, Stage
  <2> QED
    BY <1>15, <2>1, <2>2 DEF Unanswered, TypeOK
<1>16. ASSUME SenderCrash PROVE TypeOK'
  <2>1. QueueTypeOK'
    BY <1>16, QueueTypes DEF SenderCrash, TypeOK, QueueTypeOK
  <2> QED
    BY <1>16, <2>1, LeftBehindType DEF SenderCrash, TypeOK
<1>17. ASSUME SenderRestart PROVE TypeOK'
  BY <1>17, QueueTypes DEF SenderRestart, TypeOK, QueueTypeOK
<1>18. ASSUME RelayCrash PROVE TypeOK'
  <2>1. QueueTypeOK'
    BY <1>18, QueueTypes DEF RelayCrash, TypeOK, QueueTypeOK
  <2>2. call' \in Call \cup {NoCall}
    BY <1>18, CallFields DEF RelayCrash, Idle, TypeOK, Stage, Op, Call
  <2> QED
    BY <1>18, <2>1, <2>2 DEF RelayCrash, TypeOK
<1>19. ASSUME UNCHANGED vars PROVE TypeOK'
  BY <1>19 DEF vars, sender, queue, TypeOK, QueueTypeOK, Indices
<1> QED
  BY <1>1, <1>2, <1>3, <1>4, <1>5, <1>6, <1>7, <1>8, <1>9, <1>10, <1>11, <1>12,
    <1>13, <1>14, <1>15, <1>16, <1>17, <1>18, <1>19 DEF Next, Relay, Engine

-----------------------------------------------------------------------------
\* An alarm stays true, and the queue keeps its log, whatever request is under
\* way.
LEMMA LogStep ==
  ASSUME TypeOK, LogIsKept,
         \/ \E m \in Message : Write(m)
         \/ \E i \in held : Acknowledge(i)
         \/ ExpireOldest
         \/ UNCHANGED queue
  PROVE  /\ LogIsKept'
         /\ \A i \in Indices : i \in Indices' /\ log'[i] = log[i]
<1>1. CASE \E m \in Message : Write(m)
  <2>1. PICK m \in Message : Write(m)
    BY <1>1
  <2> QED
    BY <2>1, WriteExtends DEF LogIsKept, Write
<1>2. CASE \E i \in held : Acknowledge(i)
  BY <1>2 DEF LogIsKept, Acknowledge, TypeOK, QueueTypeOK, Indices
<1>3. CASE ExpireOldest
  BY <1>3 DEF LogIsKept, ExpireOldest, Indices
<1>4. CASE UNCHANGED queue
  BY <1>4 DEF LogIsKept, queue, Indices
<1> QED
  BY <1>1, <1>2, <1>3, <1>4

\* What was said of the log stays true as it grows.
LEMMA AnswersStay ==
  ASSUME AnswersAreTrue,
         \A i \in Indices : i \in Indices' /\ log'[i] = log[i],
         \A m \in Message : box'[m] = "accepted" => box[m] = "accepted",
         call'.op = "append" /\ call'.stage \in {"committed", "ok"}
           => /\ call.op = "append" /\ call.stage \in {"committed", "ok"}
              /\ call'.index = call.index /\ call'.msg = call.msg
  PROVE  AnswersAreTrue'
  BY DEF AnswersAreTrue

\* Every step keeps the invariant.
LEMMA InvStep == TypeOK /\ IInv /\ [Next]_vars => IInv'
<1> SUFFICES ASSUME TypeOK, IInv, [Next]_vars PROVE IInv'
  OBVIOUS
<1> USE Requests DEF IInv
<1>1. ASSUME NEW m \in Message, CommitAppend(m) PROVE IInv'
  <2>1. LogIsKept' /\ \A i \in Indices : i \in Indices' /\ log'[i] = log[i]
    BY <1>1, LogStep DEF CommitAppend
  <2>2. CASE Awaited("append", m) /\ UNCHANGED late
    <3>1. /\ call \in Call /\ call.op = "append" /\ call.msg = m
          /\ call' = [call EXCEPT !.stage = "committed", !.index = Len(log) + 1]
      BY <1>1, <2>2, CallFields DEF CommitAppend, Awaited, Op, AppendOf
    <3>2. call'.op = "append" /\ call'.msg = m /\ call'.index = Len(log) + 1
      BY <3>1 DEF Call
    <3>3. FirstBindIsFirst' /\ NoFalseAlarm'
      BY <1>1, <2>2, <3>1, <3>2 DEF CommitAppend, FirstBindIsFirst, NoFalseAlarm, sender
    <3>4. AnswersAreTrue'
      BY <1>1, <2>1, <3>2, WriteExtends DEF CommitAppend, AnswersAreTrue, sender
    <3> QED
      BY <2>1, <3>3, <3>4
  <2>3. CASE late' = late \ {AppendOf(m)} /\ UNCHANGED call
    <3>1. FirstBindIsFirst' /\ NoFalseAlarm'
      BY <1>1, <2>3 DEF CommitAppend, FirstBindIsFirst, NoFalseAlarm, sender
    <3>2. AnswersAreTrue'
      BY <1>1, <2>1, <2>3, AnswersStay DEF CommitAppend, sender
    <3> QED
      BY <2>1, <3>1, <3>2
  <2> QED
    BY <1>1, <2>2, <2>3 DEF CommitAppend
<1>2. ASSUME NEW m \in Message, RefuseAppend(m) PROVE IInv'
  <2>1. LogIsKept' /\ \A i \in Indices : i \in Indices' /\ log'[i] = log[i]
    BY <1>2, LogStep DEF RefuseAppend
  <2>2. /\ call'.op = call.op
        /\ call'.op = "bind" \/ call'.stage \in {"committed", "ok"} => call' = call
        /\ late' \subseteq late
    BY <1>2, CallFields DEF RefuseAppend, Awaited, Op, Call, AppendOf
  <2>3. FirstBindIsFirst' /\ NoFalseAlarm'
    BY <1>2, <2>2 DEF RefuseAppend, FirstBindIsFirst, NoFalseAlarm, sender
  <2>4. AnswersAreTrue'
    BY <1>2, <2>1, <2>2, AnswersStay DEF RefuseAppend, sender
  <2> QED
    BY <2>1, <2>3, <2>4
<1>3. ASSUME NEW i \in tasks, Answer(i) PROVE IInv'
  <2>1. LogIsKept' /\ \A j \in Indices : j \in Indices' /\ log'[j] = log[j]
    BY <1>3, LogStep DEF Answer
  <2>2. \/ call' = call
        \/ /\ call \in Call /\ call.stage = "committed"
           /\ call' = [call EXCEPT !.stage = "ok"]
    BY <1>3 DEF Answer, TypeOK
  <2>3. /\ call'.op = call.op /\ call'.first = call.first
        /\ call'.index = call.index /\ call'.msg = call.msg
        /\ call'.stage \in {"sent", "taken"} => call' = call
        /\ call'.stage \in {"committed", "ok"} => call.stage \in {"committed", "ok"}
    BY <2>2 DEF Call
  <2>4. FirstBindIsFirst' /\ NoFalseAlarm'
    BY <1>3, <2>3 DEF Answer, FirstBindIsFirst, NoFalseAlarm, sender
  <2>5. AnswersAreTrue'
    BY <1>3, <2>1, <2>3, AnswersStay DEF Answer, sender
  <2> QED
    BY <2>1, <2>4, <2>5
<1>4. ASSUME BindSend PROVE IInv'
  <2>1. LogIsKept' /\ \A i \in Indices : i \in Indices' /\ log'[i] = log[i]
    BY <1>4, LogStep DEF BindSend
  <2>2. /\ bound' = IF bound = "nobody" THEN "sender" ELSE bound
        /\ UNCHANGED <<box, bind, alarm, queue>>
    BY <1>4 DEF BindSend, sender
  <2>3. CASE call.op = "bind" /\ call.stage = "sent" /\ late' = late
             /\ call' = [call EXCEPT !.stage = IF bound = "nobody" THEN "ok" ELSE "taken"]
    <3>1. /\ call'.op = "bind" /\ call'.first = call.first
          /\ call'.stage = IF bound = "nobody" THEN "ok" ELSE "taken"
      BY <2>3, CallFields DEF Call, Op
    <3>2. FirstBindIsFirst'
      BY <2>2, <2>3, <3>1 DEF FirstBindIsFirst, TypeOK
    <3>3. NoFalseAlarm'
      BY <2>2 DEF NoFalseAlarm
    <3>4. AnswersAreTrue'
      BY <2>1, <2>2, <3>1, AnswersStay
    <3> QED
      BY <2>1, <3>2, <3>3, <3>4
  <2>4. CASE BindRequest \in late /\ late' = late \ {BindRequest} /\ call' = call
    <3>1. FirstBindIsFirst' /\ NoFalseAlarm'
      BY <2>2, <2>4 DEF FirstBindIsFirst, NoFalseAlarm
    <3>2. AnswersAreTrue'
      BY <2>1, <2>2, <2>4, AnswersStay
    <3> QED
      BY <2>1, <3>1, <3>2
  <2> QED
    BY <1>4, <2>3, <2>4 DEF BindSend
<1>5. ASSUME OtherBinds PROVE IInv'
  BY <1>5 DEF OtherBinds, sender, queue, Indices, FirstBindIsFirst, NoFalseAlarm, LogIsKept, AnswersAreTrue
<1>6. ASSUME NEW r \in late, LoseRequest(r) PROVE IInv'
  BY <1>6 DEF LoseRequest, sender, queue, Indices, FirstBindIsFirst, NoFalseAlarm, LogIsKept, AnswersAreTrue
<1>7. ASSUME NEW i \in held, ReaderAcks(i) PROVE IInv'
  <2>1. LogIsKept' /\ \A j \in Indices : j \in Indices' /\ log'[j] = log[j]
    BY <1>7, LogStep DEF ReaderAcks
  <2>2. UNCHANGED <<bound, call, late, box, bind, alarm>>
    BY <1>7 DEF ReaderAcks, sender
  <2> QED
    BY <2>1, <2>2, AnswersStay DEF FirstBindIsFirst, NoFalseAlarm
<1>8. ASSUME Expire PROVE IInv'
  <2>1. LogIsKept' /\ \A j \in Indices : j \in Indices' /\ log'[j] = log[j]
    BY <1>8, LogStep DEF Expire
  <2>2. UNCHANGED <<bound, call, late, box, bind, alarm>>
    BY <1>8 DEF Expire, sender
  <2> QED
    BY <2>1, <2>2, AnswersStay DEF FirstBindIsFirst, NoFalseAlarm
<1>9. ASSUME UNCHANGED queue, NoFalseAlarm', FirstBindIsFirst', AnswersAreTrue' PROVE IInv'
  BY <1>9, LogStep
<1>10. ASSUME NEW m \in Message, Send(m) PROVE IInv'
  <2>1. \A x \in Message : box'[x] = "accepted" => box[x] = "accepted"
    BY <1>10 DEF Send, Stored, TypeOK
  <2>2. UNCHANGED <<queue, bound, alarm>> /\ call = NoCall
    BY <1>10 DEF Send, Idle
  <2>3. NoFalseAlarm'
    BY <2>2 DEF NoFalseAlarm
  <2>4. CASE Deliver(m)
    <3>1. CASE bind = "Confirmed" /\ Ask("append", m, FALSE) /\ bind' = bind
      <4>1. call'.op = "append" /\ call'.stage \in {"sent", "violation", "unreachable"}
        BY <3>1, AskType DEF Op
      <4> QED
        BY <1>9, <2>1, <2>2, <2>3, <3>1, <4>1, AnswersStay DEF FirstBindIsFirst, queue, Indices
    <3>2. CASE bind # "Confirmed" /\ Ask("bind", m, bind = "Fresh") /\ bind' = "OutcomeUnknown"
      <4>1. /\ call'.op = "bind" /\ call'.first = (bind = "Fresh")
            /\ call'.stage \in {"sent", "violation", "unreachable"}
            /\ call'.stage = "sent" => late' = late
        BY <3>2, AskType DEF Op
      <4>2. FirstBindIsFirst'
        BY <2>2, <3>2, <4>1 DEF FirstBindIsFirst
      <4> QED
        BY <1>9, <2>1, <2>2, <2>3, <4>1, <4>2, AnswersStay DEF queue, Indices
    <3> QED
      BY <2>4, <3>1, <3>2 DEF Deliver
  <2>5. CASE UNCHANGED <<bind, call, late>>
    BY <1>9, <2>1, <2>2, <2>3, <2>5, AnswersStay DEF FirstBindIsFirst, queue, Indices
  <2> QED
    BY <1>10, <2>4, <2>5 DEF Send
<1>11. ASSUME NEW m \in Message, Cancel(m) PROVE IInv'
  <2>1. \A x \in Message : box'[x] = "accepted" => box[x] = "accepted"
    BY <1>11 DEF Cancel, TypeOK
  <2> QED
    BY <1>9, <1>11, <2>1, AnswersStay DEF Cancel, FirstBindIsFirst, NoFalseAlarm, queue, Indices
<1>12. ASSUME Bound PROVE IInv'
  <2>1. UNCHANGED <<queue, bound, box, alarm>> /\ call.op = "bind"
    BY <1>12 DEF Bound
  <2>2. bind # "Fresh" /\ bind' # "Fresh"
    BY <1>12, <2>1 DEF Bound, FirstBindIsFirst
  <2>3. \/ call' = NoCall
        \/ call'.op = "append" /\ call'.stage \in {"sent", "violation", "unreachable"}
    BY <1>12, <2>1, CallFields, AskType DEF Bound, Op
  <2> QED
    BY <1>9, <2>1, <2>2, <2>3, AnswersStay DEF FirstBindIsFirst, NoFalseAlarm, queue, Indices
<1>13. ASSUME Stolen PROVE IInv'
  <2>1. bound = "other" /\ bind # "Fresh" /\ bound' = bound /\ bind' = bind
    BY <1>13 DEF Stolen, FirstBindIsFirst
  <2>2. \A x \in Message : box'[x] = "accepted" => box[x] = "accepted"
    BY <1>13, CallFields DEF Stolen, TypeOK, Op
  <2>3. UNCHANGED queue /\ call' = NoCall
    BY <1>13 DEF Stolen
  <2> QED
    BY <1>9, <2>1, <2>2, <2>3, AnswersStay DEF FirstBindIsFirst, NoFalseAlarm, queue, Indices
<1>14. ASSUME Accepted PROVE IInv'
  <2>1. /\ UNCHANGED <<queue, bound, late, alarm>> /\ call' = NoCall
        /\ bind' \in {bind, "Confirmed"}
        /\ call.op = "append" /\ call.stage = "ok"
    BY <1>14 DEF Accepted
  <2>2. \A x \in Message : box'[x] = "accepted" => box[x] = "accepted" \/ x = call.msg
    BY <1>14 DEF Accepted, TypeOK
  <2>3. AnswersAreTrue'
    BY <2>1, <2>2 DEF AnswersAreTrue, queue, Indices
  <2> QED
    BY <1>9, <2>1, <2>3 DEF FirstBindIsFirst, NoFalseAlarm
<1>15. ASSUME Failed PROVE IInv'
  <2>1. \A x \in Message : box'[x] = "accepted" => box[x] = "accepted"
    BY <1>15, CallFields DEF Failed, TypeOK, Op
  <2>2. UNCHANGED <<queue, bound, late, bind, alarm>> /\ call' = NoCall
    BY <1>15 DEF Failed
  <2> QED
    BY <1>9, <2>1, <2>2, AnswersStay DEF FirstBindIsFirst, NoFalseAlarm, queue, Indices
<1>16. ASSUME Unanswered PROVE IInv'
  <2>1. UNCHANGED <<queue, bound, box, bind, alarm>> /\ late' = LeftBehind
    BY <1>16 DEF Unanswered
  <2>2. call'.op = call.op /\ call'.stage = "unreachable"
    BY <1>16, CallFields DEF Unanswered, Call
  <2> QED
    BY <1>9, <2>1, <2>2, LeftBehindType, AnswersStay DEF FirstBindIsFirst, NoFalseAlarm, queue, Indices
<1>17. ASSUME SenderCrash PROVE IInv'
  <2>1. UNCHANGED <<queue, bound, box, bind>> /\ late' = LeftBehind /\ call' = NoCall
    BY <1>17 DEF SenderCrash
  <2>2. NoFalseAlarm'
    BY <1>17 DEF SenderCrash, NoFalseAlarm
  <2> QED
    BY <1>9, <2>1, <2>2, LeftBehindType, AnswersStay DEF FirstBindIsFirst, queue, Indices
<1>18. ASSUME SenderRestart PROVE IInv'
  <2>1. UNCHANGED <<queue, bound, call, late, box, bind>>
    BY <1>18 DEF SenderRestart
  <2>2. NoFalseAlarm'
    BY <1>18 DEF SenderRestart, NoFalseAlarm
  <2> QED
    BY <1>9, <2>1, <2>2, AnswersStay DEF FirstBindIsFirst, queue, Indices
<1>19. ASSUME RelayCrash PROVE IInv'
  <2>1. UNCHANGED <<queue, bound, box, bind, alarm>> /\ late' = {}
    BY <1>19 DEF RelayCrash
  <2>2. /\ call'.op = call.op
        /\ call' = NoCall \/ call'.stage = "unreachable"
    BY <1>19 DEF RelayCrash, Idle, TypeOK, Call
  <2> QED
    BY <1>9, <2>1, <2>2, AnswersStay DEF FirstBindIsFirst, NoFalseAlarm, queue, Indices
<1>20. ASSUME UNCHANGED vars PROVE IInv'
  BY <1>9, <1>20, AnswersStay
     DEF vars, sender, queue, Indices, FirstBindIsFirst, NoFalseAlarm
<1> QED
  BY <1>1, <1>2, <1>3, <1>4, <1>5, <1>6, <1>7, <1>8, <1>10, <1>11, <1>12,
    <1>13, <1>14, <1>15, <1>16, <1>17, <1>18, <1>19, <1>20 DEF Next, Relay, Engine

-----------------------------------------------------------------------------
\* The invariant holds of a fresh queue and a fresh advert.
LEMMA InvInit == Init => TypeOK /\ IInv
<1> SUFFICES ASSUME Init PROVE TypeOK /\ IInv
  OBVIOUS
<1>1. TypeOK
  BY DEF Init, QueueInit, TypeOK, QueueTypeOK, Indices
<1>2. IInv
  BY Requests DEF Init, QueueInit, Indices, IInv, FirstBindIsFirst, NoFalseAlarm,
    LogIsKept, AnswersAreTrue
<1> QED
  BY <1>1, <1>2

\* Hence it holds forever.
THEOREM Invariance == Spec => [](TypeOK /\ IInv)
<1>1. TypeOK /\ IInv /\ [Next]_vars => (TypeOK /\ IInv)'
  BY TypeStep, InvStep
<1> QED
  BY InvInit, <1>1, PTL DEF Spec

\* Every variable keeps its type.
THEOREM TypeCorrect == Spec => []TypeOK
BY Invariance, PTL

\* A message the sender takes for accepted was committed by the relay, and is
\* there until it is acknowledged or expires (engine.rs, commit_append).
THEOREM AcceptedStored == Spec => []AcceptedIsStored
<1>1. IInv => AcceptedIsStored
  BY DEF IInv, LogIsKept, AnswersAreTrue, AcceptedIsStored
<1> QED
  BY Invariance, <1>1, PTL

\* An alarm of theft is true, for any number of lost answers, crashes and
\* retries (engine.rs, ensure_bound).
THEOREM AlarmsAreTrue == Spec => []NoFalseAlarm
BY Invariance, PTL DEF IInv

=============================================================================
