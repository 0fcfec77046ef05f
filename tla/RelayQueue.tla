----------------------------- MODULE RelayQueue -----------------------------
(***************************************************************************)
(* One message queue of the relay (rs/crates/f2z-relay, f2z-relay-store)   *)
(* as both its sides see it.  MessageSender composes it with the engine    *)
(* that appends, MessageReceiver with the one that reads.                  *)
(*                                                                         *)
(* A message is known by its ciphertext.  Indices start at 1 here, so      *)
(* next_index is Len(log) + 1 and acked = 0 stands for no watermark.       *)
(* History kept for the properties: log has the messages that were         *)
(* deleted, too, and expired the indices the TTL deleted.                  *)
(*                                                                         *)
(* The queue exists throughout: DELETE_QUEUE and the 90 days of an idle    *)
(* queue are left out.  Several appends may share a transaction; one each  *)
(* here, as nothing can be told between two appends of a batch.            *)
(***************************************************************************)
EXTENDS Naturals, Sequences, FiniteSets

CONSTANTS
  Message,
  Quota,       \* stored messages the queue's quota admits
  MaxLog,      \* bound on appends
  MaxTrouble   \* bound on crashes, failures and lost answers

ASSUME RelayAssumption ==
  Quota \in Nat \ {0} /\ MaxLog \in Nat /\ MaxTrouble \in Nat

VARIABLES
  log,      \* the messages appended, in index order
  held,     \* the indices whose message the relay still has
  acked,    \* acked_through
  expired,  \* history: indices that expire() deleted
  tasks,    \* committed appends whose task has not pushed and answered
  trouble

queue == <<log, held, acked, expired>>

Indices == DOMAIN log

QueueTypeOK ==
  /\ log \in Seq(Message)
  /\ held \in SUBSET Indices /\ expired \in SUBSET Indices /\ tasks \in SUBSET Indices
  /\ acked \in Nat
  /\ trouble \in Nat

QueueInit ==
  /\ log = <<>> /\ held = {} /\ acked = 0 /\ expired = {}
  /\ tasks = {}
  /\ trouble = 0

Happens  == trouble < MaxTrouble /\ trouble' = trouble + 1
Smoothly == trouble' = trouble

-----------------------------------------------------------------------------
\* admit(): a full queue refuses, and never makes room.
HasRoom == Cardinality(held) < Quota

\* append_one() and its commit; the append's task is told the index.
Write(m) ==
  /\ Len(log) < MaxLog
  /\ HasRoom
  /\ log' = Append(log, m)
  /\ held' = held \cup {Len(log) + 1}
  /\ tasks' = tasks \cup {Len(log) + 1}
  /\ UNCHANGED <<acked, expired>>

\* read_page(): the first messages held from an index on, which is never
\* below the watermark.
Readable(from) == {i \in held : i >= from /\ i > acked}
Page(from, size) ==
  {i \in Readable(from) : Cardinality({j \in Readable(from) : j < i}) < size}

\* ack(): cumulative and monotone; the watermark and the deletion are one
\* transaction.
Acknowledge(through) ==
  /\ acked' = IF through > acked THEN through ELSE acked
  /\ held' = {i \in held : i > through}
  /\ UNCHANGED <<log, expired>>

\* expire(): the TTL of the oldest message runs out and a sweep deletes it;
\* the watermark stays.
ExpireOldest ==
  \E i \in held :
    /\ \A j \in held : i <= j
    /\ held' = held \ {i}
    /\ expired' = expired \cup {i}
    /\ UNCHANGED <<log, acked>>
=============================================================================
