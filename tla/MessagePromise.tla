--------------------------- MODULE MessagePromise ---------------------------
(***************************************************************************)
(* What the Pub/Sub outbox promises (py/free2z/dj/apps/jobs/outbox.py),    *)
(* without its table and its relays.  A committed transaction promises a   *)
(* message behind the earlier messages of its ordering key.  The broker    *)
(* gets a message after all of those, unless an operator gives one up; it  *)
(* may get it more than once, and it gets it eventually.                   *)
(***************************************************************************)
EXTENDS Naturals

CONSTANT Message

VARIABLES
  promised,   \* the messages of committed transactions
  ahead,      \* the promised messages each message must not overtake
  delivered,  \* the broker accepted it, once or more
  withdrawn   \* an operator gave it up

pvars == <<promised, ahead, delivered, withdrawn>>

Init ==
  /\ promised = {} /\ delivered = {} /\ withdrawn = {}
  /\ ahead = [m \in Message |-> {}]

Promise(m, before) ==
  /\ m \notin promised
  /\ before \subseteq promised
  /\ promised' = promised \cup {m}
  /\ ahead' = [ahead EXCEPT ![m] = before]
  /\ UNCHANGED <<delivered, withdrawn>>

Deliver(m) ==
  /\ m \in promised
  /\ ahead[m] \subseteq delivered \cup withdrawn
  /\ delivered' = delivered \cup {m}
  /\ UNCHANGED <<promised, ahead, withdrawn>>

Withdraw(m) ==
  /\ m \in promised
  /\ withdrawn' = withdrawn \cup {m}
  /\ UNCHANGED <<promised, ahead, delivered>>

Next ==
  \E m \in Message :
    \/ \E before \in SUBSET Message : Promise(m, before)
    \/ Deliver(m)
    \/ Withdraw(m)

Safe == Init /\ [][Next]_pvars

Spec == /\ Safe
        /\ \A m \in Message : WF_pvars(m \notin withdrawn /\ Deliver(m))
=============================================================================
