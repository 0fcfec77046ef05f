--------------------------- MODULE PaymentPromise ---------------------------
(***************************************************************************)
(* What the payment daemon promises to its hooks, without its journal:     *)
(* docs/zcash-payment-hooks/CONTRACT.md, "Lifecycle and delivery".         *)
(*                                                                         *)
(* A hook may act on a revision of a payment.  The chain may withdraw a    *)
(* revision, once and for all.  A hook never acts on a withdrawn revision, *)
(* nor on a new revision before it has been told of the withdrawal of      *)
(* every earlier one it acted on; and it is told eventually.               *)
(***************************************************************************)
EXTENDS Naturals

CONSTANTS Consumer, Payment, Revision

VARIABLES
  granted,    \* <<c, p, r>>: c's hook was started on revision r of payment p
  withdrawn,  \* <<p, r>>: revision r of payment p was orphaned or lost depth
  corrected   \* <<c, p, r>>: c's hook completed the revocation of r

pvars == <<granted, withdrawn, corrected>>

Init == granted = {} /\ withdrawn = {} /\ corrected = {}

Grant(c, p, r) ==
  /\ <<p, r>> \notin withdrawn
  /\ \A q \in Revision : q < r /\ <<c, p, q>> \in granted
                           => <<c, p, q>> \in corrected
  /\ granted' = granted \cup {<<c, p, r>>}
  /\ UNCHANGED <<withdrawn, corrected>>

Withdraw(revs) ==
  /\ withdrawn' = withdrawn \cup revs
  /\ UNCHANGED <<granted, corrected>>

Correct(c, p, r) ==
  /\ <<p, r>> \in withdrawn
  /\ corrected' = corrected \cup {<<c, p, r>>}
  /\ UNCHANGED <<granted, withdrawn>>

Next ==
  \/ \E c \in Consumer, p \in Payment, r \in Revision :
       Grant(c, p, r) \/ Correct(c, p, r)
  \/ \E revs \in SUBSET (Payment \X Revision) : Withdraw(revs)

Safe == Init /\ [][Next]_pvars

Spec == /\ Safe
        /\ \A c \in Consumer, p \in Payment, r \in Revision :
             WF_pvars(<<c, p, r>> \in granted /\ Correct(c, p, r))
=============================================================================
