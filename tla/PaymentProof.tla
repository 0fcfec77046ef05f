---------------------------- MODULE PaymentProof ----------------------------
(***************************************************************************)
(* The read-only proofs of rs/zcash-payment-hooks/src/proof.rs: an         *)
(* application asks, right before it commits an external effect, whether   *)
(* an event still holds (verify), or whether a payment is received now     *)
(* (verify_payment), which needs no event and so reaches payments below    *)
(* the automation floor.  The verifier reads the journal, asks the node,   *)
(* and reads the journal again, all while the scanner rewrites the journal *)
(* and the node's best chain moves.                                        *)
(***************************************************************************)
EXTENDS PaymentScanner

VARIABLES
  step,       \* next step of the verifier; "idle" and "proved" are its ends
  claim,      \* the event, or the record of the payment, to prove
  proofTip,   \* height of the tip the proof is measured against
  proofHash,  \* the block at that height
  proofViews  \* history: every best tip since this proof began

proofVars == <<step, claim, proofTip, proofHash, proofViews>>
allVars   == <<svars, proofVars>>

\* A record's phase says whether it is confirmed.
Claim(of, id, b) == [of |-> of, id |-> id, block |-> b]
NoClaim == Claim("event", Id(CHOOSE p \in Payment : TRUE, 0, "revoked"), NoBlock)

ProofInit ==
  /\ ScanInit
  /\ step = "idle" /\ claim = NoClaim
  /\ proofTip = 0 /\ proofHash = NoBlock /\ proofViews = {}

\* Journal::proof_event accepts this event in the journal's present state.
Holds(e) ==
  LET r == receipts[e.id.payment]
  IN /\ \E f \in events : f.id = e.id
     /\ IF e.id.phase = "revoked"
        THEN r.rev > e.id.rev \/ (r.rev = e.id.rev /\ ~r.active)
        ELSE /\ Current(e.id)
             /\ r.block = e.block
             /\ \E i \in DOMAIN chain : chain[i] = e.block
             /\ ready

\* Journal::proof_payment answers for this payment, with this record.
Received(p) ==
  /\ receipts[p].active
  /\ ready
  /\ \E i \in DOMAIN chain : chain[i] = receipts[p].block

RecordOf(p) ==
  Claim("payment",
        Id(p, receipts[p].rev, IF receipts[p].confirmed THEN "confirmed" ELSE "observed"),
        receipts[p].block)

Begin(c) ==
  /\ step \in {"idle", "proved"}
  /\ claim' = c
  /\ step' = "tip"
  /\ proofViews' = {best}
  /\ UNCHANGED <<svars, proofTip, proofHash>>

BeginProof(e) == Holds(e) /\ Begin(Claim("event", e.id, e.block))

BeginPayment(p) == Received(p) /\ Begin(RecordOf(p))

ProofTip ==
  /\ step = "tip" /\ step' = "anchor"
  /\ proofTip' = Height[best]
  /\ UNCHANGED <<svars, claim, proofHash, proofViews>>

ProofAnchor ==
  /\ step = "anchor"
  /\ proofHash' \in HashAt(proofTip)
  /\ step' = IF claim.id.phase = "revoked" THEN "recheck" ELSE "inclusion"
  /\ UNCHANGED <<svars, claim, proofTip, proofViews>>

ProofDepth ==
  /\ proofTip >= Height[claim.block]
  /\ claim.id.phase = "confirmed" => proofTip - Height[claim.block] + 1 >= Depth

\* Mutant: the journal's word is taken for the block being canonical.
ProofInclusionTrusted ==
  /\ step = "inclusion" /\ step' = "recheck"
  /\ ProofDepth
  /\ UNCHANGED <<svars, claim, proofTip, proofHash, proofViews>>

ProofInclusion ==
  /\ step = "inclusion" /\ step' = "recheck"
  /\ claim.block \in HashAt(Height[claim.block])
  /\ ProofDepth
  /\ UNCHANGED <<svars, claim, proofTip, proofHash, proofViews>>

ProofRecheck ==
  /\ step = "recheck" /\ step' = "reread"
  /\ proofHash \in HashAt(proofTip)
  /\ UNCHANGED <<svars, claim, proofTip, proofHash, proofViews>>

\* Mutant: the journal is not read again after the RPCs.
ProofRereadSkipped ==
  /\ step = "reread" /\ step' = "proved"
  /\ UNCHANGED <<svars, claim, proofTip, proofHash, proofViews>>

ProofReread ==
  /\ step = "reread" /\ step' = "proved"
  /\ IF claim.of = "event"
       THEN Holds(claim)
       ELSE Received(claim.id.payment) /\ RecordOf(claim.id.payment) = claim
  /\ UNCHANGED <<svars, claim, proofTip, proofHash, proofViews>>

\* A check or an RPC fails, or the 20 second deadline passes.
ProofRefused ==
  /\ step' = "idle" /\ step # "idle"
  /\ UNCHANGED <<svars, claim, proofTip, proofHash, proofViews>>

Verifier ==
  \/ \E e \in events : BeginProof(e)
  \/ \E p \in Payment : BeginPayment(p)
  \/ ProofTip \/ ProofAnchor \/ ProofInclusion \/ ProofRecheck \/ ProofReread
  \/ ProofRefused

\* A freshness deadline or lease passes.
EvidenceLapses ==
  /\ ready' = FALSE /\ ready
  /\ UNCHANGED <<jvars, node, local, pc, views, fails, stops>>

Surroundings ==
  /\ ScanNext \/ EvidenceLapses
  /\ proofViews' = IF step = "proved" THEN proofViews ELSE proofViews \cup {best'}
  /\ UNCHANGED <<step, claim, proofTip, proofHash>>

ProofSpec == ProofInit /\ [][Verifier \/ Surroundings]_allVars

-----------------------------------------------------------------------------
\* A proof of a positive event or of a payment shows that, at one instant while
\* it was made, the block it names was on the node's best chain with the
\* confirmations it claims, although its depth, its inclusion and the tip are
\* separate RPCs.
ProofIsSound ==
  step = "proved" /\ claim.id.phase \in Positive =>
    \E t \in proofViews : /\ claim.block \in Branch[t]
                          /\ claim.id.phase = "confirmed" => HasDepth(claim.block, t)

\* Neither a positive event nor a payment is proved any more once its revision,
\* or a later one, is revoked in the log, although the RPCs of a proof leave the
\* scanner time to revoke it: whoever proved or was delivered the revocation has
\* the last word.
RevocationOutlivesProof ==
  [][step = "reread" /\ step' = "proved" /\ claim.id.phase \in Positive =>
       ~ \E id \in Published : /\ id.payment = claim.id.payment
                               /\ id.phase = "revoked" /\ id.rev >= claim.id.rev]_allVars
=============================================================================
