------------------------- MODULE RecoveryScript_proofs -------------------------
(***************************************************************************)
(* Theorems about RecoveryScript, and the timeline of its rows, for every  *)
(* number of operators, all bounds and all direct-minting settings.        *)
(***************************************************************************)
EXTENDS RecoveryTimeline, DirectMintQuote_proofs, SequenceTheorems, FiniteSetTheorems

---------------------------------------------------------------------------
(* The inductive invariant                                                 *)

Attested  == {"RECOVERY_FDC_REQUESTED"} \cup Proved
Finalized == {"RECOVERY_PAYMENT_FINALIZED"} \cup Attested

\* Only a payment that was validated is ever attested.
RequestsAttest ==
    \A f \in DOMAIN fdcTxs :
        /\ fdcTxs[f].pay \in DOMAIN payments
        /\ payments[fdcTxs[f].pay].state = "validated"

Minting(i, kind) == i \in DOMAIN mints /\ mints[i].kind = kind

\* What the row's status says of the payment, the attestation and the mints it names.
RowBacked ==
    /\ job.status # "RECOVERY_REQUIRED" => job.payment \in DOMAIN payments
    /\ job.status \in Attested =>
         /\ job.round \in DOMAIN fdcTxs
         /\ fdcTxs[job.round] = [pay |-> job.payment, state |-> "mined"]
    /\ job.status = "RECOVERY_FLAG_SUBMITTED" => Minting(job.flagTx, "flag")
    /\ job.status = "RECOVERY_STUCK_SUBMITTED" => Minting(job.retryTx, "retry")
    /\ job.status \in Flagged => MemoIgnored
    /\ job.status = "RECOVERED" \/ keyReleased => StuckUsed

\* What process p has read and sent is still good for its next step: in particular the
\* row's payment is fixed once it is final, so a request made for the payment read
\* earlier is one for the payment of the row.
ReadBacked(p) ==
    /\ pc[p] \in {"submit", "finality"} => seen[p].payment \in DOMAIN payments
    /\ pc[p] \in {"attest", "attested", "ownRound"} =>
         job.status \in Finalized /\ seen[p].payment = job.payment
    /\ pc[p] \in {"attested", "ownRound"} =>
         sent[p] \in DOMAIN fdcTxs /\ fdcTxs[sent[p]].pay = seen[p].payment
    /\ pc[p] \in {"prove", "send", "sent", "receipt"} =>
         seen[p].status \in {"RECOVERY_PROOF_READY", "RECOVERY_FLAG_SET"}
    /\ pc[p] = "reconcile" =>
         seen[p].status \in {"RECOVERY_FLAG_SUBMITTED", "RECOVERY_STUCK_SUBMITTED"}
    /\ pc[p] \in {"sent", "receipt", "reconcile"} => Minting(sent[p], Kind(seen[p].status))

Inv == TypeOK /\ RequestsAttest /\ RowBacked /\ \A p \in Operators : ReadBacked(p)

---------------------------------------------------------------------------
(* What every step keeps                                                   *)

PaymentRecord == [amount : Nat, seq : Nat, state : PaymentStates]
RequestRecord == [pay : Nat, state : {"pending", "mined", "reverted"}]
MintRecord    == [kind : {"flag", "retry"}, state : MintStates]

\* What has happened on the chains stays so.
Grows ==
    /\ DOMAIN payments \subseteq DOMAIN payments'
    /\ \A x \in DOMAIN payments :
         payments[x].state = "validated" => payments'[x].state = "validated"
    /\ DOMAIN fdcTxs \subseteq DOMAIN fdcTxs'
    /\ \A f \in DOMAIN fdcTxs :
         /\ fdcTxs'[f].pay = fdcTxs[f].pay
         /\ fdcTxs[f].state = "mined" => fdcTxs'[f] = fdcTxs[f]
    /\ DOMAIN mints \subseteq DOMAIN mints'
    /\ \A i \in DOMAIN mints :
         /\ mints'[i].kind = mints[i].kind
         /\ mints[i].state = "EXECUTED" => mints'[i].state = "EXECUTED"

\* The row never goes back behind finality, nor to another payment.
RowAdvances ==
    job.status \in Finalized => job'.status \in Finalized /\ job'.payment = job.payment

\* The step is one of process p, which moves to `label`.
MovesOnly(p, label) ==
    /\ pc' = [pc EXCEPT ![p] = label]
    /\ \A q \in Operators \ {p} : seen'[q] = seen[q] /\ sent'[q] = sent[q]

\* From where each recovery status is reached.
LEMMA Moves ==
    ASSUME NEW s \in RecoveryStatuses \cup {"RECOVERY_REQUIRED"}
    PROVE  /\ CanTransition(s, "RECOVERY_PAYMENT_SIGNED") <=>
                s \in {"RECOVERY_REQUIRED", "RECOVERY_PAYMENT_SIGNED"}
           /\ CanTransition(s, "RECOVERY_PAYMENT_FINALIZED") <=>
                s \in {"RECOVERY_PAYMENT_SIGNED", "RECOVERY_PAYMENT_FINALIZED"}
           /\ CanTransition(s, "RECOVERY_FDC_REQUESTED") <=>
                s \in {"RECOVERY_PAYMENT_FINALIZED", "RECOVERY_FDC_REQUESTED"}
           /\ CanTransition(s, "RECOVERY_PROOF_READY") <=>
                s \in {"RECOVERY_FDC_REQUESTED", "RECOVERY_PROOF_READY"}
           /\ CanTransition(s, "RECOVERY_FLAG_SUBMITTED") <=>
                s \in {"RECOVERY_PROOF_READY", "RECOVERY_FLAG_SUBMITTED"}
           /\ CanTransition(s, "RECOVERY_FLAG_SET") <=>
                s \in {"RECOVERY_FLAG_SUBMITTED", "RECOVERY_FLAG_SET"}
           /\ CanTransition(s, "RECOVERY_STUCK_SUBMITTED") <=>
                s \in {"RECOVERY_FLAG_SET", "RECOVERY_STUCK_SUBMITTED"}
           /\ CanTransition(s, "RECOVERED") <=>
                s \in {"RECOVERY_STUCK_SUBMITTED", "RECOVERED"}
  BY DEF CanTransition, Transitions, RecoveryStatuses

\* What is appended to, and what one element is changed in, stays a sequence.
LEMMA Appended ==
    ASSUME NEW S, NEW s \in Seq(S), NEW e \in S, NEW t, t = Append(s, e)
    PROVE  /\ t \in Seq(S) /\ Len(s) \in Nat
           /\ DOMAIN t = DOMAIN s \cup {Len(s) + 1}
           /\ Len(s) + 1 \notin DOMAIN s
           /\ \A i \in DOMAIN s : t[i] = s[i]
           /\ t[Len(s) + 1] = e
  <1>1. Len(s) \in Nat /\ DOMAIN s = 1 .. Len(s)
    BY LenProperties
  <1>2. t \in Seq(S) /\ Len(t) = Len(s) + 1
        /\ (\A i \in 1 .. Len(s) : t[i] = s[i]) /\ t[Len(s) + 1] = e
    BY AppendProperties
  <1>3. DOMAIN t = 1 .. Len(s) + 1
    BY <1>2, LenProperties
  <1> QED BY <1>1, <1>2, <1>3

\* The same for one element that is changed.
LEMMA Replaced ==
    ASSUME NEW S, NEW s \in Seq(S), NEW i \in DOMAIN s, NEW e \in S,
           NEW t, t = [s EXCEPT ![i] = e]
    PROVE  /\ t \in Seq(S) /\ DOMAIN t = DOMAIN s /\ Len(t) = Len(s)
           /\ t[i] = e
           /\ \A j \in DOMAIN s \ {i} : t[j] = s[j]
  <1>1. i \in 1 .. Len(s) /\ DOMAIN s = 1 .. Len(s)
    BY LenProperties
  <1>2. t \in Seq(S) /\ Len(t) = Len(s) /\ \A j \in 1 .. Len(s) : t[j] = IF j = i THEN e ELSE s[j]
    BY <1>1, ExceptSeq
  <1>3. DOMAIN t = 1 .. Len(s)
    BY <1>2, LenProperties
  <1> QED BY <1>1, <1>2, <1>3

\* The elements of the three sequences.
LEMMA WorldTypes ==
    ASSUME TypeOK
    PROVE  /\ \A x \in DOMAIN payments : payments[x] \in PaymentRecord
           /\ \A f \in DOMAIN fdcTxs : fdcTxs[f] \in RequestRecord
           /\ \A i \in DOMAIN mints : mints[i] \in MintRecord
           /\ DOMAIN payments \subseteq Nat /\ DOMAIN fdcTxs \subseteq Nat
           /\ DOMAIN mints \subseteq Nat
  <1>1. payments \in Seq(PaymentRecord) /\ fdcTxs \in Seq(RequestRecord) /\ mints \in Seq(MintRecord)
    BY DEF TypeOK, PaymentRecord, RequestRecord, MintRecord
  <1>2. /\ DOMAIN payments = 1 .. Len(payments) /\ payments \in [1 .. Len(payments) -> PaymentRecord]
        /\ DOMAIN fdcTxs = 1 .. Len(fdcTxs) /\ fdcTxs \in [1 .. Len(fdcTxs) -> RequestRecord]
        /\ DOMAIN mints = 1 .. Len(mints) /\ mints \in [1 .. Len(mints) -> MintRecord]
    BY <1>1, LenProperties
  <1> QED BY <1>2

\* A mint that was executed stays so, and with it what the stages rest on.
LEMMA ExecutedStays ==
    ASSUME Grows
    PROVE  /\ MemoIgnored => MemoIgnored'
           /\ StuckUsed => StuckUsed'
           /\ \A i, k : Minting(i, k) => i \in DOMAIN mints' /\ mints'[i].kind = k
  BY DEF Grows, MemoIgnored, StuckUsed, Executed, Minting

\* A step of one process leaves the others where they were.
LEMMA OneProcessMoves ==
    ASSUME Inv, Grows, RowAdvances, NEW p \in Operators, NEW label \in Labels,
           MovesOnly(p, label), TypeOK', RequestsAttest', RowBacked', ReadBacked(p)'
    PROVE  Inv'
  <1> SUFFICES ASSUME NEW q \in Operators \ {p}
               PROVE  ReadBacked(q)'
    BY DEF Inv
  <1>1. pc'[q] = pc[q] /\ seen'[q] = seen[q] /\ sent'[q] = sent[q]
    BY DEF MovesOnly, Inv, TypeOK
  <1>2. ReadBacked(q)
    BY DEF Inv
  <1>4. pc[q] \in {"submit", "finality"} => seen[q].payment \in DOMAIN payments'
    BY <1>2 DEF ReadBacked, Grows
  <1>5. pc[q] \in {"attest", "attested", "ownRound"} =>
            job'.status \in Finalized /\ seen[q].payment = job'.payment
    BY <1>2 DEF ReadBacked, RowAdvances
  <1>6. pc[q] \in {"attested", "ownRound"} =>
            sent[q] \in DOMAIN fdcTxs' /\ fdcTxs'[sent[q]].pay = seen[q].payment
    BY <1>2 DEF ReadBacked, Grows
  <1>7. pc[q] \in {"sent", "receipt", "reconcile"} =>
            sent[q] \in DOMAIN mints' /\ mints'[sent[q]].kind = Kind(seen[q].status)
    BY <1>2, ExecutedStays DEF ReadBacked
  <1> QED BY <1>1, <1>2, <1>4, <1>5, <1>6, <1>7 DEF ReadBacked, Minting, Kind

\* A step that changes nothing but processes.
LEMMA QuietStep ==
    ASSUME UNCHANGED world
    PROVE  Grows /\ (UNCHANGED job => RowAdvances)
  BY DEF world, Grows, RowAdvances

\* A process that ends, throws or dies has nothing left to be wrong about.
LEMMA LeaveKeepsInv ==
    ASSUME Inv, NEW p \in Operators, Leave(p), UNCHANGED <<row, world>>,
           faults' \in Nat
    PROVE  Inv'
  <1>1. Grows /\ RowAdvances
    BY QuietStep DEF row
  <1>2. MovesOnly(p, "idle") /\ "idle" \in Labels /\ pc'[p] = "idle"
    BY DEF Leave, MovesOnly, Inv, TypeOK, Labels
  <1>3. TypeOK'
    BY DEF Leave, Inv, TypeOK, Labels, Stuck, Job, row, world
  <1>4. RequestsAttest' /\ RowBacked'
    BY DEF Inv, RequestsAttest, RowBacked, MemoIgnored, StuckUsed, Executed, Minting, row, world
  <1>5. ReadBacked(p)'
    BY <1>2 DEF ReadBacked
  <1> QED BY <1>1, <1>2, <1>3, <1>4, <1>5, OneProcessMoves

---------------------------------------------------------------------------
(* The quote                                                               *)

\* The settings are always among those the AssetManager may have.
SettingsKnown == settings \in FeeSettings

\* No step invents settings.
LEMMA NextSettingsKnown == SettingsKnown /\ [Next]_vars => SettingsKnown'
  <1> SUFFICES ASSUME SettingsKnown, [Next]_vars PROVE SettingsKnown'
    OBVIOUS
  <1>1. ASSUME NEW p \in Operators, Start(p) \/ Step(p) \/ Fault(p)
        PROVE  SettingsKnown'
    <2>1. CASE Start(p) \/ Fault(p)
      BY <2>1 DEF Start, Fault, world, SettingsKnown
    <2>2. CASE CheckUnused(p) \/ Read(p) \/ Sign(p) \/ SubmitPayment(p) \/ AwaitFinality(p)
      BY <2>2 DEF CheckUnused, Read, Sign, SubmitPayment, AwaitFinality, world, SettingsKnown
    <2>3. CASE RequestAttestation(p) \/ CheckpointFdcTx(p) \/ OwnRound(p) \/ AwaitProof(p)
      BY <2>3 DEF RequestAttestation, CheckpointFdcTx, OwnRound, AwaitProof, world, SettingsKnown
    <2>4. CASE Simulate(p) \/ Broadcast(p) \/ CheckpointMintTx(p) \/ AwaitReceipt(p) \/ Reject(p)
      BY <2>4 DEF Simulate, Broadcast, CheckpointMintTx, AwaitReceipt, Reject, world, SettingsKnown
    <2> QED BY <1>1, <2>1, <2>2, <2>3, <2>4 DEF Step
  <1>2. CASE Environment
    BY <1>2 DEF Environment, SettlePayment, MineFdcRequest, MineMint, SettingsKnown
  <1>3. CASE ChangeSettings
    BY <1>3 DEF ChangeSettings, SettingsKnown
  <1>4. CASE UNCHANGED vars
    BY <1>4 DEF vars, world, SettingsKnown
  <1> QED BY <1>1, <1>2, <1>3, <1>4 DEF Next

\* Whatever the settings become, a quote made under them is exact to one unit.
THEOREM QuoteStaysExact == Spec => []QuoteIsExact
  <1>1. Init => SettingsKnown
    BY DEF Init, SettingsKnown
  <1>2. SettingsKnown => QuoteIsExact
    <2> SUFFICES ASSUME SettingsKnown,
                        NEW d \in 1 .. RecoveryNet, NEW e \in 0 .. RecoveryNet
                 PROVE  Residual(d, e, settings) \in {0, 1}
      BY DEF QuoteIsExact
    <2>1. d \in Nat /\ e \in Nat /\ settings \in Settings
      BY RecoveryNetAssumption, FeeSettingsAssumption DEF SettingsKnown
    <2> QED BY <2>1, QuoteIsExactForAll
  <1> QED BY <1>1, <1>2, NextSettingsKnown, PTL DEF Spec

\* A transition that the table allows keeps the invariant if the new row is backed: it
\* pays for no other payment, and each stage it reports is there.
LEMMA TransitionKeepsInv ==
    ASSUME Inv, NEW p \in Operators, NEW r \in Job, NEW next \in Labels,
           Transition(p, r, next), UNCHANGED <<keyReleased, world, faults>>,
           \/ next = "top"
           \/ pc[p] = "attested" /\ next = "ownRound"
           \/ pc[p] = "prove" /\ next = "send"
           \/ pc[p] = "sent" /\ next = "receipt",
           CanTransition(job.status, r.status) =>
             /\ job.status # "RECOVERY_REQUIRED" /\ r.payment = job.payment
             /\ job.status \in Finalized => r.status \in Finalized
             /\ r.status \in Attested =>
                  /\ r.round \in DOMAIN fdcTxs
                  /\ fdcTxs[r.round] = [pay |-> job.payment, state |-> "mined"]
             /\ r.status = "RECOVERY_FLAG_SUBMITTED" => Minting(r.flagTx, "flag")
             /\ r.status = "RECOVERY_STUCK_SUBMITTED" => Minting(r.retryTx, "retry")
             /\ r.status \in Flagged => MemoIgnored
             /\ r.status = "RECOVERED" => StuckUsed
    PROVE  Inv'
  <1>1. CASE ~CanTransition(job.status, r.status)
    <2>1. Leave(p) /\ UNCHANGED <<row, world>>
      BY <1>1 DEF Transition, row
    <2>2. faults' \in Nat
      BY DEF Inv, TypeOK
    <2> QED BY <2>1, <2>2, LeaveKeepsInv
  <1>2. CASE CanTransition(job.status, r.status)
    <2>1. job' = r /\ Goto(p, next)
      BY <1>2 DEF Transition
    <2>2. Grows /\ RowAdvances
      BY <1>2, <2>1, QuietStep DEF RowAdvances
    <2>3. MovesOnly(p, next) /\ pc'[p] = next /\ seen' = seen /\ sent' = sent
      BY <2>1 DEF Goto, MovesOnly, Inv, TypeOK
    <2>4. TypeOK'
      BY <2>1, <2>3 DEF Goto, Inv, TypeOK, world
    <2>5. RequestsAttest'
      BY DEF Inv, RequestsAttest, world
    <2>6. RowBacked'
      BY <1>2, <2>1 DEF Inv, RowBacked, MemoIgnored, StuckUsed, Executed, Minting, world
    <2>7. ReadBacked(p)'
      BY <1>2, <2>1, <2>2, <2>3 DEF Inv, ReadBacked, RowAdvances, Minting, world
    <2> QED BY <2>2, <2>3, <2>4, <2>5, <2>6, <2>7, OneProcessMoves
  <1> QED BY <1>1, <1>2

---------------------------------------------------------------------------
(* The steps of a process                                                  *)

\* A quote is an amount.
LEMMA QuoteIsAmount == SettingsKnown => Quote \in Nat
  <1> SUFFICES ASSUME SettingsKnown PROVE Quote \in Nat
    OBVIOUS
  <1>1. RecoveryNet \in Nat /\ 0 \in Nat /\ settings \in Settings
    BY RecoveryNetAssumption, FeeSettingsAssumption DEF SettingsKnown
  <1>2. PaymentAmount(RecoveryNet, 0, settings) = Candidate(RecoveryNet, 0, settings)
    BY <1>1, QuoteIsExactForAll
  <1>3. Candidate(RecoveryNet, 0, settings) \in Nat
    BY <1>1, CandidateIsExact
  <1> QED BY <1>2, <1>3 DEF Quote

\* The next Sequence counts the payments that used one.
LEMMA AccountSequenceIsNat == payments \in Seq(PaymentRecord) => AccountSequence \in Nat
  <1> SUFFICES ASSUME payments \in Seq(PaymentRecord) PROVE AccountSequence \in Nat
    OBVIOUS
  <1> DEFINE used == {x \in DOMAIN payments : payments[x].state \in {"validated", "failed"}}
  <1>1. DOMAIN payments = 1 .. Len(payments) /\ Len(payments) \in Nat
    BY LenProperties
  <1>2. IsFiniteSet(DOMAIN payments)
    BY <1>1, FS_Interval
  <1>3. IsFiniteSet(used)
    BY <1>2, FS_Subset
  <1>4. Cardinality(used) \in Nat
    BY <1>3, FS_CardinalityType
  <1> QED BY <1>4 DEF AccountSequence

\* A start reads the row and computes a quote.
LEMMA StartKeepsInv ==
    ASSUME Inv, NEW p \in Operators, Start(p)
    PROVE  Inv'
  <1>1. Grows /\ RowAdvances
    BY QuietStep DEF Start, row
  <1>2. MovesOnly(p, "check") /\ "check" \in Labels /\ pc'[p] = "check"
    BY DEF Start, MovesOnly, Inv, TypeOK, Labels
  <1>3. Quote \in Nat
    BY QuoteIsAmount DEF Inv, TypeOK, SettingsKnown
  <1>4. TypeOK'
    BY <1>3 DEF Start, Inv, TypeOK, Labels, row, world
  <1>5. RequestsAttest' /\ RowBacked'
    BY DEF Start, Inv, RequestsAttest, RowBacked, MemoIgnored, StuckUsed, Executed, Minting,
           row, world
  <1>6. ReadBacked(p)'
    BY <1>2 DEF ReadBacked
  <1> QED BY <1>1, <1>2, <1>4, <1>5, <1>6, OneProcessMoves

\* Going on without having done anything.
LEMMA GotoKeepsInv ==
    ASSUME Inv, NEW p \in Operators, Goto(p, "top"), UNCHANGED <<row, world, faults>>
    PROVE  Inv'
  <1>1. Grows /\ RowAdvances
    BY QuietStep DEF row
  <1>2. MovesOnly(p, "top") /\ "top" \in Labels /\ pc'[p] = "top"
    BY DEF Goto, MovesOnly, Inv, TypeOK, Labels
  <1>3. TypeOK'
    BY <1>2 DEF Goto, Inv, TypeOK, Labels, row, world
  <1>4. RequestsAttest' /\ RowBacked'
    BY DEF Inv, RequestsAttest, RowBacked, MemoIgnored, StuckUsed, Executed, Minting, row, world
  <1>5. ReadBacked(p)'
    BY <1>2 DEF ReadBacked
  <1> QED BY <1>1, <1>2, <1>3, <1>4, <1>5, OneProcessMoves

\* The steps that may only end the process, or go on unchanged.
LEMMA LeavingKeepsInv ==
    ASSUME Inv, NEW p \in Operators, CheckUnused(p) \/ Fault(p) \/ Reject(p)
    PROVE  Inv'
  <1>1. \/ Leave(p) /\ UNCHANGED <<row, world>> /\ faults' \in Nat
        \/ Goto(p, "top") /\ UNCHANGED <<row, world, faults>>
    BY DEF CheckUnused, Fault, Reject, Inv, TypeOK
  <1> QED BY <1>1, LeaveKeepsInv, GotoKeepsInv

\* What a process reads at the top of its loop is backed because the row is.
LEMMA ReadKeepsInv ==
    ASSUME Inv, NEW p \in Operators, Read(p)
    PROVE  Inv'
  <1>1. CASE ReleaseIntentKey /\ Leave(p) /\ UNCHANGED <<job, world, faults>>
    <2>1. Grows /\ RowAdvances
      BY <1>1, QuietStep
    <2>2. MovesOnly(p, "idle") /\ "idle" \in Labels /\ pc'[p] = "idle"
      BY <1>1 DEF Leave, MovesOnly, Inv, TypeOK, Labels
    <2>3. TypeOK'
      BY <1>1 DEF Leave, ReleaseIntentKey, Inv, TypeOK, Labels, Stuck, Job, world
    <2>4. RequestsAttest' /\ RowBacked'
      BY <1>1 DEF Inv, RequestsAttest, RowBacked, ReleaseIntentKey, MemoIgnored, StuckUsed,
                  Executed, Minting, world
    <2>5. ReadBacked(p)'
      BY <2>2 DEF ReadBacked
    <2> QED BY <2>1, <2>2, <2>3, <2>4, <2>5, OneProcessMoves
  <1>2. CASE job.status # "RECOVERED" /\ ~(ReleaseIntentKey /\ Leave(p))
    <2> DEFINE tx == CASE job.status = "RECOVERY_FLAG_SUBMITTED"  -> job.flagTx
                       [] job.status = "RECOVERY_STUCK_SUBMITTED" -> job.retryTx
                       [] OTHER -> 0
               label == Branch[job.status]
    <2>1. /\ seen' = [seen EXCEPT ![p] = job]
          /\ sent' = [sent EXCEPT ![p] = tx]
          /\ pc' = [pc EXCEPT ![p] = label]
          /\ UNCHANGED <<keyReleased, quoteOf>> /\ UNCHANGED <<job, world, faults>>
      BY <1>2 DEF Read
    <2>2. job \in Job
      BY DEF Inv, TypeOK
    <2>3. job.flagTx \in Nat /\ job.retryTx \in Nat
          /\ job.status \in RecoveryStatuses \cup {"RECOVERY_REQUIRED"}
      BY <2>2 DEF Job
    <2>4. /\ job.status = "RECOVERY_REQUIRED" => label = "sign"
          /\ job.status = "RECOVERY_PAYMENT_SIGNED" => label = "submit"
          /\ job.status = "RECOVERY_PAYMENT_FINALIZED" => label = "attest"
          /\ job.status = "RECOVERY_FDC_REQUESTED" => label = "proof"
          /\ job.status \in {"RECOVERY_PROOF_READY", "RECOVERY_FLAG_SET"} => label = "prove"
          /\ job.status \in {"RECOVERY_FLAG_SUBMITTED", "RECOVERY_STUCK_SUBMITTED"} =>
               label = "reconcile"
      BY DEF Branch
    <2>5. label \in Labels
      BY <2>3, <2>4, <1>2 DEF RecoveryStatuses, Labels
    <2>6. /\ job.status = "RECOVERY_FLAG_SUBMITTED" => tx = job.flagTx
          /\ job.status = "RECOVERY_STUCK_SUBMITTED" => tx = job.retryTx
          /\ tx \in Nat
      BY <2>3
    <2> HIDE DEF tx, label
    <2>7. Grows /\ RowAdvances
      BY <2>1, QuietStep
    <2>8. MovesOnly(p, label) /\ pc'[p] = label /\ seen'[p] = job /\ sent'[p] = tx
      BY <2>1 DEF MovesOnly, Inv, TypeOK
    <2>9. TypeOK'
      BY <2>1, <2>2, <2>5, <2>6 DEF Inv, TypeOK, world
    <2>10. RequestsAttest' /\ RowBacked'
      BY <2>1 DEF Inv, RequestsAttest, RowBacked, MemoIgnored, StuckUsed, Executed, Minting, world
    <2>11. ReadBacked(p)'
      BY <1>2, <2>1, <2>3, <2>4, <2>6, <2>8
         DEF Inv, RowBacked, ReadBacked, Minting, Kind, RecoveryStatuses, Finalized, world
    <2> QED BY <2>5, <2>7, <2>8, <2>9, <2>10, <2>11, OneProcessMoves
  <1> QED BY <1>1, <1>2 DEF Read

\* A payment is signed for a row that has none, or whose payment is not final.
LEMMA SignKeepsInv ==
    ASSUME Inv, NEW p \in Operators, Sign(p)
    PROVE  Inv'
  <1> DEFINE paid == [amount |-> quoteOf[p], seq |-> AccountSequence, state |-> "signed"]
             r == [job EXCEPT !.status = "RECOVERY_PAYMENT_SIGNED",
                              !.payment = Len(payments) + 1]
  <1>1. /\ payments' = Append(payments, paid) /\ Transition(p, r, "top")
        /\ UNCHANGED <<keyReleased, fdcTxs, mints, delays, settings, faults>>
    BY DEF Sign
  <1>2. payments \in Seq(PaymentRecord) /\ paid \in PaymentRecord
    BY AccountSequenceIsNat DEF Inv, TypeOK, PaymentRecord, PaymentStates
  <1>3. /\ payments' \in Seq(PaymentRecord) /\ Len(payments) \in Nat
        /\ DOMAIN payments' = DOMAIN payments \cup {Len(payments) + 1}
        /\ \A x \in DOMAIN payments : payments'[x] = payments[x]
    <2> HIDE DEF paid
    <2> QED BY <1>1, <1>2, Appended
  <1>4. r \in Job /\ r.status = "RECOVERY_PAYMENT_SIGNED" /\ r.payment = Len(payments) + 1
    <2>1. job \in Job /\ Len(payments) + 1 \in Nat
      BY <1>3 DEF Inv, TypeOK
    <2> QED BY <2>1 DEF Job, RecoveryStatuses
  <1> HIDE DEF paid, r
  <1>5. Grows
    BY <1>1, <1>3 DEF Grows
  <1>6. \/ job' = job
        \/ job' = r /\ job.status \in {"RECOVERY_REQUIRED", "RECOVERY_PAYMENT_SIGNED"}
    <2>1. job.status \in RecoveryStatuses \cup {"RECOVERY_REQUIRED"}
      BY DEF Inv, TypeOK, Job
    <2>2. CanTransition(job.status, r.status) =>
              job.status \in {"RECOVERY_REQUIRED", "RECOVERY_PAYMENT_SIGNED"}
      BY <1>4, <2>1, Moves
    <2> QED BY <1>1, <2>2 DEF Transition
  <1>7. RowAdvances
    BY <1>6 DEF RowAdvances, Finalized, Attested, Proved, Flagged
  <1>8. \E label \in {"idle", "top"} : MovesOnly(p, label) /\ pc'[p] = label
    BY <1>1 DEF Transition, Goto, Leave, MovesOnly, Inv, TypeOK
  <1>9. TypeOK'
    <2>1. payments' \in Seq([amount : Nat, seq : Nat, state : PaymentStates])
      BY <1>3 DEF PaymentRecord
    <2>2. job' \in Job
      BY <1>4, <1>6 DEF Inv, TypeOK
    <2>3. /\ pc' \in [Operators -> Labels] /\ seen' \in [Operators -> Job]
          /\ quoteOf' \in [Operators -> Nat] /\ sent' \in [Operators -> Nat]
      <3>1. CASE Goto(p, "top")
        BY <3>1 DEF Goto, Inv, TypeOK, Labels
      <3>2. CASE Leave(p)
        BY <3>2 DEF Leave, Inv, TypeOK, Labels, Stuck, Job
      <3> QED BY <1>1, <3>1, <3>2 DEF Transition
    <2> QED BY <1>1, <2>1, <2>2, <2>3 DEF Inv, TypeOK
  <1>10. RequestsAttest'
    BY <1>1, <1>5 DEF Inv, RequestsAttest, Grows
  <1>11. RowBacked'
    BY <1>1, <1>3, <1>4, <1>6 DEF Inv, RowBacked, MemoIgnored, StuckUsed, Executed, Minting,
                                Attested, Proved, Flagged
  <1>12. PICK label \in {"idle", "top"} : MovesOnly(p, label) /\ pc'[p] = label
    BY <1>8
  <1>13. ReadBacked(p)'
    BY <1>12 DEF ReadBacked
  <1> QED BY <1>5, <1>7, <1>9, <1>10, <1>11, <1>12, <1>13, OneProcessMoves DEF Labels

\* Submitting the signed blob does not undo a validated payment.
LEMMA SubmitKeepsInv ==
    ASSUME Inv, NEW p \in Operators, SubmitPayment(p)
    PROVE  Inv'
  <1> DEFINE x == seen[p].payment
             to == IF payments[x].state = "signed" THEN "submitted" ELSE payments[x].state
             paid == [payments[x] EXCEPT !.state = to]
  <1>1. /\ pc[p] = "submit" /\ payments' = [payments EXCEPT ![x] = paid]
        /\ Goto(p, "finality") /\ UNCHANGED <<row, fdcTxs, mints, delays, settings, faults>>
    BY DEF SubmitPayment
  <1>2. x \in DOMAIN payments
    BY <1>1 DEF Inv, ReadBacked
  <1>3. payments[x] \in PaymentRecord
    BY <1>2, WorldTypes DEF Inv
  <1>4. paid \in PaymentRecord /\ (payments[x].state = "validated" => paid.state = "validated")
    BY <1>3 DEF PaymentRecord, PaymentStates
  <1>5. payments \in Seq(PaymentRecord)
    BY DEF Inv, TypeOK, PaymentRecord
  <1>6. /\ payments' \in Seq(PaymentRecord) /\ DOMAIN payments' = DOMAIN payments
        /\ payments'[x] = paid
        /\ \A y \in DOMAIN payments \ {x} : payments'[y] = payments[y]
    <2> HIDE DEF paid, x
    <2> QED BY <1>1, <1>2, <1>4, <1>5, Replaced
  <1>7. Grows /\ RowAdvances
    BY <1>1, <1>4, <1>6 DEF Grows, RowAdvances, row
  <1>8. MovesOnly(p, "finality") /\ "finality" \in Labels /\ pc'[p] = "finality"
        /\ seen' = seen /\ sent' = sent /\ quoteOf' = quoteOf
    BY <1>1 DEF Goto, MovesOnly, Inv, TypeOK, Labels
  <1>9. TypeOK'
    <2>1. payments' \in Seq([amount : Nat, seq : Nat, state : PaymentStates])
      BY <1>6 DEF PaymentRecord
    <2> QED BY <1>1, <1>8, <2>1 DEF Goto, Inv, TypeOK, row
  <1>10. RequestsAttest'
    BY <1>1, <1>7 DEF Inv, RequestsAttest, Grows
  <1>11. RowBacked'
    BY <1>1, <1>6 DEF Inv, RowBacked, MemoIgnored, StuckUsed, Executed, Minting, row
  <1>12. ReadBacked(p)'
    BY <1>2, <1>6, <1>8 DEF ReadBacked
  <1> QED BY <1>7, <1>8, <1>9, <1>10, <1>11, <1>12, OneProcessMoves

\* Finality fixes the payment that the row names.
LEMMA FinalityKeepsInv ==
    ASSUME Inv, NEW p \in Operators, AwaitFinality(p)
    PROVE  Inv'
  <1> DEFINE r == [job EXCEPT !.status = "RECOVERY_PAYMENT_FINALIZED"]
  <1>1. Transition(p, r, "top") /\ UNCHANGED <<keyReleased, world, faults>>
    BY DEF AwaitFinality
  <1>2. r \in Job /\ r.status = "RECOVERY_PAYMENT_FINALIZED" /\ r.payment = job.payment
    BY DEF Inv, TypeOK, Job, RecoveryStatuses
  <1>3. CanTransition(job.status, r.status) =>
            job.status \in {"RECOVERY_PAYMENT_SIGNED", "RECOVERY_PAYMENT_FINALIZED"}
    BY <1>2, Moves DEF Inv, TypeOK, Job
  <1> HIDE DEF r
  <1> QED BY <1>1, <1>2, <1>3, TransitionKeepsInv
       DEF Labels, Finalized, Attested, Proved, Flagged

\* The payment that a request is made for has been validated, and is that of the row.
LEMMA RequestKeepsInv ==
    ASSUME Inv, NEW p \in Operators, RequestAttestation(p)
    PROVE  Inv'
  <1> DEFINE asked == [pay |-> seen[p].payment, state |-> "pending"]
             f == Len(fdcTxs) + 1
  <1>1. /\ pc[p] = "attest" /\ payments[seen[p].payment].state = "validated"
        /\ fdcTxs' = Append(fdcTxs, asked)
        /\ sent' = [sent EXCEPT ![p] = f] /\ pc' = [pc EXCEPT ![p] = "attested"]
        /\ UNCHANGED <<row, seen, quoteOf, payments, mints, delays, settings, faults>>
    BY DEF RequestAttestation
  <1>2. job.status \in Finalized /\ seen[p].payment = job.payment
    BY <1>1 DEF Inv, ReadBacked
  <1>3. seen[p].payment \in DOMAIN payments /\ seen[p].payment \in Nat
    BY <1>2 DEF Inv, RowBacked, Finalized, Attested, Proved, Flagged, TypeOK, Job
  <1>4. fdcTxs \in Seq(RequestRecord) /\ asked \in RequestRecord
    BY <1>3 DEF Inv, TypeOK, RequestRecord
  <1>5. /\ fdcTxs' \in Seq(RequestRecord) /\ f \in Nat
        /\ DOMAIN fdcTxs' = DOMAIN fdcTxs \cup {f}
        /\ (\A g \in DOMAIN fdcTxs : fdcTxs'[g] = fdcTxs[g]) /\ fdcTxs'[f] = asked
        /\ f \notin DOMAIN fdcTxs
    <2>1. Len(fdcTxs) \in Nat
      BY <1>4, LenProperties
    <2> HIDE DEF asked
    <2> QED BY <2>1, <1>1, <1>4, Appended
  <1>6. asked.pay = seen[p].payment
    OBVIOUS
  <1> HIDE DEF asked, f
  <1>7. Grows /\ RowAdvances
    BY <1>1, <1>5 DEF Grows, RowAdvances, row
  <1>8. MovesOnly(p, "attested") /\ "attested" \in Labels /\ pc'[p] = "attested"
        /\ seen' = seen /\ sent'[p] = f
    BY <1>1 DEF MovesOnly, Inv, TypeOK, Labels
  <1>9. TypeOK'
    <2>1. fdcTxs' \in Seq([pay : Nat, state : {"pending", "mined", "reverted"}])
      BY <1>5 DEF RequestRecord
    <2> QED BY <1>1, <1>5, <1>8, <2>1 DEF Inv, TypeOK, Labels, row
  <1>10. RequestsAttest'
    BY <1>1, <1>3, <1>5, <1>6 DEF Inv, RequestsAttest
  <1>11. RowBacked'
    BY <1>1, <1>5 DEF Inv, RowBacked, MemoIgnored, StuckUsed, Executed, Minting, row
  <1>12. ReadBacked(p)'
    BY <1>1, <1>2, <1>5, <1>6, <1>8 DEF ReadBacked, row
  <1> QED BY <1>7, <1>8, <1>9, <1>10, <1>11, <1>12, OneProcessMoves

\* The hash of a request is kept at the status the row has.
LEMMA CheckpointFdcKeepsInv ==
    ASSUME Inv, NEW p \in Operators, CheckpointFdcTx(p)
    PROVE  Inv'
  <1> DEFINE r == [job EXCEPT !.status = "RECOVERY_PAYMENT_FINALIZED", !.fdcTx = sent[p]]
  <1>1. pc[p] = "attested" /\ Transition(p, r, "ownRound")
        /\ UNCHANGED <<keyReleased, world, faults>>
    BY DEF CheckpointFdcTx
  <1>2. r \in Job /\ r.status = "RECOVERY_PAYMENT_FINALIZED" /\ r.payment = job.payment
    BY DEF Inv, TypeOK, Job, RecoveryStatuses
  <1>3. CanTransition(job.status, r.status) =>
            job.status \in {"RECOVERY_PAYMENT_SIGNED", "RECOVERY_PAYMENT_FINALIZED"}
    BY <1>2, Moves DEF Inv, TypeOK, Job
  <1> HIDE DEF r
  <1> QED BY <1>1, <1>2, <1>3, TransitionKeepsInv
       DEF Labels, Finalized, Attested, Proved, Flagged

\* The round of a request that was mined attests the payment of the row.
LEMMA OwnRoundKeepsInv ==
    ASSUME Inv, NEW p \in Operators, OwnRound(p)
    PROVE  Inv'
  <1> DEFINE r == [job EXCEPT !.status = "RECOVERY_FDC_REQUESTED",
                              !.fdcTx = sent[p], !.round = sent[p]]
  <1>1. CASE Leave(p) /\ UNCHANGED <<job, keyReleased, world, faults>>
    <2>1. UNCHANGED <<row, world>> /\ faults' \in Nat
      BY <1>1 DEF Inv, TypeOK, row
    <2> QED BY <1>1, <2>1, LeaveKeepsInv
  <1>2. CASE /\ pc[p] = "ownRound" /\ fdcTxs[sent[p]].state = "mined"
             /\ Transition(p, r, "top") /\ UNCHANGED <<keyReleased, world, faults>>
    <2>1. /\ r \in Job /\ r.status = "RECOVERY_FDC_REQUESTED" /\ r.payment = job.payment
          /\ r.round = sent[p]
      BY DEF Inv, TypeOK, Job, RecoveryStatuses
    <2>2. CanTransition(job.status, r.status) =>
              job.status \in {"RECOVERY_PAYMENT_FINALIZED", "RECOVERY_FDC_REQUESTED"}
      BY <2>1, Moves DEF Inv, TypeOK, Job
    <2>3. /\ sent[p] \in DOMAIN fdcTxs /\ fdcTxs[sent[p]].pay = job.payment
      BY <1>2 DEF Inv, ReadBacked
    <2>4. fdcTxs[sent[p]] \in RequestRecord
      BY <2>3, WorldTypes DEF Inv
    <2>5. fdcTxs[sent[p]] = [pay |-> job.payment, state |-> "mined"]
      BY <1>2, <2>3, <2>4 DEF RequestRecord
    <2> HIDE DEF r
    <2> QED BY <1>2, <2>1, <2>2, <2>3, <2>5, TransitionKeepsInv
         DEF Labels, Finalized, Attested, Proved, Flagged
  <1> QED BY <1>1, <1>2 DEF OwnRound

\* A proof is that of the round the row names.
LEMMA ProofKeepsInv ==
    ASSUME Inv, NEW p \in Operators, AwaitProof(p)
    PROVE  Inv'
  <1> DEFINE r == [job EXCEPT !.status = "RECOVERY_PROOF_READY"]
  <1>1. CASE Leave(p) /\ UNCHANGED <<job, keyReleased, world, faults>>
    <2>1. UNCHANGED <<row, world>> /\ faults' \in Nat
      BY <1>1 DEF Inv, TypeOK, row
    <2> QED BY <1>1, <2>1, LeaveKeepsInv
  <1>2. CASE Transition(p, r, "top") /\ UNCHANGED <<keyReleased, world, faults>>
    <2>1. /\ r \in Job /\ r.status = "RECOVERY_PROOF_READY" /\ r.payment = job.payment
          /\ r.round = job.round
      BY DEF Inv, TypeOK, Job, RecoveryStatuses
    <2>2. CanTransition(job.status, r.status) =>
              job.status \in {"RECOVERY_FDC_REQUESTED", "RECOVERY_PROOF_READY"}
      BY <2>1, Moves DEF Inv, TypeOK, Job
    <2>3. RowBacked
      BY DEF Inv
    <2> HIDE DEF r
    <2> QED BY <1>2, <2>1, <2>2, <2>3, TransitionKeepsInv
         DEF Labels, Finalized, Attested, Proved, Flagged, RowBacked
  <1> QED BY <1>1, <1>2 DEF AwaitProof

---------------------------------------------------------------------------
(* The two direct mints                                                    *)

\* A simulation that passes writes back the status read: PROOF_READY, or FLAG_SET if
\* the memo is ignored.
LEMMA SimulateKeepsInv ==
    ASSUME Inv, NEW p \in Operators, Simulate(p)
    PROVE  Inv'
  <1> DEFINE r == [job EXCEPT !.status = seen[p].status]
  <1>1. CASE Leave(p) /\ UNCHANGED <<job, keyReleased, world, faults>>
    <2>1. UNCHANGED <<row, world>> /\ faults' \in Nat
      BY <1>1 DEF Inv, TypeOK, row
    <2> QED BY <1>1, <2>1, LeaveKeepsInv
  <1>2. CASE /\ pc[p] = "prove" /\ Executable(Kind(seen[p].status))
             /\ Transition(p, r, "send") /\ UNCHANGED <<keyReleased, world, faults>>
    <2>1. seen[p].status \in {"RECOVERY_PROOF_READY", "RECOVERY_FLAG_SET"}
      BY <1>2 DEF Inv, ReadBacked
    <2>2. /\ r \in Job /\ r.status = seen[p].status /\ r.payment = job.payment
          /\ r.round = job.round
      BY <2>1 DEF Inv, TypeOK, Job, RecoveryStatuses
    <2>3. CASE seen[p].status = "RECOVERY_PROOF_READY"
      <3>1. CanTransition(job.status, r.status) =>
                job.status \in {"RECOVERY_FDC_REQUESTED", "RECOVERY_PROOF_READY"}
        BY <2>2, <2>3, Moves DEF Inv, TypeOK, Job
      <3>2. RowBacked
        BY DEF Inv
      <3> HIDE DEF r
      <3> QED BY <1>2, <2>2, <2>3, <3>1, <3>2, TransitionKeepsInv
           DEF Labels, Finalized, Attested, Proved, Flagged, RowBacked
    <2>4. CASE seen[p].status = "RECOVERY_FLAG_SET"
      <3>1. CanTransition(job.status, r.status) =>
                job.status \in {"RECOVERY_FLAG_SUBMITTED", "RECOVERY_FLAG_SET"}
        BY <2>2, <2>4, Moves DEF Inv, TypeOK, Job
      <3>2. RowBacked
        BY DEF Inv
      <3>3. MemoIgnored
        BY <1>2, <2>4 DEF Executable, Kind
      <3> HIDE DEF r
      <3> QED BY <1>2, <2>2, <2>4, <3>1, <3>2, <3>3, TransitionKeepsInv
           DEF Labels, Finalized, Attested, Proved, Flagged, RowBacked
    <2> QED BY <2>1, <2>3, <2>4
  <1> QED BY <1>1, <1>2 DEF Simulate

\* A mint is sent for the status that was read.
LEMMA BroadcastKeepsInv ==
    ASSUME Inv, NEW p \in Operators, Broadcast(p)
    PROVE  Inv'
  <1> DEFINE k == Kind(seen[p].status)
             mint == [kind |-> k, state |-> "pending"]
             i == Len(mints) + 1
  <1>1. /\ pc[p] = "send" /\ mints' = Append(mints, mint)
        /\ sent' = [sent EXCEPT ![p] = i] /\ pc' = [pc EXCEPT ![p] = "sent"]
        /\ UNCHANGED <<row, seen, quoteOf, payments, fdcTxs, delays, settings, faults>>
    BY DEF Broadcast
  <1>2. mints \in Seq(MintRecord) /\ mint \in MintRecord
    BY DEF Inv, TypeOK, MintRecord, Kind, MintStates
  <1>3. Len(mints) \in Nat
    BY <1>2, LenProperties
  <1>4. /\ mints' \in Seq(MintRecord) /\ i \in Nat
        /\ DOMAIN mints' = DOMAIN mints \cup {i}
        /\ (\A j \in DOMAIN mints : mints'[j] = mints[j]) /\ mints'[i] = mint
        /\ i \notin DOMAIN mints
    <2> HIDE DEF mint
    <2> QED BY <1>1, <1>2, <1>3, Appended
  <1>5. mint.kind = k /\ mint.state # "EXECUTED"
    OBVIOUS
  <1> HIDE DEF mint, i
  <1>6. Grows /\ RowAdvances
    BY <1>1, <1>4 DEF Grows, RowAdvances, row
  <1>7. MovesOnly(p, "sent") /\ "sent" \in Labels /\ pc'[p] = "sent"
        /\ seen' = seen /\ sent'[p] = i
    BY <1>1 DEF MovesOnly, Inv, TypeOK, Labels
  <1>8. TypeOK'
    <2>1. mints' \in Seq([kind : {"flag", "retry"}, state : MintStates])
      BY <1>4 DEF MintRecord
    <2> QED BY <1>1, <1>4, <1>7, <2>1 DEF Inv, TypeOK, Labels, row
  <1>9. RequestsAttest'
    BY <1>1 DEF Inv, RequestsAttest
  <1>10. RowBacked'
    <2>1. RowBacked /\ job' = job /\ keyReleased' = keyReleased
      BY <1>1 DEF Inv, row
    <2> QED BY <2>1, <1>1, <1>6, ExecutedStays DEF RowBacked, Minting
  <1>11. ReadBacked(p)'
    <2>1. ReadBacked(p)
      BY DEF Inv
    <2> QED BY <2>1, <1>1, <1>4, <1>5, <1>7 DEF ReadBacked, Minting, Kind
  <1> QED BY <1>6, <1>7, <1>8, <1>9, <1>10, <1>11, OneProcessMoves

\* The hash kept is that of the mint this process sent.
LEMMA CheckpointMintKeepsInv ==
    ASSUME Inv, NEW p \in Operators, CheckpointMintTx(p)
    PROVE  Inv'
  <1> DEFINE k == Kind(seen[p].status)
             flag == IF k = "flag" THEN sent[p] ELSE job.flagTx
             retry == IF k = "retry" THEN sent[p] ELSE job.retryTx
             r == [job EXCEPT !.status = Submitted[k], !.flagTx = flag, !.retryTx = retry]
  <1>1. pc[p] = "sent" /\ Transition(p, r, "receipt")
        /\ UNCHANGED <<keyReleased, world, faults>>
    BY DEF CheckpointMintTx
  <1>2. Minting(sent[p], k) /\ RowBacked
    BY <1>1 DEF Inv, ReadBacked
  <1>3. job \in Job /\ sent[p] \in Nat /\ k \in {"flag", "retry"}
    BY DEF Inv, TypeOK, Kind
  <1>4. /\ Submitted[k] = IF k = "flag" THEN "RECOVERY_FLAG_SUBMITTED"
                                        ELSE "RECOVERY_STUCK_SUBMITTED"
        /\ flag \in Nat /\ retry \in Nat
    BY <1>3 DEF Submitted, Job
  <1>5. /\ r \in Job /\ r.status = Submitted[k] /\ r.payment = job.payment
        /\ r.round = job.round /\ r.flagTx = flag /\ r.retryTx = retry
    <2> HIDE DEF flag, retry
    <2> QED BY <1>3, <1>4 DEF Job, RecoveryStatuses
  <1>6. CASE k = "flag"
    <2>1. CanTransition(job.status, r.status) =>
              job.status \in {"RECOVERY_PROOF_READY", "RECOVERY_FLAG_SUBMITTED"}
      BY <1>3, <1>4, <1>5, <1>6, Moves DEF Job
    <2>2. flag = sent[p] /\ r.status = "RECOVERY_FLAG_SUBMITTED"
      BY <1>4, <1>5, <1>6
    <2> HIDE DEF r, flag, retry
    <2> QED BY <1>1, <1>2, <1>5, <1>6, <2>1, <2>2, TransitionKeepsInv
         DEF Labels, Finalized, Attested, Proved, Flagged, RowBacked
  <1>7. CASE k = "retry"
    <2>1. CanTransition(job.status, r.status) =>
              job.status \in {"RECOVERY_FLAG_SET", "RECOVERY_STUCK_SUBMITTED"}
      BY <1>3, <1>4, <1>5, <1>7, Moves DEF Job
    <2>2. retry = sent[p] /\ r.status = "RECOVERY_STUCK_SUBMITTED"
      BY <1>4, <1>5, <1>7
    <2> HIDE DEF r, flag, retry
    <2> QED BY <1>1, <1>2, <1>5, <1>7, <2>1, <2>2, TransitionKeepsInv
         DEF Labels, Finalized, Attested, Proved, Flagged, RowBacked
  <1> QED BY <1>3, <1>6, <1>7

\* A receipt counts only if its mint was executed.
LEMMA ReceiptKeepsInv ==
    ASSUME Inv, NEW p \in Operators, AwaitReceipt(p)
    PROVE  Inv'
  <1> DEFINE k == Kind(seen[p].status)
             r == [job EXCEPT !.status = Confirmed[k]]
  <1>1. CASE Leave(p) /\ UNCHANGED <<job, keyReleased, world, faults>>
    <2>1. UNCHANGED <<row, world>> /\ faults' \in Nat
      BY <1>1 DEF Inv, TypeOK, row
    <2> QED BY <1>1, <2>1, LeaveKeepsInv
  <1>2. CASE /\ pc[p] \in {"receipt", "reconcile"} /\ mints[sent[p]].state = "EXECUTED"
             /\ Transition(p, r, "top") /\ UNCHANGED <<keyReleased, world, faults>>
    <2>1. Minting(sent[p], k) /\ RowBacked
      BY <1>2 DEF Inv, ReadBacked
    <2>2. Executed(k)
      BY <1>2, <2>1 DEF Minting, Executed
    <2>3. job \in Job /\ k \in {"flag", "retry"}
      BY DEF Inv, TypeOK, Kind
    <2>4. Confirmed[k] = IF k = "flag" THEN "RECOVERY_FLAG_SET" ELSE "RECOVERED"
      BY <2>3 DEF Confirmed
    <2>5. /\ r \in Job /\ r.status = Confirmed[k] /\ r.payment = job.payment
          /\ r.round = job.round
      BY <2>3, <2>4 DEF Job, RecoveryStatuses
    <2>6. CASE k = "flag"
      <3>1. CanTransition(job.status, r.status) =>
                job.status \in {"RECOVERY_FLAG_SUBMITTED", "RECOVERY_FLAG_SET"}
        BY <2>3, <2>4, <2>5, <2>6, Moves DEF Job
      <3>2. MemoIgnored /\ r.status = "RECOVERY_FLAG_SET"
        BY <2>2, <2>4, <2>5, <2>6 DEF MemoIgnored
      <3> HIDE DEF r
      <3> QED BY <1>2, <2>1, <2>5, <3>1, <3>2, TransitionKeepsInv
           DEF Labels, Finalized, Attested, Proved, Flagged, RowBacked
    <2>7. CASE k = "retry"
      <3>1. CanTransition(job.status, r.status) =>
                job.status \in {"RECOVERY_STUCK_SUBMITTED", "RECOVERED"}
        BY <2>3, <2>4, <2>5, <2>7, Moves DEF Job
      <3>2. StuckUsed /\ r.status = "RECOVERED"
        BY <2>2, <2>4, <2>5, <2>7 DEF StuckUsed
      <3> HIDE DEF r
      <3> QED BY <1>2, <2>1, <2>5, <3>1, <3>2, TransitionKeepsInv
           DEF Labels, Finalized, Attested, Proved, Flagged, RowBacked
    <2> QED BY <2>3, <2>6, <2>7
  <1> QED BY <1>1, <1>2 DEF AwaitReceipt

---------------------------------------------------------------------------
(* The chains, and every step                                              *)

\* A step of the chains changes no process and not the row.
LEMMA ChainsMove ==
    ASSUME Inv, Grows, TypeOK', RequestsAttest', UNCHANGED <<row, process>>
    PROVE  Inv'
  <1>1. RowBacked'
    BY ExecutedStays DEF Inv, RowBacked, Grows, Minting, row
  <1>2. ASSUME NEW q \in Operators PROVE ReadBacked(q)'
    <2>1. ReadBacked(q)
      BY DEF Inv
    <2> QED BY <2>1 DEF ReadBacked, Grows, Minting, Kind, row, process
  <1> QED BY <1>1, <1>2 DEF Inv

\* A payment that is settled was not validated before.
LEMMA SettleKeepsInv ==
    ASSUME Inv, NEW x \in DOMAIN payments, SettlePayment(x)
    PROVE  Inv'
  <1>1. /\ payments[x].state = "submitted"
        /\ UNCHANGED <<row, process, fdcTxs, mints, delays, settings, faults>>
    BY DEF SettlePayment
  <1>2. PICK s \in {"validated", "failed", "expired"} :
            payments' = [payments EXCEPT ![x].state = s]
    BY DEF SettlePayment
  <1> DEFINE paid == [payments[x] EXCEPT !.state = s]
  <1>3. payments \in Seq(PaymentRecord) /\ payments[x] \in PaymentRecord
    BY WorldTypes DEF Inv, TypeOK, PaymentRecord
  <1>4. paid \in PaymentRecord
    BY <1>3 DEF PaymentRecord, PaymentStates
  <1>5. payments' = [payments EXCEPT ![x] = paid]
    BY <1>2
  <1>6. /\ payments' \in Seq(PaymentRecord) /\ DOMAIN payments' = DOMAIN payments
        /\ \A y \in DOMAIN payments \ {x} : payments'[y] = payments[y]
    <2> HIDE DEF paid
    <2> QED BY <1>3, <1>4, <1>5, Replaced
  <1>7. Grows
    BY <1>1, <1>6 DEF Grows
  <1>8. TypeOK'
    <2>1. payments' \in Seq([amount : Nat, seq : Nat, state : PaymentStates])
      BY <1>6 DEF PaymentRecord
    <2> QED BY <1>1, <2>1 DEF Inv, TypeOK, row, process
  <1>9. RequestsAttest'
    BY <1>1, <1>7 DEF Inv, RequestsAttest, Grows
  <1> QED BY <1>1, <1>7, <1>8, <1>9, ChainsMove

\* A request that is mined was not mined before.
LEMMA MineRequestKeepsInv ==
    ASSUME Inv, NEW f \in DOMAIN fdcTxs, MineFdcRequest(f)
    PROVE  Inv'
  <1>1. /\ fdcTxs[f].state = "pending"
        /\ UNCHANGED <<row, process, payments, mints, delays, settings, faults>>
    BY DEF MineFdcRequest
  <1>2. PICK s \in {"mined", "reverted"} : fdcTxs' = [fdcTxs EXCEPT ![f].state = s]
    BY DEF MineFdcRequest
  <1> DEFINE asked == [fdcTxs[f] EXCEPT !.state = s]
  <1>3. fdcTxs \in Seq(RequestRecord) /\ fdcTxs[f] \in RequestRecord
    BY WorldTypes DEF Inv, TypeOK, RequestRecord
  <1>4. asked \in RequestRecord /\ asked.pay = fdcTxs[f].pay
    BY <1>3 DEF RequestRecord
  <1>5. fdcTxs' = [fdcTxs EXCEPT ![f] = asked]
    BY <1>2
  <1>6. /\ fdcTxs' \in Seq(RequestRecord) /\ DOMAIN fdcTxs' = DOMAIN fdcTxs
        /\ fdcTxs'[f] = asked
        /\ \A g \in DOMAIN fdcTxs \ {f} : fdcTxs'[g] = fdcTxs[g]
    <2> HIDE DEF asked
    <2> QED BY <1>3, <1>4, <1>5, Replaced
  <1> HIDE DEF asked
  <1>7. Grows
    BY <1>1, <1>4, <1>6 DEF Grows
  <1>8. TypeOK'
    <2>1. fdcTxs' \in Seq([pay : Nat, state : {"pending", "mined", "reverted"}])
      BY <1>6 DEF RequestRecord
    <2> QED BY <1>1, <2>1 DEF Inv, TypeOK, row, process
  <1>9. RequestsAttest'
    BY <1>1, <1>4, <1>6 DEF Inv, RequestsAttest
  <1> QED BY <1>1, <1>7, <1>8, <1>9, ChainsMove

\* A mint that is mined was not executed before.
LEMMA MineMintKeepsInv ==
    ASSUME Inv, NEW i \in DOMAIN mints, MineMint(i)
    PROVE  Inv'
  <1>1. /\ mints[i].state = "pending"
        /\ UNCHANGED <<row, process, payments, fdcTxs, settings, faults>>
        /\ delays' \in {delays, delays + 1}
    BY DEF MineMint
  <1>2. PICK s \in MintStates : mints' = [mints EXCEPT ![i].state = s]
    BY DEF MineMint, MintStates
  <1> DEFINE mint == [mints[i] EXCEPT !.state = s]
  <1>3. mints \in Seq(MintRecord) /\ mints[i] \in MintRecord
    BY WorldTypes DEF Inv, TypeOK, MintRecord
  <1>4. mint \in MintRecord /\ mint.kind = mints[i].kind
    BY <1>3 DEF MintRecord
  <1>5. mints' = [mints EXCEPT ![i] = mint]
    BY <1>2
  <1>6. /\ mints' \in Seq(MintRecord) /\ DOMAIN mints' = DOMAIN mints
        /\ mints'[i] = mint
        /\ \A j \in DOMAIN mints \ {i} : mints'[j] = mints[j]
    <2> HIDE DEF mint
    <2> QED BY <1>3, <1>4, <1>5, Replaced
  <1> HIDE DEF mint
  <1>7. Grows
    BY <1>1, <1>4, <1>6 DEF Grows
  <1>8. TypeOK'
    <2>1. mints' \in Seq([kind : {"flag", "retry"}, state : MintStates])
      BY <1>6 DEF MintRecord
    <2> QED BY <1>1, <2>1 DEF Inv, TypeOK, row, process
  <1>9. RequestsAttest'
    BY <1>1 DEF Inv, RequestsAttest
  <1> QED BY <1>1, <1>7, <1>8, <1>9, ChainsMove

\* New settings change nothing that has happened.
LEMMA SettingsKeepInv ==
    ASSUME Inv, ChangeSettings
    PROVE  Inv'
  <1>1. /\ settings' \in FeeSettings
        /\ UNCHANGED <<row, process, payments, fdcTxs, mints, delays, faults>>
    BY DEF ChangeSettings
  <1>2. Grows
    BY <1>1 DEF Grows
  <1>3. TypeOK'
    BY <1>1 DEF Inv, TypeOK, row, process
  <1>4. RequestsAttest'
    BY <1>1 DEF Inv, RequestsAttest
  <1> QED BY <1>1, <1>2, <1>3, <1>4, ChainsMove

\* At the start nothing is claimed.
LEMMA InitInv == Init => Inv
  <1> SUFFICES ASSUME Init PROVE Inv
    OBVIOUS
  <1>1. TypeOK
    <2>1. /\ payments \in Seq([amount : Nat, seq : Nat, state : PaymentStates])
          /\ fdcTxs \in Seq([pay : Nat, state : {"pending", "mined", "reverted"}])
          /\ mints \in Seq([kind : {"flag", "retry"}, state : MintStates])
      BY DEF Init
    <2> QED BY <2>1 DEF Init, TypeOK, Stuck, Job, Labels
  <1>2. DOMAIN fdcTxs = {}
    BY DEF Init
  <1>3. RequestsAttest
    BY <1>2 DEF RequestsAttest
  <1>4. RowBacked
    BY DEF Init, RowBacked, Stuck, Attested, Proved, Flagged
  <1>5. \A p \in Operators : ReadBacked(p)
    BY DEF Init, ReadBacked
  <1> QED BY <1>1, <1>3, <1>4, <1>5 DEF Inv

\* Every step keeps the invariant.
LEMMA NextKeepsInv == Inv /\ [Next]_vars => Inv'
  <1> SUFFICES ASSUME Inv, [Next]_vars PROVE Inv'
    OBVIOUS
  <1>1. ASSUME NEW p \in Operators, Start(p) \/ Step(p) \/ Fault(p)
        PROVE  Inv'
    BY <1>1, StartKeepsInv, LeavingKeepsInv, ReadKeepsInv, SignKeepsInv, SubmitKeepsInv,
       FinalityKeepsInv, RequestKeepsInv, CheckpointFdcKeepsInv, OwnRoundKeepsInv,
       ProofKeepsInv, SimulateKeepsInv, BroadcastKeepsInv, CheckpointMintKeepsInv,
       ReceiptKeepsInv DEF Step
  <1>2. CASE Environment
    BY <1>2, SettleKeepsInv, MineRequestKeepsInv, MineMintKeepsInv DEF Environment
  <1>3. CASE ChangeSettings
    BY <1>3, SettingsKeepInv
  <1>4. CASE UNCHANGED vars
    <2>1. UNCHANGED <<row, process>> /\ UNCHANGED <<world, faults>>
      BY <1>4 DEF vars
    <2>2. Grows
      BY <2>1, QuietStep
    <2>3. TypeOK' /\ RequestsAttest'
      BY <2>1 DEF Inv, TypeOK, RequestsAttest, row, process, world
    <2> QED BY <2>1, <2>2, <2>3, ChainsMove
  <1> QED BY <1>1, <1>2, <1>3, <1>4 DEF Next

\* Every variable keeps its type.
THEOREM RecoveryTypeCorrect == Spec => []TypeOK
  <1>1. Inv => TypeOK
    BY DEF Inv
  <1> QED BY <1>1, InitInv, NextKeepsInv, PTL DEF Spec

\* Every stage that the row reports is backed by the chains, for any number of
\* operators that run the script at the same time.
THEOREM StagesMatchChain == Spec => []StageMatchesChain
  <1>1. Inv => StageMatchesChain
    <2> SUFFICES ASSUME Inv PROVE StageMatchesChain
      OBVIOUS
    <2>1. RowBacked /\ RequestsAttest
      BY DEF Inv
    <2> QED BY <2>1 DEF RowBacked, RequestsAttest, StageMatchesChain, Attested, Proved
  <1> QED BY <1>1, InitInv, NextKeepsInv, PTL DEF Spec

---------------------------------------------------------------------------
(* One payment                                                             *)

SingleOperator == \A p, q \in Operators : p = q

\* While the row asks for a recovery nothing has been signed, and only then does the
\* one operator sign.
Unpaid ==
    /\ job.status = "RECOVERY_REQUIRED" => Len(payments) = 0
    /\ Len(payments) \in 0 .. 1
    /\ \A p \in Operators : pc[p] = "sign" => job.status = "RECOVERY_REQUIRED"

\* What every step but the signature keeps.
SignsNothing(p) ==
    /\ Len(payments') = Len(payments)
    /\ job.status # "RECOVERY_REQUIRED" => job'.status # "RECOVERY_REQUIRED"
    /\ pc'[p] # "sign" \/ job'.status = "RECOVERY_REQUIRED"

\* A transition to any other status signs nothing and asks for no signature.
LEMMA TransitionSignsNothing ==
    ASSUME Inv, NEW p \in Operators, NEW r, NEW next \in Labels \ {"sign"},
           r.status \in RecoveryStatuses, Transition(p, r, next), UNCHANGED payments
    PROVE  SignsNothing(p)
  <1>1. pc'[p] # "sign"
    BY DEF Transition, Goto, Leave, Inv, TypeOK
  <1>2. job' = job \/ job' = r
    BY DEF Transition
  <1> QED BY <1>1, <1>2 DEF SignsNothing, RecoveryStatuses

\* The signature is the only step that signs.
LEMMA StepSignsNothing ==
    ASSUME Inv, NEW p \in Operators, Start(p) \/ Step(p) \/ Fault(p), ~Sign(p)
    PROVE  SignsNothing(p)
  <1> DEFINE Ends == /\ pc'[p] # "sign" /\ UNCHANGED <<job, payments>>
  <1>1. CASE Ends
    BY <1>1 DEF SignsNothing
  <1>2. ASSUME Leave(p) \/ Goto(p, "top") PROVE pc'[p] # "sign"
    BY <1>2 DEF Leave, Goto, Inv, TypeOK
  <1>3. CASE Start(p)
    BY <1>3, <1>1 DEF Start, Inv, TypeOK, row, world
  <1>4. CASE CheckUnused(p) \/ Fault(p) \/ Reject(p)
    BY <1>4, <1>1, <1>2 DEF CheckUnused, Fault, Reject, row, world
  <1>5. CASE Read(p)
    <2>1. UNCHANGED <<job, payments>>
      BY <1>5 DEF Read, world
    <2>2. CASE Leave(p)
      BY <1>1, <1>2, <2>1, <2>2
    <2>3. CASE pc' = [pc EXCEPT ![p] = Branch[job.status]]
      <3>1. job.status \in RecoveryStatuses \cup {"RECOVERY_REQUIRED"}
        BY DEF Inv, TypeOK, Job
      <3>2. Branch[job.status] = "sign" /\ job.status # "RECOVERED" =>
                job.status = "RECOVERY_REQUIRED"
        BY <3>1 DEF Branch, RecoveryStatuses
      <3>3. CASE job.status = "RECOVERED"
        BY <1>5, <1>1, <1>2, <2>1, <3>3 DEF Read
      <3>4. CASE job.status # "RECOVERED"
        BY <2>1, <2>3, <3>2, <3>4 DEF SignsNothing, Inv, TypeOK
      <3> QED BY <3>3, <3>4
    <2> QED BY <1>5, <2>2, <2>3 DEF Read
  <1>6. CASE SubmitPayment(p)
    <2> DEFINE x == seen[p].payment
               paid == [payments[x] EXCEPT !.state =
                           IF payments[x].state = "signed" THEN "submitted"
                                                           ELSE payments[x].state]
    <2>1. payments' = [payments EXCEPT ![x] = paid] /\ UNCHANGED job /\ Goto(p, "finality")
      BY <1>6 DEF SubmitPayment, row
    <2>2. payments \in Seq(PaymentRecord) /\ x \in DOMAIN payments
      BY <1>6 DEF SubmitPayment, Inv, ReadBacked, TypeOK, PaymentRecord
    <2>3. payments[x] \in PaymentRecord
      BY <2>2, WorldTypes DEF Inv
    <2>4. paid \in PaymentRecord
      BY <2>3 DEF PaymentRecord, PaymentStates
    <2>5. Len(payments') = Len(payments)
      <3> HIDE DEF paid, x
      <3> QED BY <2>1, <2>2, <2>4, Replaced
    <2>6. pc'[p] # "sign"
      BY <2>1 DEF Goto, Inv, TypeOK
    <2> QED BY <2>1, <2>5, <2>6 DEF SignsNothing
  <1>7. CASE RequestAttestation(p) \/ Broadcast(p)
    <2>1. UNCHANGED <<job, payments>> /\ pc'[p] # "sign"
      BY <1>7 DEF RequestAttestation, Broadcast, Inv, TypeOK, row
    <2> QED BY <1>1, <2>1
  <1>8. CASE AwaitFinality(p) \/ CheckpointFdcTx(p) \/ OwnRound(p) \/ AwaitProof(p)
             \/ Simulate(p) \/ CheckpointMintTx(p) \/ AwaitReceipt(p)
    <2>1. UNCHANGED payments
      BY <1>8 DEF AwaitFinality, CheckpointFdcTx, OwnRound, AwaitProof, Simulate,
                  CheckpointMintTx, AwaitReceipt, world
    <2>2. CASE Leave(p) /\ UNCHANGED job
      BY <1>1, <1>2, <2>1, <2>2
    <2>3. CASE \E r, next : /\ r.status \in RecoveryStatuses /\ next \in Labels \ {"sign"}
                            /\ Transition(p, r, next)
      BY <2>1, <2>3, TransitionSignsNothing
    <2>4. job \in Job /\ Kind(seen[p].status) \in {"flag", "retry"}
      BY DEF Inv, TypeOK, Kind
    <2>5. ASSUME NEW s \in RecoveryStatuses PROVE [job EXCEPT !.status = s].status = s
      BY <2>4 DEF Job
    <2>6. CASE AwaitFinality(p)
      <3> DEFINE r == [job EXCEPT !.status = "RECOVERY_PAYMENT_FINALIZED"]
      <3>1. r.status \in RecoveryStatuses /\ Transition(p, r, "top")
        BY <2>6, <2>4 DEF AwaitFinality, RecoveryStatuses, Job
      <3> HIDE DEF r
      <3> QED BY <3>1, <2>3 DEF Labels
    <2>7. CASE CheckpointFdcTx(p)
      <3> DEFINE r == [job EXCEPT !.status = "RECOVERY_PAYMENT_FINALIZED", !.fdcTx = sent[p]]
      <3>1. r.status \in RecoveryStatuses /\ Transition(p, r, "ownRound")
        BY <2>7, <2>4 DEF CheckpointFdcTx, RecoveryStatuses, Job
      <3> HIDE DEF r
      <3> QED BY <3>1, <2>3 DEF Labels
    <2>8. CASE OwnRound(p)
      <3> DEFINE r == [job EXCEPT !.status = "RECOVERY_FDC_REQUESTED",
                                  !.fdcTx = sent[p], !.round = sent[p]]
      <3>1. \/ r.status \in RecoveryStatuses /\ Transition(p, r, "top")
            \/ Leave(p) /\ UNCHANGED job
        BY <2>8, <2>4 DEF OwnRound, RecoveryStatuses, Job
      <3> HIDE DEF r
      <3> QED BY <3>1, <2>2, <2>3 DEF Labels
    <2>9. CASE AwaitProof(p)
      <3> DEFINE r == [job EXCEPT !.status = "RECOVERY_PROOF_READY"]
      <3>1. \/ r.status \in RecoveryStatuses /\ Transition(p, r, "top")
            \/ Leave(p) /\ UNCHANGED job
        BY <2>9, <2>4 DEF AwaitProof, RecoveryStatuses, Job
      <3> HIDE DEF r
      <3> QED BY <3>1, <2>2, <2>3 DEF Labels
    <2>10. CASE Simulate(p)
      <3> DEFINE r == [job EXCEPT !.status = seen[p].status]
      <3>1. seen[p].status \in RecoveryStatuses
        BY <2>10 DEF Simulate, Inv, ReadBacked, RecoveryStatuses
      <3>2. \/ r.status \in RecoveryStatuses /\ Transition(p, r, "send")
            \/ Leave(p) /\ UNCHANGED job
        BY <2>10, <2>4, <3>1 DEF Simulate, Job
      <3> HIDE DEF r
      <3> QED BY <3>2, <2>2, <2>3 DEF Labels
    <2>11. CASE CheckpointMintTx(p)
      <3> DEFINE k == Kind(seen[p].status)
                 flag == IF k = "flag" THEN sent[p] ELSE job.flagTx
                 retry == IF k = "retry" THEN sent[p] ELSE job.retryTx
                 r == [job EXCEPT !.status = Submitted[k], !.flagTx = flag, !.retryTx = retry]
      <3>1. Transition(p, r, "receipt")
        BY <2>11 DEF CheckpointMintTx
      <3>2. Submitted[k] \in RecoveryStatuses
        BY <2>4 DEF Submitted, RecoveryStatuses
      <3>3. r.status = Submitted[k]
        <4> HIDE DEF flag, retry
        <4> QED BY <2>4 DEF Job
      <3> HIDE DEF r
      <3> QED BY <3>1, <3>2, <3>3, <2>3 DEF Labels
    <2>12. CASE AwaitReceipt(p)
      <3> DEFINE k == Kind(seen[p].status)
                 r == [job EXCEPT !.status = Confirmed[k]]
      <3>1. Confirmed[k] \in RecoveryStatuses
        BY <2>4 DEF Confirmed, RecoveryStatuses
      <3>2. \/ r.status \in RecoveryStatuses /\ Transition(p, r, "top")
            \/ Leave(p) /\ UNCHANGED job
        BY <2>12, <2>4, <3>1 DEF AwaitReceipt, Job
      <3> HIDE DEF r
      <3> QED BY <3>2, <2>2, <2>3 DEF Labels
    <2> QED BY <1>8, <2>6, <2>7, <2>8, <2>9, <2>10, <2>11, <2>12
  <1> QED BY <1>3, <1>4, <1>5, <1>6, <1>7, <1>8 DEF Step

\* Signing needs a row that asks for a recovery, which is then answered.
LEMMA SignsOnce ==
    ASSUME Inv, Unpaid, SingleOperator, NEW p \in Operators, Sign(p)
    PROVE  Unpaid'
  <1> DEFINE paid == [amount |-> quoteOf[p], seq |-> AccountSequence, state |-> "signed"]
             r == [job EXCEPT !.status = "RECOVERY_PAYMENT_SIGNED",
                              !.payment = Len(payments) + 1]
  <1>1. /\ pc[p] = "sign" /\ payments' = Append(payments, paid) /\ Transition(p, r, "top")
    BY DEF Sign
  <1>2. payments \in Seq(PaymentRecord) /\ paid \in PaymentRecord
    BY AccountSequenceIsNat DEF Inv, TypeOK, PaymentRecord, PaymentStates
  <1>3. Len(payments') = Len(payments) + 1
    <2> HIDE DEF paid
    <2> QED BY <1>1, <1>2, AppendProperties
  <1>4. job.status = "RECOVERY_REQUIRED" /\ Len(payments) = 0
    BY <1>1 DEF Unpaid
  <1>5. r.status = "RECOVERY_PAYMENT_SIGNED"
    BY DEF Inv, TypeOK, Job
  <1>6. CanTransition(job.status, r.status)
    BY <1>4, <1>5, Moves
  <1> HIDE DEF r
  <1>7. job'.status = "RECOVERY_PAYMENT_SIGNED" /\ pc' = [pc EXCEPT ![p] = "top"]
    BY <1>1, <1>5, <1>6 DEF Transition, Goto
  <1>8. \A q \in Operators : pc'[q] = "top"
    BY <1>7 DEF SingleOperator, Inv, TypeOK
  <1> QED BY <1>3, <1>4, <1>7, <1>8 DEF Unpaid

\* With one operator, every step keeps the account of what was signed.
LEMMA NextKeepsUnpaid ==
    ASSUME SingleOperator
    PROVE  Inv /\ Unpaid /\ [Next]_vars => Unpaid'
  <1> SUFFICES ASSUME Inv, Unpaid, [Next]_vars PROVE Unpaid'
    OBVIOUS
  <1>1. ASSUME NEW p \in Operators, Start(p) \/ Step(p) \/ Fault(p)
        PROVE  Unpaid'
    <2>1. CASE Sign(p)
      BY <2>1, SignsOnce
    <2>2. CASE ~Sign(p)
      <3>1. SignsNothing(p)
        BY <1>1, <2>2, StepSignsNothing
      <3>2. \A q \in Operators : q = p
        BY DEF SingleOperator
      <3>3. Len(payments') \in 0 .. 1 /\ (job'.status = "RECOVERY_REQUIRED" => Len(payments') = 0)
        BY <3>1 DEF SignsNothing, Unpaid
      <3> QED BY <3>1, <3>2, <3>3 DEF SignsNothing, Unpaid
    <2> QED BY <2>1, <2>2
  <1>2. CASE \E x \in DOMAIN payments : SettlePayment(x)
    <2>1. PICK x \in DOMAIN payments : SettlePayment(x)
      BY <1>2
    <2>2. PICK s \in {"validated", "failed", "expired"} :
              payments' = [payments EXCEPT ![x].state = s]
      BY <2>1 DEF SettlePayment
    <2> DEFINE paid == [payments[x] EXCEPT !.state = s]
    <2>3. payments \in Seq(PaymentRecord) /\ payments[x] \in PaymentRecord
      BY WorldTypes DEF Inv, TypeOK, PaymentRecord
    <2>4. paid \in PaymentRecord /\ payments' = [payments EXCEPT ![x] = paid]
      BY <2>2, <2>3 DEF PaymentRecord, PaymentStates
    <2>5. Len(payments') = Len(payments)
      <3> HIDE DEF paid
      <3> QED BY <2>3, <2>4, Replaced
    <2>6. UNCHANGED <<job, pc>>
      BY <2>1 DEF SettlePayment, row, process
    <2> QED BY <2>5, <2>6 DEF Unpaid
  <1>3. CASE UNCHANGED <<job, pc, payments>>
    BY <1>3 DEF Unpaid
  <1>4. ChangeSettings \/ UNCHANGED vars => UNCHANGED <<job, pc, payments>>
    BY DEF ChangeSettings, vars, row, process, world
  <1>5. Environment => \/ \E x \in DOMAIN payments : SettlePayment(x)
                       \/ UNCHANGED <<job, pc, payments>>
    BY DEF Environment, MineFdcRequest, MineMint, row, process
  <1> QED BY <1>1, <1>2, <1>3, <1>4, <1>5 DEF Next

\* One operator, however often the script dies and is started again, pays for the
\* recovery at most once.
THEOREM OneRecovery ==
    ASSUME SingleOperator
    PROVE  Spec => []OneRecoveryPayment
  <1>1. Init => Unpaid
    BY DEF Init, Unpaid, Stuck
  <1>2. Inv /\ Unpaid => OneRecoveryPayment
    <2> SUFFICES ASSUME Inv, Unpaid PROVE OneRecoveryPayment
      OBVIOUS
    <2>1. payments \in Seq(PaymentRecord)
      BY DEF Inv, TypeOK, PaymentRecord
    <2>2. DOMAIN payments = 1 .. Len(payments) /\ Len(payments) \in 0 .. 1
      BY <2>1, LenProperties DEF Unpaid
    <2>3. \A x, y \in DOMAIN payments : x = y
      BY <2>2
    <2> QED BY <2>3 DEF OneRecoveryPayment
  <1> QED BY <1>1, <1>2, InitInv, NextKeepsInv, NextKeepsUnpaid, PTL DEF Spec

---------------------------------------------------------------------------
(* The timeline of a recovery                                              *)

TookEffect(i, kind) ==
    Minting(i, kind) /\ mints[i] = [kind |-> kind, state |-> "EXECUTED"]

NamedMint(kind) == IF kind = "flag" THEN job.flagTx ELSE job.retryTx

\* The mints that the row names are those that took effect, from the stage on that
\* confirms them.
NamesEffective ==
    /\ job.status \in Flagged => TookEffect(job.flagTx, "flag")
    /\ job.status = "RECOVERED" => TookEffect(job.retryTx, "retry")

\* Nobody moves the row between a process's read of it and the process's own
\* transition, so the mint it waits for is the one the row names.
Follows(p) ==
    /\ pc[p] \in {"prove", "send", "sent"} => job.status = seen[p].status
    /\ pc[p] \in {"receipt", "reconcile"} =>
         /\ job.status = Submitted[Kind(seen[p].status)]
         /\ sent[p] = NamedMint(Kind(seen[p].status))

NamesInv == Inv /\ NamesEffective /\ \A p \in Operators : Follows(p)

\* What mints have done stays done.
MintsStay == \A i, kind : TookEffect(i, kind) => TookEffect(i, kind)'

LEMMA NextMintsStay == Inv /\ [Next]_vars => MintsStay
  <1> SUFFICES ASSUME Inv, [Next]_vars PROVE MintsStay
    OBVIOUS
  <1>1. CASE UNCHANGED mints
    BY <1>1 DEF MintsStay, TookEffect, Minting
  <1>2. mints \in Seq(MintRecord)
    BY DEF Inv, TypeOK, MintRecord
  <1>3. ASSUME NEW p \in Operators, Broadcast(p)
        PROVE  MintsStay
    <2> DEFINE mint == [kind |-> Kind(seen[p].status), state |-> "pending"]
    <2>1. mint \in MintRecord /\ mints' = Append(mints, mint)
      BY <1>3 DEF Broadcast, MintRecord, Kind, MintStates
    <2>2. /\ DOMAIN mints \subseteq DOMAIN mints'
          /\ \A i \in DOMAIN mints : mints'[i] = mints[i]
      <3> HIDE DEF mint
      <3> QED BY <1>2, <2>1, Appended
    <2> QED BY <2>2 DEF MintsStay, TookEffect, Minting
  <1>4. ASSUME NEW i \in DOMAIN mints, MineMint(i)
        PROVE  MintsStay
    <2>1. PICK s \in MintStates : mints' = [mints EXCEPT ![i].state = s]
      BY <1>4 DEF MineMint, MintStates
    <2> DEFINE mint == [mints[i] EXCEPT !.state = s]
    <2>2. mint \in MintRecord /\ mints' = [mints EXCEPT ![i] = mint]
      BY <2>1, WorldTypes DEF Inv, MintRecord
    <2>3. /\ DOMAIN mints' = DOMAIN mints
          /\ \A j \in DOMAIN mints \ {i} : mints'[j] = mints[j]
      <3> HIDE DEF mint
      <3> QED BY <1>2, <2>2, Replaced
    <2>4. mints[i].state = "pending"
      BY <1>4 DEF MineMint
    <2> QED BY <2>3, <2>4 DEF MintsStay, TookEffect, Minting
  <1>5. ASSUME NEW p \in Operators, Start(p) \/ Step(p) \/ Fault(p), ~Broadcast(p)
        PROVE  UNCHANGED mints
    <2>1. CASE Start(p) \/ Fault(p)
      BY <2>1 DEF Start, Fault, world
    <2>2. CASE CheckUnused(p) \/ Read(p) \/ Sign(p) \/ SubmitPayment(p) \/ AwaitFinality(p)
      BY <2>2 DEF CheckUnused, Read, Sign, SubmitPayment, AwaitFinality, world
    <2>3. CASE RequestAttestation(p) \/ CheckpointFdcTx(p) \/ OwnRound(p) \/ AwaitProof(p)
      BY <2>3 DEF RequestAttestation, CheckpointFdcTx, OwnRound, AwaitProof, world
    <2>4. CASE Simulate(p) \/ CheckpointMintTx(p) \/ AwaitReceipt(p) \/ Reject(p)
      BY <2>4 DEF Simulate, CheckpointMintTx, AwaitReceipt, Reject, world
    <2> QED BY <1>5, <2>1, <2>2, <2>3, <2>4 DEF Step
  <1>6. CASE Environment
    BY <1>1, <1>4, <1>6 DEF Environment, SettlePayment, MineFdcRequest
  <1>7. CASE ChangeSettings \/ UNCHANGED vars
    BY <1>1, <1>7 DEF ChangeSettings, vars, world
  <1> QED BY <1>1, <1>3, <1>5, <1>6, <1>7 DEF Next

\* A process that ends, or goes where it waits for no mint, follows the row; the row
\* it leaves behind names what it did.
LEMMA FollowsAway ==
    ASSUME SingleOperator, NamesInv, MintsStay, NEW p \in Operators,
           pc'[p] \notin {"prove", "send", "sent", "receipt", "reconcile"},
           \/ UNCHANGED job
           \/ job'.status \notin Flagged
    PROVE  NamesEffective' /\ \A q \in Operators : Follows(q)'
  <1>1. Follows(p)'
    BY DEF Follows
  <1>2. NamesEffective'
    BY DEF NamesEffective, NamesInv, MintsStay, Flagged
  <1> QED BY <1>1, <1>2 DEF SingleOperator

\* A transition of the row before any mint is confirmed.
LEMMA EarlyTransition ==
    ASSUME SingleOperator, NamesInv, MintsStay, NEW p \in Operators, NEW r, NEW next,
           next \in {"top", "ownRound"}, r.status \notin Flagged, Transition(p, r, next)
    PROVE  NamesEffective' /\ \A q \in Operators : Follows(q)'
  <1>1. pc'[p] \in {"idle", "top", "ownRound"}
    BY DEF Transition, Leave, Goto, NamesInv, Inv, TypeOK
  <1>2. UNCHANGED job \/ job' = r
    BY DEF Transition
  <1> QED BY <1>1, <1>2, FollowsAway

\* Whoever reads that a mint was submitted waits for the one the row names.
LEMMA ReadFollows ==
    ASSUME SingleOperator, NamesInv, MintsStay, NEW p \in Operators, Read(p)
    PROVE  NamesEffective' /\ \A q \in Operators : Follows(q)'
  <1>1. job' = job /\ job \in Job
    BY DEF Read, NamesInv, Inv, TypeOK
  <1>2. NamesEffective'
    BY <1>1 DEF NamesEffective, NamesInv, MintsStay
  <1>3. CASE Leave(p)
    BY <1>1, <1>3, FollowsAway DEF Leave, NamesInv, Inv, TypeOK
  <1>4. CASE ~Leave(p)
    <2> DEFINE tx == CASE job.status = "RECOVERY_FLAG_SUBMITTED"  -> job.flagTx
                       [] job.status = "RECOVERY_STUCK_SUBMITTED" -> job.retryTx
                       [] OTHER -> 0
    <2>1. /\ job.status # "RECOVERED"
          /\ seen' = [seen EXCEPT ![p] = job]
          /\ sent' = [sent EXCEPT ![p] = tx]
          /\ pc' = [pc EXCEPT ![p] = Branch[job.status]]
      BY <1>4 DEF Read
    <2>2. /\ job.status = "RECOVERY_FLAG_SUBMITTED" => tx = job.flagTx
          /\ job.status = "RECOVERY_STUCK_SUBMITTED" => tx = job.retryTx
      OBVIOUS
    <2> HIDE DEF tx
    <2>3. seen'[p] = job /\ sent'[p] = tx /\ pc'[p] = Branch[job.status]
      BY <2>1 DEF NamesInv, Inv, TypeOK
    <2>4. Branch[job.status] = "reconcile" =>
              job.status \in {"RECOVERY_FLAG_SUBMITTED", "RECOVERY_STUCK_SUBMITTED"}
      BY <1>1, <2>1 DEF Branch, Job, RecoveryStatuses
    <2>5. Branch[job.status] # "receipt"
      BY <1>1, <2>1 DEF Branch, Job, RecoveryStatuses
    <2>6. CASE job.status = "RECOVERY_FLAG_SUBMITTED"
      <3>1. Kind(job.status) = "flag" /\ Submitted["flag"] = job.status /\ tx = job.flagTx
        BY <2>2, <2>6 DEF Kind, Submitted
      <3>2. Follows(p)'
        BY <1>1, <2>3, <3>1 DEF Follows, NamedMint
      <3> QED BY <1>2, <3>2 DEF SingleOperator
    <2>7. CASE job.status = "RECOVERY_STUCK_SUBMITTED"
      <3>1. Kind(job.status) = "retry" /\ Submitted["retry"] = job.status /\ tx = job.retryTx
        BY <2>2, <2>7 DEF Kind, Submitted
      <3>2. Follows(p)'
        BY <1>1, <2>3, <3>1 DEF Follows, NamedMint
      <3> QED BY <1>2, <3>2 DEF SingleOperator
    <2>8. CASE Branch[job.status] # "reconcile"
      <3>1. Follows(p)'
        BY <1>1, <2>3, <2>5, <2>8 DEF Follows
      <3> QED BY <1>2, <3>1 DEF SingleOperator
    <2> QED BY <2>4, <2>6, <2>7, <2>8
  <1> QED BY <1>3, <1>4

\* The steps of the payment and of the attestation confirm no mint.
LEMMA PaymentFollows ==
    ASSUME SingleOperator, NamesInv, MintsStay, NEW p \in Operators,
           \/ Start(p) \/ CheckUnused(p) \/ Fault(p) \/ Reject(p) \/ Sign(p)
           \/ SubmitPayment(p) \/ AwaitFinality(p) \/ RequestAttestation(p)
           \/ CheckpointFdcTx(p) \/ OwnRound(p) \/ AwaitProof(p)
    PROVE  NamesEffective' /\ \A q \in Operators : Follows(q)'
  <1>1. job \in Job /\ pc \in [Operators -> Labels]
    BY DEF NamesInv, Inv, TypeOK
  <1>2. ASSUME UNCHANGED job,
               \/ Leave(p) \/ Goto(p, "top") \/ Goto(p, "finality")
               \/ pc' = [pc EXCEPT ![p] = "check"] \/ pc' = [pc EXCEPT ![p] = "attested"]
        PROVE  NamesEffective' /\ \A q \in Operators : Follows(q)'
    <2>1. pc'[p] \in {"idle", "top", "finality", "check", "attested"}
      BY <1>1, <1>2 DEF Leave, Goto
    <2> QED BY <1>2, <2>1, FollowsAway
  <1>3. CASE Start(p) \/ CheckUnused(p) \/ Fault(p) \/ Reject(p)
             \/ SubmitPayment(p) \/ RequestAttestation(p)
    BY <1>3, <1>2 DEF Start, CheckUnused, Fault, Reject, SubmitPayment, RequestAttestation, row
  <1>4. CASE Sign(p)
    <2> DEFINE r == [job EXCEPT !.status = "RECOVERY_PAYMENT_SIGNED",
                                !.payment = Len(payments) + 1]
    <2>1. Transition(p, r, "top") /\ r.status \notin Flagged
      BY <1>1, <1>4 DEF Sign, Job, Flagged
    <2> HIDE DEF r
    <2> QED BY <2>1, EarlyTransition
  <1>5. CASE AwaitFinality(p)
    <2> DEFINE r == [job EXCEPT !.status = "RECOVERY_PAYMENT_FINALIZED"]
    <2>1. Transition(p, r, "top") /\ r.status \notin Flagged
      BY <1>1, <1>5 DEF AwaitFinality, Job, Flagged
    <2> HIDE DEF r
    <2> QED BY <2>1, EarlyTransition
  <1>6. CASE CheckpointFdcTx(p)
    <2> DEFINE r == [job EXCEPT !.status = "RECOVERY_PAYMENT_FINALIZED", !.fdcTx = sent[p]]
    <2>1. Transition(p, r, "ownRound") /\ r.status \notin Flagged
      BY <1>1, <1>6 DEF CheckpointFdcTx, Job, Flagged
    <2> HIDE DEF r
    <2> QED BY <2>1, EarlyTransition
  <1>7. CASE OwnRound(p)
    <2> DEFINE r == [job EXCEPT !.status = "RECOVERY_FDC_REQUESTED",
                                !.fdcTx = sent[p], !.round = sent[p]]
    <2>1. \/ Transition(p, r, "top") /\ r.status \notin Flagged
          \/ Leave(p) /\ UNCHANGED job
      BY <1>1, <1>7 DEF OwnRound, Job, Flagged
    <2> HIDE DEF r
    <2> QED BY <1>2, <2>1, EarlyTransition
  <1>8. CASE AwaitProof(p)
    <2> DEFINE r == [job EXCEPT !.status = "RECOVERY_PROOF_READY"]
    <2>1. \/ Transition(p, r, "top") /\ r.status \notin Flagged
          \/ Leave(p) /\ UNCHANGED job
      BY <1>1, <1>8 DEF AwaitProof, Job, Flagged
    <2> HIDE DEF r
    <2> QED BY <1>2, <2>1, EarlyTransition
  <1> QED BY <1>3, <1>4, <1>5, <1>6, <1>7, <1>8

\* A simulation that passes writes back the status the row still has.
LEMMA SimulateFollows ==
    ASSUME SingleOperator, NamesInv, MintsStay, NEW p \in Operators, Simulate(p)
    PROVE  NamesEffective' /\ \A q \in Operators : Follows(q)'
  <1> DEFINE r == [job EXCEPT !.status = seen[p].status]
  <1>1. job \in Job /\ job.status = seen[p].status
    BY DEF Simulate, NamesInv, Inv, TypeOK, Follows
  <1>2. r = job
    BY <1>1 DEF Job
  <1>3. Transition(p, r, "send") \/ (Leave(p) /\ UNCHANGED job)
    BY DEF Simulate
  <1>4. UNCHANGED job
    BY <1>2, <1>3 DEF Transition
  <1>5. CASE Leave(p)
    <2>1. pc'[p] = "idle"
      BY <1>5 DEF Leave, NamesInv, Inv, TypeOK
    <2> QED BY <1>4, <2>1, FollowsAway
  <1>6. CASE Goto(p, "send")
    <2>1. pc'[p] = "send" /\ seen' = seen
      BY <1>6 DEF Goto, NamesInv, Inv, TypeOK
    <2>2. Follows(p)'
      BY <1>1, <1>4, <2>1 DEF Follows
    <2>3. NamesEffective'
      BY <1>4 DEF NamesEffective, NamesInv, MintsStay
    <2> QED BY <2>2, <2>3 DEF SingleOperator
  <1> QED BY <1>3, <1>5, <1>6 DEF Transition

\* A broadcast does not touch the row.
LEMMA BroadcastFollows ==
    ASSUME SingleOperator, NamesInv, MintsStay, NEW p \in Operators, Broadcast(p)
    PROVE  NamesEffective' /\ \A q \in Operators : Follows(q)'
  <1>1. pc[p] = "send" /\ pc'[p] = "sent" /\ UNCHANGED <<job, seen>>
    BY DEF Broadcast, NamesInv, Inv, TypeOK, row
  <1>2. Follows(p)'
    BY <1>1 DEF Follows, NamesInv
  <1>3. NamesEffective'
    BY <1>1 DEF NamesEffective, NamesInv, MintsStay
  <1> QED BY <1>2, <1>3 DEF SingleOperator

\* The hash that the row keeps is the one the process then waits for.
LEMMA CheckpointMintFollows ==
    ASSUME SingleOperator, NamesInv, MintsStay, NEW p \in Operators, CheckpointMintTx(p)
    PROVE  NamesEffective' /\ \A q \in Operators : Follows(q)'
  <1> DEFINE k == Kind(seen[p].status)
             flag == IF k = "flag" THEN sent[p] ELSE job.flagTx
             retry == IF k = "retry" THEN sent[p] ELSE job.retryTx
             r == [job EXCEPT !.status = Submitted[k], !.flagTx = flag, !.retryTx = retry]
  <1>1. pc[p] = "sent" /\ Transition(p, r, "receipt")
    BY DEF CheckpointMintTx
  <1>2. job \in Job /\ job.status = seen[p].status /\ k \in {"flag", "retry"}
    BY <1>1 DEF NamesInv, Inv, TypeOK, Follows, Kind
  <1>3. seen[p].status \in {"RECOVERY_PROOF_READY", "RECOVERY_FLAG_SET"}
    BY <1>1 DEF NamesInv, Inv, ReadBacked
  <1>4. r.status = Submitted[k] /\ r.flagTx = flag /\ r.retryTx = retry
    <2> HIDE DEF flag, retry
    <2> QED BY <1>2 DEF Job
  <1>5. CASE Leave(p) /\ UNCHANGED job
    <2>1. pc'[p] = "idle"
      BY <1>5 DEF Leave, NamesInv, Inv, TypeOK
    <2> QED BY <1>5, <2>1, FollowsAway
  <1>6. CASE job' = r /\ Goto(p, "receipt")
    <2>1. pc'[p] = "receipt" /\ seen' = seen /\ sent' = sent
      BY <1>6 DEF Goto, NamesInv, Inv, TypeOK
    <2>2. CASE k = "flag"
      <3>1. Submitted[k] = "RECOVERY_FLAG_SUBMITTED" /\ flag = sent[p]
        BY <2>2 DEF Submitted
      <3> HIDE DEF r, flag, retry
      <3>2. job'.status = Submitted[k] /\ job'.flagTx = sent[p]
        BY <1>4, <1>6, <3>1
      <3>3. Follows(p)'
        BY <2>1, <2>2, <3>2 DEF Follows, NamedMint
      <3>4. NamesEffective'
        BY <3>1, <3>2 DEF NamesEffective, Flagged
      <3> QED BY <3>3, <3>4 DEF SingleOperator
    <2>3. CASE k = "retry"
      <3>1. /\ Submitted[k] = "RECOVERY_STUCK_SUBMITTED"
            /\ retry = sent[p] /\ flag = job.flagTx
        BY <2>3 DEF Submitted
      <3>2. job.status \in Flagged
        BY <1>2, <1>3, <2>3 DEF Kind, Flagged
      <3> HIDE DEF r, flag, retry
      <3>3. /\ job'.status = Submitted[k] /\ job'.retryTx = sent[p]
            /\ job'.flagTx = job.flagTx
        BY <1>4, <1>6, <3>1
      <3>4. Follows(p)'
        BY <2>1, <2>3, <3>3 DEF Follows, NamedMint
      <3>5. NamesEffective'
        BY <3>1, <3>2, <3>3 DEF NamesEffective, NamesInv, MintsStay
      <3> QED BY <3>4, <3>5 DEF SingleOperator
    <2> QED BY <1>2, <2>2, <2>3
  <1> QED BY <1>1, <1>5, <1>6 DEF Transition

\* What a receipt confirms is the mint the row names.
LEMMA ReceiptFollows ==
    ASSUME SingleOperator, NamesInv, MintsStay, NEW p \in Operators, AwaitReceipt(p)
    PROVE  NamesEffective' /\ \A q \in Operators : Follows(q)'
  <1> DEFINE k == Kind(seen[p].status)
             r == [job EXCEPT !.status = Confirmed[k]]
  <1>1. CASE Leave(p) /\ UNCHANGED job
    <2>1. pc'[p] = "idle"
      BY <1>1 DEF Leave, NamesInv, Inv, TypeOK
    <2> QED BY <1>1, <2>1, FollowsAway
  <1>2. CASE /\ pc[p] \in {"receipt", "reconcile"} /\ mints[sent[p]].state = "EXECUTED"
             /\ job' = r /\ Goto(p, "top")
    <2>1. job \in Job /\ k \in {"flag", "retry"} /\ pc'[p] = "top"
      BY <1>2 DEF Goto, NamesInv, Inv, TypeOK, Kind
    <2>2. job.status = Submitted[k] /\ sent[p] = NamedMint(k) /\ Minting(sent[p], k)
      BY <1>2 DEF NamesInv, Inv, Follows, ReadBacked
    <2>3. mints[sent[p]] \in MintRecord
      BY <2>2, WorldTypes DEF NamesInv, Inv, Minting
    <2>4. TookEffect(sent[p], k)
      BY <1>2, <2>2, <2>3 DEF TookEffect, Minting, MintRecord
    <2>5. /\ sent[p] \in DOMAIN mints'
          /\ mints'[sent[p]] = [kind |-> k, state |-> "EXECUTED"]
      BY <2>4 DEF MintsStay, TookEffect, Minting
    <2>6. r.status = Confirmed[k] /\ r.flagTx = job.flagTx /\ r.retryTx = job.retryTx
      BY <2>1 DEF Job
    <2>7. Follows(p)'
      BY <2>1 DEF Follows
    <2> HIDE DEF r
    <2>8. CASE k = "flag"
      <3>1. job'.status = "RECOVERY_FLAG_SET" /\ job'.flagTx = sent[p]
        BY <1>2, <2>2, <2>6, <2>8 DEF Confirmed, NamedMint
      <3>2. NamesEffective'
        BY <2>5, <2>8, <3>1 DEF NamesEffective, TookEffect, Minting
      <3> QED BY <2>7, <3>2 DEF SingleOperator
    <2>9. CASE k = "retry"
      <3>1. /\ job'.status = "RECOVERED" /\ job'.retryTx = sent[p]
            /\ job'.flagTx = job.flagTx
        BY <1>2, <2>2, <2>6, <2>9 DEF Confirmed, NamedMint
      <3>2. TookEffect(job.flagTx, "flag")
        BY <2>2, <2>9 DEF NamesInv, NamesEffective, Submitted, Flagged
      <3>3. /\ job.flagTx \in DOMAIN mints'
            /\ mints'[job.flagTx] = [kind |-> "flag", state |-> "EXECUTED"]
        BY <3>2 DEF MintsStay, TookEffect, Minting
      <3>4. NamesEffective'
        BY <2>5, <2>9, <3>1, <3>3 DEF NamesEffective, TookEffect, Minting
      <3> QED BY <2>7, <3>4 DEF SingleOperator
    <2> QED BY <2>1, <2>8, <2>9
  <1> QED BY <1>1, <1>2 DEF AwaitReceipt, Transition

\* With one operator every step keeps the row's names effective.
LEMMA NextKeepsNames ==
    ASSUME SingleOperator
    PROVE  NamesInv /\ [Next]_vars => NamesInv'
  <1> SUFFICES ASSUME NamesInv, [Next]_vars PROVE NamesInv'
    OBVIOUS
  <1>1. Inv' /\ MintsStay
    BY NextKeepsInv, NextMintsStay DEF NamesInv
  <1>2. ASSUME NEW p \in Operators, Start(p) \/ Step(p) \/ Fault(p)
        PROVE  NamesEffective' /\ \A q \in Operators : Follows(q)'
    BY <1>1, <1>2, PaymentFollows, ReadFollows, SimulateFollows, BroadcastFollows,
       CheckpointMintFollows, ReceiptFollows DEF Step
  <1>3. CASE UNCHANGED <<job, pc, seen, sent>>
    BY <1>1, <1>3 DEF NamesInv, NamesEffective, MintsStay, Follows, NamedMint, Kind
  <1>4. Environment \/ ChangeSettings \/ UNCHANGED vars => UNCHANGED <<job, pc, seen, sent>>
    BY DEF Environment, SettlePayment, MineFdcRequest, MineMint, ChangeSettings, vars, row,
           process, world
  <1> QED BY <1>1, <1>2, <1>3, <1>4 DEF Next, NamesInv

\* The place of each step.
LEMMA StepPlaces ==
    /\ DOMAIN RecoverySteps = 1 .. 9
    /\ \A n \in 1 .. 9 : Index(RecoverySteps[n]) = n
  <1>1. DOMAIN RecoverySteps = 1 .. 9
    BY DEF RecoverySteps
  <1>2. /\ RecoverySteps[1] = "RECOVERY_REQUIRED"
        /\ RecoverySteps[2] = "RECOVERY_PAYMENT_SIGNED"
        /\ RecoverySteps[3] = "RECOVERY_PAYMENT_FINALIZED"
        /\ RecoverySteps[4] = "RECOVERY_FDC_REQUESTED"
        /\ RecoverySteps[5] = "RECOVERY_PROOF_READY"
        /\ RecoverySteps[6] = "RECOVERY_FLAG_SUBMITTED"
        /\ RecoverySteps[7] = "RECOVERY_FLAG_SET"
        /\ RecoverySteps[8] = "RECOVERY_STUCK_SUBMITTED"
        /\ RecoverySteps[9] = "RECOVERED"
    BY DEF RecoverySteps
  <1>3. \A n \in 1 .. 9 : \/ n = 1 \/ n = 2 \/ n = 3 \/ n = 4 \/ n = 5
                          \/ n = 6 \/ n = 7 \/ n = 8 \/ n = 9
    OBVIOUS
  <1>4. \A m, n \in 1 .. 9 : RecoverySteps[m] = RecoverySteps[n] => m = n
    BY <1>2, <1>3
  <1>5. ASSUME NEW step, NEW n \in 1 .. 9, RecoverySteps[n] = step,
               \A m \in 1 .. 9 : RecoverySteps[m] = step => m = n
        PROVE  Index(step) = n
    BY <1>1, <1>5 DEF Index
  <1> QED BY <1>1, <1>4, <1>5

\* The steps shown as completed, as the statuses beyond each of them.
LEMMA CompletedBehind ==
    ASSUME job.status \in RecoveryStatuses \cup {"RECOVERY_REQUIRED"},
           NEW step \in CompletedSteps(job.status)
    PROVE  \/ step = "RECOVERY_REQUIRED"
           \/ step = "RECOVERY_PAYMENT_SIGNED" /\ job.status \in Finalized
           \/ step = "RECOVERY_PAYMENT_FINALIZED" /\ job.status \in Attested
           \/ /\ step \in {"RECOVERY_FDC_REQUESTED", "RECOVERY_PROOF_READY"}
              /\ job.status \in Proved
           \/ step \in {"RECOVERY_FLAG_SUBMITTED", "RECOVERY_FLAG_SET"} /\ job.status \in Flagged
           \/ step \in {"RECOVERY_STUCK_SUBMITTED", "RECOVERED"} /\ job.status = "RECOVERED"
  <1>1. /\ RecoverySteps[1] = "RECOVERY_REQUIRED"
        /\ RecoverySteps[2] = "RECOVERY_PAYMENT_SIGNED"
        /\ RecoverySteps[3] = "RECOVERY_PAYMENT_FINALIZED"
        /\ RecoverySteps[4] = "RECOVERY_FDC_REQUESTED"
        /\ RecoverySteps[5] = "RECOVERY_PROOF_READY"
        /\ RecoverySteps[6] = "RECOVERY_FLAG_SUBMITTED"
        /\ RecoverySteps[7] = "RECOVERY_FLAG_SET"
        /\ RecoverySteps[8] = "RECOVERY_STUCK_SUBMITTED"
        /\ RecoverySteps[9] = "RECOVERED"
    BY DEF RecoverySteps
  <1>2. PICK m \in 1 .. 9 : job.status = RecoverySteps[m]
    BY <1>1 DEF RecoveryStatuses
  <1>3. Index(job.status) = m
    BY <1>2, StepPlaces
  <1>4. CASE step \in {job.status} \cap {"RECOVERED"}
    BY <1>4
  <1>5. CASE \E n \in 1 .. m - 1 : step = RecoverySteps[n]
    <2>1. PICK n \in 1 .. m - 1 : step = RecoverySteps[n]
      BY <1>5
    <2>2. /\ m = 1 \/ m = 2 \/ m = 3 \/ m = 4 \/ m = 5 \/ m = 6 \/ m = 7 \/ m = 8 \/ m = 9
          /\ n = 1 \/ n = 2 \/ n = 3 \/ n = 4 \/ n = 5 \/ n = 6 \/ n = 7 \/ n = 8
      OBVIOUS
    <2>3. /\ m > 2 => job.status \in Finalized
          /\ m > 3 => job.status \in Attested
          /\ m > 4 => job.status \in Proved
          /\ m > 6 => job.status \in Flagged
          /\ m > 8 => job.status = "RECOVERED"
      BY <1>1, <1>2, <2>2 DEF Finalized, Attested, Proved, Flagged
    <2>4. n < m
      OBVIOUS
    <2> QED BY <1>1, <2>1, <2>2, <2>3, <2>4
  <1> QED BY <1>3, <1>4, <1>5 DEF CompletedSteps

\* The page says nothing of a recovery that did not happen: the payment, the attestation
\* and the two mints that it links to for completed steps took effect, as long as one
\* operator runs the script.
THEOREM RecoveryTimelineBacked ==
    ASSUME SingleOperator
    PROVE  Spec => []RecoveryTimelineIsBacked
  <1>1. Init => NamesInv
    BY InitInv DEF Init, NamesInv, NamesEffective, Follows, Stuck, Flagged
  <1>2. NamesInv => RecoveryTimelineIsBacked
    <2> SUFFICES ASSUME NamesInv, NEW step \in CompletedSteps(job.status)
                 PROVE  BackedStep(step)
      BY DEF RecoveryTimelineIsBacked
    <2>1. RowBacked /\ RequestsAttest /\ NamesEffective
      BY DEF NamesInv, Inv
    <2>2. job.status \in RecoveryStatuses \cup {"RECOVERY_REQUIRED"}
      BY DEF NamesInv, Inv, TypeOK, Job
    <2>3. CASE step = "RECOVERY_REQUIRED"
      BY <2>3 DEF BackedStep
    <2>4. CASE step = "RECOVERY_PAYMENT_SIGNED" /\ job.status \in Finalized
      BY <2>1, <2>4 DEF BackedStep, RowBacked, Finalized, Attested, Proved, Flagged
    <2>5. CASE step = "RECOVERY_PAYMENT_FINALIZED" /\ job.status \in Attested
      BY <2>1, <2>5 DEF BackedStep, RowBacked, RequestsAttest
    <2>6. CASE /\ step \in {"RECOVERY_FDC_REQUESTED", "RECOVERY_PROOF_READY"}
               /\ job.status \in Proved
      BY <2>1, <2>6 DEF BackedStep, RowBacked, Attested
    <2>7. CASE /\ step \in {"RECOVERY_FLAG_SUBMITTED", "RECOVERY_FLAG_SET"}
               /\ job.status \in Flagged
      BY <2>1, <2>7 DEF BackedStep, RowBacked, NamesEffective, TookEffect
    <2>8. CASE /\ step \in {"RECOVERY_STUCK_SUBMITTED", "RECOVERED"}
               /\ job.status = "RECOVERED"
      BY <2>1, <2>8 DEF BackedStep, RowBacked, NamesEffective, TookEffect
    <2> QED BY <2>2, <2>3, <2>4, <2>5, <2>6, <2>7, <2>8, CompletedBehind
  <1> QED BY <1>1, <1>2, NextKeepsNames, PTL DEF Spec

---------------------------------------------------------------------------
(* The promise of a recovery                                               *)

\* Nobody sends a mint, or is about to, before a recovery payment was validated.
MintingIsPaid ==
    /\ DOMAIN mints # {} => Paid
    /\ \A p \in Operators : pc[p] \in {"prove", "send"} => Paid

PromiseInv == Inv /\ MintingIsPaid

\* What the chains show is a truth value.
LEMMA ChainFlags ==
    /\ Paid \in BOOLEAN /\ MemoIgnored \in BOOLEAN /\ StuckUsed \in BOOLEAN
    /\ Paid' \in BOOLEAN /\ MemoIgnored' \in BOOLEAN /\ StuckUsed' \in BOOLEAN
  BY DEF Paid, MemoIgnored, StuckUsed, Executed

\* A row in one of the proof stages has a validated payment.
LEMMA AttestedIsPaid == Inv /\ job.status \in Attested => Paid
  BY DEF Inv, RowBacked, RequestsAttest, Paid

\* Only a validation by the ledger pays.
LEMMA StepPaysNothing ==
    ASSUME Inv, NEW p \in Operators, Start(p) \/ Step(p) \/ Fault(p)
    PROVE  Paid' <=> Paid
  <1>1. CASE UNCHANGED payments
    BY <1>1 DEF Paid
  <1>2. payments \in Seq(PaymentRecord)
    BY DEF Inv, TypeOK, PaymentRecord
  <1>3. CASE Sign(p)
    <2> DEFINE new == [amount |-> quoteOf[p], seq |-> AccountSequence, state |-> "signed"]
    <2>1. payments' = Append(payments, new) /\ new \in PaymentRecord
      BY <1>2, <1>3, AccountSequenceIsNat DEF Sign, Inv, TypeOK, PaymentRecord, PaymentStates
    <2>2. new.state = "signed"
      OBVIOUS
    <2> HIDE DEF new
    <2>3. /\ DOMAIN payments' = DOMAIN payments \cup {Len(payments) + 1}
          /\ \A x \in DOMAIN payments : payments'[x] = payments[x]
          /\ payments'[Len(payments) + 1] = new
      BY <1>2, <2>1, Appended
    <2> QED BY <2>2, <2>3 DEF Paid
  <1>4. CASE SubmitPayment(p)
    <2> DEFINE x == seen[p].payment
               new == [payments[x] EXCEPT !.state =
                          IF payments[x].state = "signed" THEN "submitted"
                                                          ELSE payments[x].state]
    <2>1. payments' = [payments EXCEPT ![x] = new]
      BY <1>4 DEF SubmitPayment
    <2>2. x \in DOMAIN payments
      BY <1>4 DEF SubmitPayment, Inv, ReadBacked
    <2>3. payments[x] \in PaymentRecord
      BY <2>2, WorldTypes DEF Inv
    <2>4. new \in PaymentRecord /\ (new.state = "validated" <=> payments[x].state = "validated")
      BY <2>3 DEF PaymentRecord, PaymentStates
    <2> HIDE DEF new, x
    <2>5. /\ DOMAIN payments' = DOMAIN payments /\ payments'[x] = new
          /\ \A y \in DOMAIN payments \ {x} : payments'[y] = payments[y]
      BY <1>2, <2>1, <2>2, <2>4, Replaced
    <2> QED BY <2>2, <2>4, <2>5 DEF Paid
  <1>5. CASE Start(p) \/ Fault(p) \/ CheckUnused(p) \/ Read(p) \/ AwaitFinality(p)
             \/ RequestAttestation(p) \/ CheckpointFdcTx(p) \/ OwnRound(p)
    BY <1>1, <1>5 DEF Start, Fault, CheckUnused, Read, AwaitFinality, RequestAttestation,
                      CheckpointFdcTx, OwnRound, world
  <1>6. CASE AwaitProof(p) \/ Simulate(p) \/ Broadcast(p) \/ CheckpointMintTx(p)
             \/ AwaitReceipt(p) \/ Reject(p)
    BY <1>1, <1>6 DEF AwaitProof, Simulate, Broadcast, CheckpointMintTx, AwaitReceipt,
                      Reject, world
  <1> QED BY <1>3, <1>4, <1>5, <1>6 DEF Step

\* A broadcast mints nothing yet.
LEMMA StepMintsNothing ==
    ASSUME Inv, NEW p \in Operators, Start(p) \/ Step(p) \/ Fault(p)
    PROVE  /\ MemoIgnored' <=> MemoIgnored
           /\ StuckUsed' <=> StuckUsed
           /\ UNCHANGED mints \/ Broadcast(p)
  <1>1. CASE UNCHANGED mints
    BY <1>1 DEF MemoIgnored, StuckUsed, Executed
  <1>2. CASE Broadcast(p)
    <2> DEFINE mint == [kind |-> Kind(seen[p].status), state |-> "pending"]
    <2>1. mints \in Seq(MintRecord) /\ mint \in MintRecord /\ mints' = Append(mints, mint)
      BY <1>2 DEF Broadcast, Inv, TypeOK, MintRecord, Kind, MintStates
    <2>2. mint.state = "pending"
      OBVIOUS
    <2> HIDE DEF mint
    <2>3. /\ DOMAIN mints' = DOMAIN mints \cup {Len(mints) + 1}
          /\ \A i \in DOMAIN mints : mints'[i] = mints[i]
          /\ mints'[Len(mints) + 1] = mint
      BY <2>1, Appended
    <2> QED BY <1>2, <2>2, <2>3 DEF MemoIgnored, StuckUsed, Executed
  <1>3. CASE Start(p) \/ Fault(p) \/ CheckUnused(p) \/ Read(p) \/ Sign(p) \/ SubmitPayment(p)
             \/ AwaitFinality(p) \/ RequestAttestation(p)
    BY <1>1, <1>3 DEF Start, Fault, CheckUnused, Read, Sign, SubmitPayment, AwaitFinality,
                      RequestAttestation, world
  <1>4. CASE CheckpointFdcTx(p) \/ OwnRound(p) \/ AwaitProof(p) \/ Simulate(p)
             \/ CheckpointMintTx(p) \/ AwaitReceipt(p) \/ Reject(p)
    BY <1>1, <1>4 DEF CheckpointFdcTx, OwnRound, AwaitProof, Simulate, CheckpointMintTx,
                      AwaitReceipt, Reject, world
  <1> QED BY <1>2, <1>3, <1>4 DEF Step

\* What a process does to the row.
LEMMA StepMovesRow ==
    ASSUME NEW p \in Operators, Start(p) \/ Step(p) \/ Fault(p)
    PROVE  \/ UNCHANGED row
           \/ CanTransition(job.status, job'.status) /\ UNCHANGED keyReleased
           \/ job.status = "RECOVERED" /\ keyReleased' = TRUE /\ UNCHANGED job
  <1> DEFINE Moved == UNCHANGED job \/ CanTransition(job.status, job'.status)
  <1>1. ASSUME NEW r, NEW next, Transition(p, r, next)
        PROVE  Moved
    BY <1>1 DEF Transition
  <1>2. CASE Moved /\ UNCHANGED keyReleased
    BY <1>2 DEF row
  <1>3. CASE Read(p)
    BY <1>3 DEF Read, ReleaseIntentKey, row
  <1>4. CASE Start(p) \/ Fault(p) \/ CheckUnused(p) \/ SubmitPayment(p)
             \/ RequestAttestation(p) \/ Broadcast(p) \/ Reject(p)
    BY <1>4 DEF Start, Fault, CheckUnused, SubmitPayment, RequestAttestation, Broadcast, Reject
  <1>5. CASE Sign(p) \/ AwaitFinality(p) \/ CheckpointFdcTx(p) \/ OwnRound(p)
    <2>1. Moved
      BY <1>1, <1>5 DEF Sign, AwaitFinality, CheckpointFdcTx, OwnRound
    <2>2. UNCHANGED keyReleased
      BY <1>5 DEF Sign, AwaitFinality, CheckpointFdcTx, OwnRound
    <2> QED BY <1>2, <2>1, <2>2
  <1>6. CASE AwaitProof(p) \/ Simulate(p) \/ CheckpointMintTx(p) \/ AwaitReceipt(p)
    <2>1. Moved
      BY <1>1, <1>6 DEF AwaitProof, Simulate, CheckpointMintTx, AwaitReceipt
    <2>2. UNCHANGED keyReleased
      BY <1>6 DEF AwaitProof, Simulate, CheckpointMintTx, AwaitReceipt
    <2> QED BY <1>2, <2>1, <2>2
  <1> QED BY <1>3, <1>4, <1>5, <1>6 DEF Step

\* A payment that is validated stays so when another is settled.
LEMMA SettlingPays ==
    ASSUME Inv, NEW x \in DOMAIN payments, SettlePayment(x)
    PROVE  Paid => Paid'
  <1>1. PICK s \in {"validated", "failed", "expired"} :
            payments' = [payments EXCEPT ![x].state = s]
    BY DEF SettlePayment
  <1> DEFINE new == [payments[x] EXCEPT !.state = s]
  <1>2. payments \in Seq(PaymentRecord) /\ payments[x] \in PaymentRecord
    BY WorldTypes DEF Inv, TypeOK, PaymentRecord
  <1>3. new \in PaymentRecord /\ payments' = [payments EXCEPT ![x] = new]
    BY <1>1, <1>2 DEF PaymentRecord, PaymentStates
  <1> HIDE DEF new
  <1>4. /\ DOMAIN payments' = DOMAIN payments
        /\ \A y \in DOMAIN payments \ {x} : payments'[y] = payments[y]
    BY <1>2, <1>3, Replaced
  <1>5. payments[x].state = "submitted"
    BY DEF SettlePayment
  <1> QED BY <1>4, <1>5 DEF Paid

\* A step of one process leaves the others at their awaits.
LEMMA StepMovesOne ==
    ASSUME pc \in [Operators -> Labels], NEW p \in Operators, Start(p) \/ Step(p) \/ Fault(p)
    PROVE  \A q \in Operators \ {p} : pc'[q] = pc[q]
  <1>1. ASSUME NEW label, pc' = [pc EXCEPT ![p] = label]
        PROVE  \A q \in Operators \ {p} : pc'[q] = pc[q]
    BY <1>1
  <1>2. ASSUME NEW r, NEW next, Transition(p, r, next)
        PROVE  \E label : pc' = [pc EXCEPT ![p] = label]
    BY <1>2 DEF Transition, Goto, Leave
  <1>3. CASE Start(p) \/ Fault(p) \/ CheckUnused(p) \/ Read(p) \/ SubmitPayment(p)
             \/ RequestAttestation(p) \/ Broadcast(p) \/ Reject(p)
    BY <1>1, <1>3 DEF Start, Fault, CheckUnused, Read, SubmitPayment, RequestAttestation,
                      Broadcast, Reject, Goto, Leave
  <1>4. CASE Sign(p) \/ AwaitFinality(p) \/ CheckpointFdcTx(p) \/ OwnRound(p)
    <2>1. \E label : pc' = [pc EXCEPT ![p] = label]
      BY <1>2, <1>4 DEF Sign, AwaitFinality, CheckpointFdcTx, OwnRound, Leave
    <2> QED BY <1>1, <2>1
  <1>5. CASE AwaitProof(p) \/ Simulate(p) \/ CheckpointMintTx(p) \/ AwaitReceipt(p)
    <2>1. \E label : pc' = [pc EXCEPT ![p] = label]
      BY <1>2, <1>5 DEF AwaitProof, Simulate, CheckpointMintTx, AwaitReceipt, Leave
    <2> QED BY <1>1, <2>1
  <1> QED BY <1>3, <1>4, <1>5 DEF Step

\* Only a row in a proof stage is proved and simulated.
LEMMA ProvingIsPaid ==
    ASSUME PromiseInv, NEW p \in Operators, Start(p) \/ Step(p) \/ Fault(p)
    PROVE  pc'[p] \in {"prove", "send"} => Paid
  <1> DEFINE Elsewhere == pc'[p] \notin {"prove", "send"}
  <1>1. pc \in [Operators -> Labels]
    BY DEF PromiseInv, Inv, TypeOK
  <1>2. ASSUME NEW r, NEW next \in {"top", "ownRound", "receipt"}, Transition(p, r, next)
        PROVE  Elsewhere
    BY <1>1, <1>2 DEF Transition, Goto, Leave
  <1>3. ASSUME Leave(p) PROVE Elsewhere
    BY <1>1, <1>3 DEF Leave
  <1>4. CASE Read(p)
    <2>1. CASE job.status \in Attested
      BY <2>1, AttestedIsPaid DEF PromiseInv
    <2>2. CASE job.status \notin Attested
      <3>1. job.status \in {"RECOVERY_REQUIRED", "RECOVERY_PAYMENT_SIGNED",
                            "RECOVERY_PAYMENT_FINALIZED"}
        BY <2>2 DEF PromiseInv, Inv, TypeOK, Job, RecoveryStatuses, Attested, Proved, Flagged
      <3>2. Branch[job.status] \in {"sign", "submit", "attest"}
        BY <3>1 DEF Branch
      <3> QED BY <1>1, <1>4, <3>1, <3>2 DEF Read, ReleaseIntentKey
    <2> QED BY <2>1, <2>2
  <1>5. CASE Simulate(p)
    BY <1>5 DEF Simulate, PromiseInv, MintingIsPaid
  <1>6. CASE Start(p) \/ Fault(p) \/ CheckUnused(p) \/ SubmitPayment(p)
             \/ RequestAttestation(p) \/ Broadcast(p) \/ Reject(p)
    BY <1>1, <1>3, <1>6 DEF Start, Fault, CheckUnused, SubmitPayment, RequestAttestation,
                            Broadcast, Reject, Goto
  <1>7. CASE Sign(p) \/ AwaitFinality(p) \/ CheckpointFdcTx(p) \/ OwnRound(p)
    BY <1>2, <1>3, <1>7 DEF Sign, AwaitFinality, CheckpointFdcTx, OwnRound
  <1>8. CASE AwaitProof(p) \/ CheckpointMintTx(p) \/ AwaitReceipt(p)
    BY <1>2, <1>3, <1>8 DEF AwaitProof, CheckpointMintTx, AwaitReceipt
  <1> QED BY <1>4, <1>5, <1>6, <1>7, <1>8 DEF Step

\* Every step keeps what was paid before it was minted.
LEMMA NextKeepsMintingPaid == PromiseInv /\ Inv' /\ [Next]_vars => MintingIsPaid'
  <1> SUFFICES ASSUME PromiseInv, Inv', [Next]_vars PROVE MintingIsPaid'
    OBVIOUS
  <1>1. ASSUME Paid' <=> Paid, UNCHANGED mints, UNCHANGED pc
        PROVE  MintingIsPaid'
    BY <1>1 DEF PromiseInv, MintingIsPaid
  <1>2. ASSUME NEW p \in Operators, Start(p) \/ Step(p) \/ Fault(p)
        PROVE  MintingIsPaid'
    <2>1. Paid' <=> Paid
      BY <1>2, StepPaysNothing DEF PromiseInv
    <2>2. DOMAIN mints' # {} => Paid
      <3>1. CASE UNCHANGED mints
        BY <3>1 DEF PromiseInv, MintingIsPaid
      <3>2. CASE Broadcast(p)
        BY <3>2 DEF Broadcast, PromiseInv, MintingIsPaid
      <3> QED BY <1>2, <3>1, <3>2, StepMintsNothing DEF PromiseInv
    <2>3. \A q \in Operators \ {p} : pc'[q] = pc[q]
      BY <1>2, StepMovesOne DEF PromiseInv, Inv, TypeOK
    <2>4. pc'[p] \in {"prove", "send"} => Paid
      BY <1>2, ProvingIsPaid DEF PromiseInv
    <2> QED BY <2>1, <2>2, <2>3, <2>4 DEF PromiseInv, MintingIsPaid
  <1>3. ASSUME NEW x \in DOMAIN payments, SettlePayment(x)
        PROVE  MintingIsPaid'
    BY <1>3, SettlingPays DEF PromiseInv, MintingIsPaid, SettlePayment, process
  <1>4. ASSUME NEW i \in DOMAIN mints, MineMint(i)
        PROVE  MintingIsPaid'
    BY <1>4 DEF MineMint, PromiseInv, MintingIsPaid, Paid, process
  <1>5. CASE \/ \E f \in DOMAIN fdcTxs : MineFdcRequest(f)
             \/ ChangeSettings
             \/ UNCHANGED vars
    BY <1>1, <1>5 DEF MineFdcRequest, ChangeSettings, vars, process, world, Paid
  <1> QED BY <1>2, <1>3, <1>4, <1>5 DEF Next, Environment

\* A report is made when the chains show what it says, and one after the other.
LEMMA ReportsInOrder ==
    ASSUME PromiseInv, Inv', CanTransition(job.status, job'.status), UNCHANGED keyReleased,
           Paid' <=> Paid, MemoIgnored' <=> MemoIgnored, StuckUsed' <=> StuckUsed
    PROVE  \/ Reported' = Reported
           \/ Reported = "open" /\ Reported' = "attested" /\ Paid
           \/ Reported = "attested" /\ Reported' = "flagged" /\ MemoIgnored
           \/ Reported = "flagged" /\ Reported' = "recovered" /\ StuckUsed
  <1> DEFINE Recovering == RecoveryStatuses \cup {"RECOVERY_REQUIRED"}
  <1>1. job.status \in Recovering /\ job'.status \in Recovering
    BY DEF PromiseInv, Inv, TypeOK, Job
  <1>2. /\ job'.status \in Attested => Paid
        /\ job'.status \in Flagged => MemoIgnored
        /\ job'.status = "RECOVERED" => StuckUsed
    <2>1. /\ job'.status \in Attested => Paid'
          /\ job'.status \in Flagged => MemoIgnored'
          /\ job'.status = "RECOVERED" => StuckUsed'
      BY DEF Inv, RowBacked, RequestsAttest, Paid
    <2> QED BY <2>1
  <1>3. CASE job'.status \in {"RECOVERY_REQUIRED", "RECOVERY_PAYMENT_SIGNED",
                              "RECOVERY_PAYMENT_FINALIZED"}
    <2>1. job.status \in {"RECOVERY_REQUIRED", "RECOVERY_PAYMENT_SIGNED",
                          "RECOVERY_PAYMENT_FINALIZED"}
      BY <1>1, <1>3, Moves DEF CanTransition, Transitions, RecoveryStatuses
    <2> QED BY <1>3, <2>1 DEF Reported
  <1>4. CASE job'.status \in {"RECOVERY_FDC_REQUESTED", "RECOVERY_PROOF_READY",
                              "RECOVERY_FLAG_SUBMITTED"}
    <2>1. job.status \in {"RECOVERY_PAYMENT_FINALIZED", "RECOVERY_FDC_REQUESTED",
                          "RECOVERY_PROOF_READY", "RECOVERY_FLAG_SUBMITTED"}
      BY <1>1, <1>4, Moves
    <2> QED BY <1>2, <1>4, <2>1 DEF Reported, Attested, Proved
  <1>5. CASE job'.status \in {"RECOVERY_FLAG_SET", "RECOVERY_STUCK_SUBMITTED"}
    <2>1. job.status \in {"RECOVERY_FLAG_SUBMITTED", "RECOVERY_FLAG_SET",
                          "RECOVERY_STUCK_SUBMITTED"}
      BY <1>1, <1>5, Moves
    <2> QED BY <1>2, <1>5, <2>1 DEF Reported, Flagged
  <1>6. CASE job'.status = "RECOVERED"
    <2>1. job.status \in {"RECOVERY_STUCK_SUBMITTED", "RECOVERED"}
      BY <1>1, <1>6, Moves
    <2> QED BY <1>2, <1>6, <2>1 DEF Reported
  <1> QED BY <1>1, <1>3, <1>4, <1>5, <1>6 DEF RecoveryStatuses

\* A mint is executed once, when the chain allows it.
LEMMA MiningInOrder ==
    ASSUME PromiseInv, NEW i \in DOMAIN mints, MineMint(i)
    PROVE  \/ (MemoIgnored' <=> MemoIgnored) /\ (StuckUsed' <=> StuckUsed)
           \/ Paid /\ ~MemoIgnored /\ MemoIgnored' /\ (StuckUsed' <=> StuckUsed)
           \/ MemoIgnored /\ ~StuckUsed /\ StuckUsed' /\ (MemoIgnored' <=> MemoIgnored)
  <1>1. PICK s \in MintStates : mints' = [mints EXCEPT ![i].state = s]
    BY DEF MineMint, MintStates
  <1> DEFINE mint == [mints[i] EXCEPT !.state = s]
  <1>2. mints \in Seq(MintRecord) /\ mints[i] \in MintRecord
    BY WorldTypes DEF PromiseInv, Inv, TypeOK, MintRecord
  <1>3. /\ mint \in MintRecord /\ mint.kind = mints[i].kind /\ mint.state = s
        /\ mints' = [mints EXCEPT ![i] = mint]
    BY <1>1, <1>2 DEF MintRecord
  <1> HIDE DEF mint
  <1>4. /\ DOMAIN mints' = DOMAIN mints /\ mints'[i] = mint
        /\ \A j \in DOMAIN mints \ {i} : mints'[j] = mints[j]
    BY <1>2, <1>3, Replaced
  <1>5. mints[i].state = "pending" /\ Paid
    BY DEF MineMint, PromiseInv, MintingIsPaid
  <1>6. CASE s # "EXECUTED"
    BY <1>3, <1>4, <1>5, <1>6 DEF MemoIgnored, StuckUsed, Executed
  <1>7. CASE s = "EXECUTED"
    <2>1. Executable(mints[i].kind)
      <3>1. CASE ~Executable(mints[i].kind)
        <4>1. mints' = [mints EXCEPT ![i].state = "REVERTED"]
          BY <3>1 DEF MineMint
        <4>2. mints'[i].state = "REVERTED"
          BY <1>2, <4>1 DEF MintRecord
        <4> QED BY <1>3, <1>4, <1>7, <4>2
      <3> QED BY <3>1
    <2>2. CASE mints[i].kind = "flag"
      BY <1>3, <1>4, <1>5, <1>7, <2>1, <2>2 DEF Executable, MemoIgnored, StuckUsed, Executed
    <2>3. CASE mints[i].kind = "retry"
      BY <1>3, <1>4, <1>5, <1>7, <2>1, <2>3 DEF Executable, MemoIgnored, StuckUsed, Executed
    <2> QED BY <1>2, <2>2, <2>3 DEF MintRecord
  <1> QED BY <1>6, <1>7

\* The script keeps the promise of a recovery: payment, ignored memo and mint of the
\* stuck deposit happen in this order, each is reported after it happened and for good,
\* and the intent key is freed last.  Any number of operators may run it.
THEOREM RecoveryKeepsPromise == Spec => KeepsRecoveryPromise
  <1>1. Init => PromiseInv
    BY InitInv DEF Init, PromiseInv, MintingIsPaid
  <1>2. PromiseInv /\ [Next]_vars => PromiseInv'
    BY NextKeepsInv, NextKeepsMintingPaid DEF PromiseInv
  <1>3. Init => Abstract!PInit
    <2> SUFFICES ASSUME Init PROVE Abstract!PInit
      OBVIOUS
    <2>1. ~Paid /\ ~MemoIgnored /\ ~StuckUsed
      BY DEF Init, Paid, MemoIgnored, StuckUsed, Executed
    <2>2. Reported = "open" /\ ~keyReleased
      BY DEF Init, Reported, Stuck
    <2> QED BY <2>1, <2>2 DEF Abstract!PInit
  <1>4. PromiseInv /\ PromiseInv' /\ [Next]_vars => [Abstract!PNext]_(Abstract!promise)
    <2> SUFFICES ASSUME PromiseInv, PromiseInv', [Next]_vars
                 PROVE  Abstract!PNext \/ UNCHANGED Abstract!promise
      OBVIOUS
    <2>1. ASSUME NEW p \in Operators, Start(p) \/ Step(p) \/ Fault(p)
          PROVE  Abstract!PNext \/ UNCHANGED Abstract!promise
      <3>1. (Paid' <=> Paid) /\ (MemoIgnored' <=> MemoIgnored) /\ (StuckUsed' <=> StuckUsed)
        BY <2>1, StepPaysNothing, StepMintsNothing DEF PromiseInv
      <3>2. Paid' = Paid /\ MemoIgnored' = MemoIgnored /\ StuckUsed' = StuckUsed
        BY <3>1, ChainFlags
      <3>3. CASE UNCHANGED row
        BY <3>2, <3>3 DEF row, Reported, Abstract!promise
      <3>4. CASE CanTransition(job.status, job'.status) /\ UNCHANGED keyReleased
        <4>1. \/ Reported' = Reported
              \/ Reported = "open" /\ Reported' = "attested" /\ Paid
              \/ Reported = "attested" /\ Reported' = "flagged" /\ MemoIgnored
              \/ Reported = "flagged" /\ Reported' = "recovered" /\ StuckUsed
          BY <3>1, <3>4, ReportsInOrder DEF PromiseInv
        <4> QED BY <3>2, <3>4, <4>1 DEF Abstract!PNext, Abstract!Report, Abstract!promise
      <3>5. CASE job.status = "RECOVERED" /\ keyReleased' = TRUE /\ UNCHANGED job
        <4>1. Reported = "recovered" /\ Reported' = Reported
          BY <3>5 DEF Reported
        <4> QED BY <3>2, <3>5, <4>1 DEF Abstract!PNext, Abstract!Release
      <3> QED BY <2>1, <3>3, <3>4, <3>5, StepMovesRow
    <2>2. ASSUME NEW x \in DOMAIN payments, SettlePayment(x)
          PROVE  Abstract!PNext \/ UNCHANGED Abstract!promise
      <3>1. /\ MemoIgnored' = MemoIgnored /\ StuckUsed' = StuckUsed
            /\ Reported' = Reported /\ keyReleased' = keyReleased
        BY <2>2 DEF SettlePayment, MemoIgnored, StuckUsed, Executed, Reported, row
      <3>2. Paid' = Paid \/ (~Paid /\ Paid')
        BY <2>2, SettlingPays, ChainFlags DEF PromiseInv
      <3> QED BY <3>1, <3>2 DEF Abstract!PNext, Abstract!Pay, Abstract!promise
    <2>3. ASSUME NEW i \in DOMAIN mints, MineMint(i)
          PROVE  Abstract!PNext \/ UNCHANGED Abstract!promise
      <3>1. Paid' = Paid /\ Reported' = Reported /\ keyReleased' = keyReleased
        BY <2>3 DEF MineMint, Paid, Reported, row
      <3>2. \/ MemoIgnored' = MemoIgnored /\ StuckUsed' = StuckUsed
            \/ Paid /\ ~MemoIgnored /\ MemoIgnored' /\ StuckUsed' = StuckUsed
            \/ MemoIgnored /\ ~StuckUsed /\ StuckUsed' /\ MemoIgnored' = MemoIgnored
        BY <2>3, MiningInOrder, ChainFlags
      <3> QED BY <3>1, <3>2 DEF Abstract!PNext, Abstract!Ignore, Abstract!Mint, Abstract!promise
    <2>4. CASE UNCHANGED <<job, keyReleased, payments, mints>>
      <3>1. /\ Paid' = Paid /\ MemoIgnored' = MemoIgnored /\ StuckUsed' = StuckUsed
            /\ Reported' = Reported /\ keyReleased' = keyReleased
        BY <2>4 DEF Paid, MemoIgnored, StuckUsed, Executed, Reported
      <3> QED BY <3>1 DEF Abstract!promise
    <2>5. CASE \/ \E f \in DOMAIN fdcTxs : MineFdcRequest(f)
               \/ ChangeSettings
               \/ UNCHANGED vars
      BY <2>4, <2>5 DEF MineFdcRequest, ChangeSettings, vars, row, world
    <2> QED BY <2>1, <2>2, <2>3, <2>5 DEF Next, Environment
  <1> QED BY <1>1, <1>2, <1>3, <1>4, PTL DEF Spec, KeepsRecoveryPromise, Abstract!Promise

\* Nothing that a row in recovery reports came early, and a key that is free belongs to
\* a deposit that was minted, for any number of operators.
THEOREM RecoveryInOrder == Spec => []Abstract!InOrder
  <1>1. Abstract!PInit => Abstract!InOrder
    BY DEF Abstract!PInit, Abstract!InOrder
  <1>2. Abstract!InOrder /\ [Abstract!PNext]_(Abstract!promise) => Abstract!InOrder'
    <2> SUFFICES ASSUME Abstract!InOrder, [Abstract!PNext]_(Abstract!promise)
                 PROVE  Abstract!InOrder'
      OBVIOUS
    <2>1. CASE Abstract!Pay \/ Abstract!Ignore \/ Abstract!Mint
      BY <2>1 DEF Abstract!InOrder, Abstract!Pay, Abstract!Ignore, Abstract!Mint
    <2>2. CASE \/ Abstract!Report("open", "attested", Paid)
               \/ Abstract!Report("attested", "flagged", MemoIgnored)
               \/ Abstract!Report("flagged", "recovered", StuckUsed)
      BY <2>2 DEF Abstract!InOrder, Abstract!Report
    <2>3. CASE Abstract!Release \/ UNCHANGED Abstract!promise
      BY <2>3 DEF Abstract!InOrder, Abstract!Release, Abstract!promise
    <2> QED BY <2>1, <2>2, <2>3 DEF Abstract!PNext
  <1> QED BY <1>1, <1>2, RecoveryKeepsPromise, PTL DEF KeepsRecoveryPromise, Abstract!Promise

---------------------------------------------------------------------------
(* Any number of operators: each signs once at most, because whoever reads *)
(* the row after the first signature finds it signed.                      *)

Signing == {p \in Operators : pc[p] = "sign"}

SignBound ==
    /\ job.status = "RECOVERY_REQUIRED" => Len(payments) = 0
    /\ Len(payments) + Cardinality(Signing) <= Cardinality(Operators)

\* A step signs for one operator who stood there, or brings none there unless the row
\* still asks for a recovery.
LEMMA SigningStep ==
    ASSUME Inv, SignBound, [Next]_vars
    PROVE  /\ job'.status = "RECOVERY_REQUIRED" => Len(payments') = 0
           /\ \/ Len(payments') = Len(payments) /\ (Signing' \subseteq Signing)
              \/ Len(payments') = 0
              \/ /\ Len(payments') = Len(payments) + 1
                 /\ \E p \in Signing : Signing' = Signing \ {p}
  <1>0. pc \in [Operators -> Labels]
    BY DEF Inv, TypeOK
  <1>1. ASSUME NEW p \in Operators, Sign(p)
        PROVE  /\ job'.status # "RECOVERY_REQUIRED"
               /\ Len(payments') = Len(payments) + 1
               /\ p \in Signing /\ Signing' = Signing \ {p}
    <2> DEFINE paid == [amount |-> quoteOf[p], seq |-> AccountSequence, state |-> "signed"]
               r == [job EXCEPT !.status = "RECOVERY_PAYMENT_SIGNED",
                                !.payment = Len(payments) + 1]
    <2>1. /\ pc[p] = "sign" /\ payments' = Append(payments, paid) /\ Transition(p, r, "top")
      BY <1>1 DEF Sign
    <2>2. payments \in Seq(PaymentRecord) /\ paid \in PaymentRecord
      BY AccountSequenceIsNat DEF Inv, TypeOK, PaymentRecord, PaymentStates
    <2>3. Len(payments') = Len(payments) + 1
      <3> HIDE DEF paid, r
      <3> QED BY <2>1, <2>2, AppendProperties
    <2>4. r.status = "RECOVERY_PAYMENT_SIGNED"
      BY DEF Inv, TypeOK, Job
    <2>5. job.status = "RECOVERY_REQUIRED" => CanTransition(job.status, r.status)
      BY <2>4, Moves
    <2> HIDE DEF r, paid
    <2>6. job'.status # "RECOVERY_REQUIRED"
      BY <2>1, <2>4, <2>5 DEF Transition
    <2>7. \E l \in {"top", "idle"} : pc' = [pc EXCEPT ![p] = l]
      BY <2>1 DEF Transition, Goto, Leave
    <2>8. Signing' = Signing \ {p} /\ p \in Signing
      BY <1>0, <2>1, <2>7 DEF Signing
    <2> QED BY <2>3, <2>6, <2>8
  <1>2. ASSUME NEW p \in Operators, Start(p) \/ Step(p) \/ Fault(p), ~Sign(p)
        PROVE  /\ job'.status = "RECOVERY_REQUIRED" => Len(payments') = 0
               /\ \/ Len(payments') = Len(payments) /\ (Signing' \subseteq Signing)
                  \/ Len(payments') = 0
    <2>1. SignsNothing(p) /\ \A q \in Operators \ {p} : pc'[q] = pc[q]
      BY <1>0, <1>2, StepSignsNothing, StepMovesOne
    <2>2. job'.status = "RECOVERY_REQUIRED" => Len(payments') = 0
      BY <2>1 DEF SignsNothing, SignBound
    <2>3. pc'[p] # "sign" => Signing' \subseteq Signing
      BY <2>1 DEF Signing
    <2> QED BY <2>1, <2>2, <2>3 DEF SignsNothing
  <1>3. ASSUME Environment \/ ChangeSettings \/ UNCHANGED vars
        PROVE  UNCHANGED <<job, pc>> /\ Len(payments') = Len(payments)
    <2>1. CASE UNCHANGED <<job, pc, payments>>
      BY <2>1
    <2>2. CASE \E x \in DOMAIN payments : SettlePayment(x)
      <3>1. PICK x \in DOMAIN payments : SettlePayment(x)
        BY <2>2
      <3>2. PICK s \in {"validated", "failed", "expired"} :
                payments' = [payments EXCEPT ![x].state = s]
        BY <3>1 DEF SettlePayment
      <3> DEFINE paid == [payments[x] EXCEPT !.state = s]
      <3>3. payments \in Seq(PaymentRecord) /\ payments[x] \in PaymentRecord
        BY WorldTypes DEF Inv, TypeOK, PaymentRecord
      <3>4. paid \in PaymentRecord /\ payments' = [payments EXCEPT ![x] = paid]
        BY <3>2, <3>3 DEF PaymentRecord, PaymentStates
      <3>5. Len(payments') = Len(payments)
        <4> HIDE DEF paid
        <4> QED BY <3>3, <3>4, Replaced
      <3>6. UNCHANGED <<job, pc>>
        BY <3>1 DEF SettlePayment, row, process
      <3> QED BY <3>5, <3>6
    <2>3. ChangeSettings \/ UNCHANGED vars => UNCHANGED <<job, pc, payments>>
      BY DEF ChangeSettings, vars, row, process, world
    <2>4. Environment => \/ \E x \in DOMAIN payments : SettlePayment(x)
                         \/ UNCHANGED <<job, pc, payments>>
      BY DEF Environment, MineFdcRequest, MineMint, row, process
    <2> QED BY <1>3, <2>1, <2>2, <2>3, <2>4
  <1>4. CASE Environment \/ ChangeSettings \/ UNCHANGED vars
    BY <1>3, <1>4 DEF Signing, SignBound
  <1>5. CASE \E p \in Operators : Start(p) \/ Step(p) \/ Fault(p)
    BY <1>1, <1>2, <1>5
  <1> QED BY <1>4, <1>5 DEF Next

\* However many operators run the script, and however often it dies and starts again,
\* they sign no more recovery payments than there are operators.
PaymentPerOperator == Len(payments) <= Cardinality(Operators)

THEOREM RecoveryPaymentsBounded ==
    ASSUME IsFiniteSet(Operators)
    PROVE  Spec => []PaymentPerOperator
  <1>0. /\ IsFiniteSet(Signing) /\ IsFiniteSet(Signing')
        /\ Cardinality(Signing) \in Nat /\ Cardinality(Signing') \in Nat
        /\ Cardinality(Operators) \in Nat
        /\ Cardinality(Signing') <= Cardinality(Operators)
    <2>1. Signing \subseteq Operators /\ (Signing' \subseteq Operators)
      BY DEF Signing
    <2> QED BY <2>1, FS_Subset, FS_CardinalityType
  <1>1. Init => SignBound
    <2> SUFFICES ASSUME Init PROVE SignBound
      OBVIOUS
    <2>1. Signing = {}
      <3>1. \A p \in Operators : pc[p] = "idle"
        BY DEF Init
      <3> QED BY <3>1 DEF Signing
    <2>2. Cardinality(Signing) = 0 /\ Len(payments) = 0
      BY <2>1, FS_EmptySet DEF Init
    <2> QED BY <1>0, <2>2 DEF SignBound
  <1>2. Inv /\ SignBound /\ [Next]_vars => SignBound'
    <2> SUFFICES ASSUME Inv, SignBound, [Next]_vars PROVE SignBound'
      OBVIOUS
    <2>1. Len(payments) \in Nat
      BY LenProperties DEF Inv, TypeOK
    <2>2. CASE Len(payments') = Len(payments) /\ (Signing' \subseteq Signing)
      <3>1. Cardinality(Signing') <= Cardinality(Signing)
        BY <1>0, <2>2, FS_Subset
      <3> QED BY <1>0, <2>1, <2>2, <3>1, SigningStep DEF SignBound
    <2>3. CASE Len(payments') = 0
      BY <1>0, <2>3, SigningStep DEF SignBound
    <2>4. CASE /\ Len(payments') = Len(payments) + 1
               /\ \E p \in Signing : Signing' = Signing \ {p}
      <3>1. Cardinality(Signing') = Cardinality(Signing) - 1
        BY <1>0, <2>4, FS_RemoveElement
      <3> QED BY <1>0, <2>1, <2>4, <3>1, SigningStep DEF SignBound
    <2> QED BY <2>2, <2>3, <2>4, SigningStep
  <1>3. Inv /\ SignBound => PaymentPerOperator
    <2> SUFFICES ASSUME Inv, SignBound PROVE PaymentPerOperator
      OBVIOUS
    <2>1. Len(payments) \in Nat
      BY LenProperties DEF Inv, TypeOK
    <2> QED BY <1>0, <2>1 DEF SignBound, PaymentPerOperator
  <1> QED BY <1>1, <1>2, <1>3, InitInv, NextKeepsInv, PTL DEF Spec
=============================================================================
