---------------------------- MODULE RecoveryScript ----------------------------
(***************************************************************************)
(* scripts/recover-bare-comparison.ts --broadcast on one job: a second     *)
(* XRPL payment carries an 0xE0 memo, its mint makes the chain ignore the  *)
(* memo of the stuck payment, and the stuck proof is then submitted again. *)
(*                                                                         *)
(* The script has no worker: an operator runs it, it throws or dies at any *)
(* await, and the operator runs it again.  An action is the code from one  *)
(* await to the next.  XRPL, the FDC and Coston2 are external.             *)
(***************************************************************************)
EXTENDS DirectMintQuote, Sequences, FiniteSets, JobStatus

CONSTANTS
    Operators,        \* processes that may run the script
    MaxPayments,      \* bound: recovery payments signed
    MaxFdcRequests,   \* bound: FDC request transactions broadcast
    MaxMints,         \* bound: direct-mint transactions broadcast
    MaxDelays,        \* bound: DirectMintingDelayed answers of the chain
    MaxFaults,        \* bound: awaits that reject and process deaths
    RecoveryNet,      \* --recovery-net-uba, what the recovery payment must leave
    FeeSettings       \* direct-minting settings the AssetManager may have

ASSUME RecoveryBoundsAssumption ==
    /\ MaxPayments \in Nat \ {0} /\ MaxFdcRequests \in Nat /\ MaxMints \in Nat
    /\ MaxDelays \in Nat /\ MaxFaults \in Nat 
ASSUME RecoveryNetAssumption == RecoveryNet \in Nat \ {0}
ASSUME FeeSettingsAssumption == FeeSettings \subseteq Settings /\ FeeSettings # {}

VARIABLES
    job,          \* the row's status and recovery metadata; 0 is undefined
    keyReleased,  \* the intent key has been archived
    pc,           \* per process: the await it is suspended at
    seen,         \* per process: the row as read at the top of its loop
    quoteOf,      \* per process: the quote it computed when it started
    sent,         \* per process: the Coston2 transaction it is waiting for
    payments,     \* recovery payments ever signed
    fdcTxs,       \* FDC request transactions ever broadcast
    mints,        \* direct-mint transactions ever broadcast
    delays,       \* delays the AssetManager has imposed
    settings,     \* the direct-minting settings now
    faults        \* rejections and deaths so far

row     == <<job, keyReleased>>
process == <<pc, seen, quoteOf, sent>>
world   == <<payments, fdcTxs, mints, delays, settings>>
vars    == <<row, process, world, faults>>

Labels == {"idle", "check", "top", "sign", "submit", "finality", "attest", "attested",
           "ownRound", "proof", "prove", "send", "sent", "receipt", "reconcile"}

Job == [status : RecoveryStatuses \cup {"RECOVERY_REQUIRED"}, payment : Nat,
        fdcTx : Nat, round : Nat, flagTx : Nat, retryTx : Nat]

Stuck == [status |-> "RECOVERY_REQUIRED", payment |-> 0, fdcTx |-> 0,
          round |-> 0, flagTx |-> 0, retryTx |-> 0]

Goto(p, next) == pc' = [pc EXCEPT ![p] = next] /\ UNCHANGED <<seen, quoteOf, sent>>

\* The script ends, throws or dies.  Its catch block only records lastError.
Leave(p) ==
    /\ pc' = [pc EXCEPT ![p] = "idle"]
    /\ seen' = [seen EXCEPT ![p] = Stuck]
    /\ quoteOf' = [quoteOf EXCEPT ![p] = 0]
    /\ sent' = [sent EXCEPT ![p] = 0]

\* store.transition: the row becomes `patched`, or the call throws.
Transition(p, patched, next) ==
    \/ /\ CanTransition(job.status, patched.status)
       /\ job' = patched
       /\ Goto(p, next)
    \/ /\ ~CanTransition(job.status, patched.status)
       /\ Leave(p)
       /\ UNCHANGED job

---------------------------------------------------------------------------
(* The chains                                                              *)

PaymentStates == {"signed", "submitted", "validated", "failed", "expired"}
MintStates    == {"pending", "EXECUTED", "REVERTED", "DELAYED"}

Executed(kind) == \E i \in DOMAIN mints : mints[i].kind = kind /\ mints[i].state = "EXECUTED"

\* IgnoreMemoSet for the stuck payment; isTransactionIdUsed of the stuck payment.
MemoIgnored == Executed("flag")
StuckUsed   == Executed("retry")

\* The recovery payment mints once.  The stuck one mints once its memo is
\* ignored: until then its user operation reverts.
Executable(kind) ==
    /\ ~Executed(kind)
    /\ kind = "retry" => MemoIgnored

AccountSequence ==
    1 + Cardinality({x \in DOMAIN payments : payments[x].state \in {"validated", "failed"}})

---------------------------------------------------------------------------
(* Starting and failing                                                    *)

Init ==
    /\ job = Stuck /\ keyReleased = FALSE
    /\ pc = [p \in Operators |-> "idle"]
    /\ seen = [p \in Operators |-> Stuck]
    /\ quoteOf = [p \in Operators |-> 0]
    /\ sent = [p \in Operators |-> 0]
    /\ payments = <<>> /\ fdcTxs = <<>> /\ mints = <<>>
    /\ delays = 0 /\ settings \in FeeSettings /\ faults = 0

\* What a recovery payment must carry now.
Quote == PaymentAmount(RecoveryNet, 0, settings)

\* The script reads the row and computes the quote from the live settings.
Start(p) ==
    /\ pc[p] = "idle"
    /\ pc' = [pc EXCEPT ![p] = "check"]
    /\ seen' = [seen EXCEPT ![p] = job]
    /\ quoteOf' = [quoteOf EXCEPT ![p] = Quote]
    /\ UNCHANGED <<row, sent, world, faults>>

\* It refuses to go on when the stuck transaction is already used.
CheckUnused(p) ==
    /\ pc[p] = "check"
    /\ \/ /\ StuckUsed /\ seen[p].status # "RECOVERED"
          /\ Leave(p)
       \/ /\ ~StuckUsed \/ seen[p].status = "RECOVERED"
          /\ Goto(p, "top")
    /\ UNCHANGED <<row, world, faults>>

\* An await rejects, or the process dies.
Fault(p) ==
    /\ pc[p] # "idle"
    /\ faults < MaxFaults
    /\ faults' = faults + 1
    /\ Leave(p)
    /\ UNCHANGED <<row, world>>

---------------------------------------------------------------------------
(* The loop                                                                *)

\* Mutated Branch: a submitted flag is proved and sent again; a status has no branch.
BranchResend == [RECOVERY_REQUIRED          |-> "sign",
                 RECOVERY_PAYMENT_SIGNED    |-> "submit",
                 RECOVERY_PAYMENT_FINALIZED |-> "attest",
                 RECOVERY_FDC_REQUESTED     |-> "proof",
                 RECOVERY_PROOF_READY       |-> "prove",
                 RECOVERY_FLAG_SUBMITTED    |-> "prove",
                 RECOVERY_FLAG_SET          |-> "prove",
                 RECOVERY_STUCK_SUBMITTED   |-> "reconcile"]

BranchMissing == [BranchResend EXCEPT !.RECOVERY_FLAG_SUBMITTED = "missing"]

Branch == [RECOVERY_REQUIRED          |-> "sign",
           RECOVERY_PAYMENT_SIGNED    |-> "submit",
           RECOVERY_PAYMENT_FINALIZED |-> "attest",
           RECOVERY_FDC_REQUESTED     |-> "proof",
           RECOVERY_PROOF_READY       |-> "prove",
           RECOVERY_FLAG_SUBMITTED    |-> "reconcile",
           RECOVERY_FLAG_SET          |-> "prove",
           RECOVERY_STUCK_SUBMITTED   |-> "reconcile"]

\* Mutated ReleaseIntentKey: the key of a recovery under way is freed.
ReleaseIntentKeyEarly == keyReleased' = TRUE

\* releaseRecoveredIntentKey archives the intent key, once, and only of a job that
\* is RECOVERED.
ReleaseIntentKey == job.status = "RECOVERED" /\ keyReleased' = TRUE

\* RECOVERED archives the intent key and ends; every other status has a branch.
Read(p) ==
    /\ pc[p] = "top"
    /\ \/ /\ ReleaseIntentKey
          /\ Leave(p)
       \/ /\ job.status # "RECOVERED"
          /\ seen' = [seen EXCEPT ![p] = job]
          /\ sent' = [sent EXCEPT ![p] =
                        CASE job.status = "RECOVERY_FLAG_SUBMITTED"  -> job.flagTx
                          [] job.status = "RECOVERY_STUCK_SUBMITTED" -> job.retryTx
                          [] OTHER -> 0]
          /\ pc' = [pc EXCEPT ![p] = Branch[job.status]]
          /\ UNCHANGED <<keyReleased, quoteOf>>
    /\ UNCHANGED <<job, world, faults>>

\* RECOVERY_REQUIRED: sign and persist before any broadcast.
Sign(p) ==
    /\ pc[p] = "sign"
    /\ Len(payments) < MaxPayments
    /\ payments' = Append(payments,
         [amount |-> quoteOf[p], seq |-> AccountSequence, state |-> "signed"])
    /\ Transition(p, [job EXCEPT !.status = "RECOVERY_PAYMENT_SIGNED",
                                 !.payment = Len(payments) + 1], "top")
    /\ UNCHANGED <<keyReleased, fdcTxs, mints, delays, settings, faults>>

\* Mutated SubmitPayment: autofill and sign again instead of sending the blob kept.
SubmitResigned(p) ==
    /\ pc[p] = "submit"
    /\ payments' = Append(payments,
         [amount |-> quoteOf[p], seq |-> AccountSequence, state |-> "submitted"])
    /\ Goto(p, "finality")
    /\ UNCHANGED <<row, fdcTxs, mints, delays, settings, faults>>

SubmitPayment(p) ==
    /\ pc[p] = "submit"
    /\ payments' = [payments EXCEPT ![seen[p].payment].state =
                       IF @ = "signed" THEN "submitted" ELSE @]
    /\ Goto(p, "finality")
    /\ UNCHANGED <<row, fdcTxs, mints, delays, settings, faults>>

\* Finality is confirmations only: the script does not look at the result.
AwaitFinality(p) ==
    /\ pc[p] = "finality"
    /\ payments[seen[p].payment].state \in {"validated", "failed"}
    /\ Transition(p, [job EXCEPT !.status = "RECOVERY_PAYMENT_FINALIZED"], "top")
    /\ UNCHANGED <<keyReleased, world, faults>>

RequestAttestation(p) ==
    /\ pc[p] = "attest"
    /\ Len(fdcTxs) < MaxFdcRequests
    /\ payments[seen[p].payment].state = "validated"
    /\ fdcTxs' = Append(fdcTxs, [pay |-> seen[p].payment, state |-> "pending"])
    /\ sent' = [sent EXCEPT ![p] = Len(fdcTxs) + 1]
    /\ pc' = [pc EXCEPT ![p] = "attested"]
    /\ UNCHANGED <<row, seen, quoteOf, payments, mints, delays, settings, faults>>

\* onTransactionHash: the hash is kept, at the status the row already has.
CheckpointFdcTx(p) ==
    /\ pc[p] = "attested"
    /\ Transition(p, [job EXCEPT !.status = "RECOVERY_PAYMENT_FINALIZED",
                                 !.fdcTx = sent[p]], "ownRound")
    /\ UNCHANGED <<keyReleased, world, faults>>

OwnRound(p) ==
    /\ pc[p] = "ownRound"
    /\ \/ /\ fdcTxs[sent[p]].state = "mined"
          /\ Transition(p, [job EXCEPT !.status = "RECOVERY_FDC_REQUESTED",
                                       !.fdcTx = sent[p], !.round = sent[p]], "top")
       \/ /\ fdcTxs[sent[p]].state = "reverted"
          /\ Leave(p)
          /\ UNCHANGED job
    /\ UNCHANGED <<keyReleased, world, faults>>

\* Mutated RecoveryProof: the quote itself is not enough.
RecoveryProofMore(p) ==
    /\ fdcTxs[seen[p].round] = [pay |-> seen[p].payment, state |-> "mined"]
    /\ payments[seen[p].payment].amount > quoteOf[p]

\* recoveryProof: the proof must show the payment the row names, of the amount
\* that this process quoted.
RecoveryProof(p) ==
    /\ fdcTxs[seen[p].round] = [pay |-> seen[p].payment, state |-> "mined"]
    /\ payments[seen[p].payment].amount = quoteOf[p]

AwaitProof(p) ==
    /\ pc[p] = "proof"
    /\ \/ /\ RecoveryProof(p)
          /\ Transition(p, [job EXCEPT !.status = "RECOVERY_PROOF_READY"], "top")
       \/ /\ ~RecoveryProof(p)
          /\ Leave(p)
          /\ UNCHANGED job
    /\ UNCHANGED <<keyReleased, world, faults>>

---------------------------------------------------------------------------
(* The two direct mints                                                    *)

\* Which mint a status is about, and the statuses after its hash and its receipt.
Kind(status) ==
    IF status \in {"RECOVERY_PROOF_READY", "RECOVERY_FLAG_SUBMITTED"} THEN "flag" ELSE "retry"

Submitted == [flag |-> "RECOVERY_FLAG_SUBMITTED", retry |-> "RECOVERY_STUCK_SUBMITTED"]
Confirmed == [flag |-> "RECOVERY_FLAG_SET", retry |-> "RECOVERED"]

\* Get the proof and simulate; onSimulationSuccess only annotates the row, but
\* like every transition it throws if the row has moved on.
Simulate(p) ==
    LET k == Kind(seen[p].status) IN
      /\ pc[p] = "prove"
      /\ \/ /\ k = "retry" \/ RecoveryProof(p)
            /\ Executable(k)
            /\ Transition(p, [job EXCEPT !.status = seen[p].status], "send")
         \/ /\ ~(k = "retry" \/ RecoveryProof(p)) \/ ~Executable(k)
            /\ Leave(p)
            /\ UNCHANGED job
      /\ UNCHANGED <<keyReleased, world, faults>>

\* writeContract estimates gas, which fails if the call would revert.
Broadcast(p) ==
    LET k == Kind(seen[p].status) IN
      /\ pc[p] = "send"
      /\ Len(mints) < MaxMints
      /\ Executable(k)
      /\ mints' = Append(mints, [kind |-> k, state |-> "pending"])
      /\ sent' = [sent EXCEPT ![p] = Len(mints) + 1]
      /\ pc' = [pc EXCEPT ![p] = "sent"]
      /\ UNCHANGED <<row, seen, quoteOf, payments, fdcTxs, delays, settings, faults>>

CheckpointMintTx(p) ==
    LET k == Kind(seen[p].status) IN
      /\ pc[p] = "sent"
      /\ Transition(p, [job EXCEPT !.status = Submitted[k],
                                   !.flagTx = IF k = "flag" THEN sent[p] ELSE @,
                                   !.retryTx = IF k = "retry" THEN sent[p] ELSE @], "receipt")
      /\ UNCHANGED <<keyReleased, world, faults>>

\* Mutated AwaitReceipt: any mined transaction that did not revert counts.
AwaitReceiptMined(p) ==
    LET k == Kind(seen[p].status) IN
      /\ pc[p] \in {"receipt", "reconcile"}
      /\ \/ /\ mints[sent[p]].state \in {"EXECUTED", "DELAYED"}
            /\ Transition(p, [job EXCEPT !.status = Confirmed[k]], "top")
         \/ /\ mints[sent[p]].state = "REVERTED"
            /\ Leave(p)
            /\ UNCHANGED job
      /\ UNCHANGED <<keyReleased, world, faults>>

\* validateFlagReceipt and validateStuckReceipt: only the events of an executed
\* mint count, a reverted or a delayed one throws; after a restart as well.
AwaitReceipt(p) ==
    LET k == Kind(seen[p].status) IN
      /\ pc[p] \in {"receipt", "reconcile"}
      /\ \/ /\ mints[sent[p]].state = "EXECUTED"
            /\ Transition(p, [job EXCEPT !.status = Confirmed[k]], "top")
         \/ /\ mints[sent[p]].state \in {"REVERTED", "DELAYED"}
            /\ Leave(p)
            /\ UNCHANGED job
      /\ UNCHANGED <<keyReleased, world, faults>>

\* An await that can only reject: a payment that never gets final or that the
\* verifier does not attest, a call whose gas estimate fails, and the broadcasts
\* after the last one the bounds allow (the executor's funds are spent).
Reject(p) ==
    /\ \/ pc[p] = "sign" /\ Len(payments) = MaxPayments
       \/ pc[p] = "finality" /\ payments[seen[p].payment].state \in {"signed", "expired"}
       \/ pc[p] = "attest" /\ payments[seen[p].payment].state # "validated"
       \/ pc[p] = "attest" /\ Len(fdcTxs) = MaxFdcRequests
       \/ pc[p] = "send" /\ ~Executable(Kind(seen[p].status))
       \/ pc[p] = "send" /\ Len(mints) = MaxMints
    /\ Leave(p)
    /\ UNCHANGED <<row, world, faults>>

---------------------------------------------------------------------------
(* The environment                                                         *)

SettlePayment(x) ==
    /\ payments[x].state = "submitted"
    /\ \E s \in {"validated", "failed", "expired"} :
         /\ s # "expired" => payments[x].seq = AccountSequence
         /\ payments' = [payments EXCEPT ![x].state = s]
    /\ UNCHANGED <<row, process, fdcTxs, mints, delays, settings, faults>>

MineFdcRequest(f) ==
    /\ fdcTxs[f].state = "pending"
    /\ \E s \in {"mined", "reverted"} : fdcTxs' = [fdcTxs EXCEPT ![f].state = s]
    /\ UNCHANGED <<row, process, payments, mints, delays, settings, faults>>

MineMint(i) ==
    /\ mints[i].state = "pending"
    /\ \A j \in 1 .. i - 1 : mints[j].state # "pending"
    /\ \/ /\ Executable(mints[i].kind)
          /\ mints' = [mints EXCEPT ![i].state = "EXECUTED"]
          /\ UNCHANGED delays
       \/ /\ Executable(mints[i].kind) /\ delays < MaxDelays
          /\ mints' = [mints EXCEPT ![i].state = "DELAYED"]
          /\ delays' = delays + 1
       \/ /\ ~Executable(mints[i].kind)
          /\ mints' = [mints EXCEPT ![i].state = "REVERTED"]
          /\ UNCHANGED delays
    /\ UNCHANGED <<row, process, payments, fdcTxs, settings, faults>>

\* Governance changes the direct-minting settings.
ChangeSettings ==
    /\ settings' \in FeeSettings \ {settings}
    /\ UNCHANGED <<row, process, payments, fdcTxs, mints, delays, faults>>

Environment ==
    \/ \E x \in DOMAIN payments : SettlePayment(x)
    \/ \E f \in DOMAIN fdcTxs : MineFdcRequest(f)
    \/ \E i \in DOMAIN mints : MineMint(i)

Step(p) ==
    \/ CheckUnused(p) \/ Read(p) \/ Sign(p) \/ SubmitPayment(p) \/ AwaitFinality(p)
    \/ RequestAttestation(p) \/ CheckpointFdcTx(p) \/ OwnRound(p) \/ AwaitProof(p)
    \/ Simulate(p) \/ Broadcast(p) \/ CheckpointMintTx(p) \/ AwaitReceipt(p)
    \/ Reject(p)

Next ==
    \/ \E p \in Operators : Start(p) \/ Step(p) \/ Fault(p)
    \/ Environment
    \/ ChangeSettings

Spec == Init /\ [][Next]_vars

\* The operator runs the script again whenever it has ended, and every await of
\* it ends; the chains settle what was sent to them.
LiveSpec ==
    /\ Spec
    /\ \A p \in Operators : WF_vars(Start(p)) /\ WF_vars(Step(p))
    /\ WF_vars(Environment)

---------------------------------------------------------------------------
(* Properties                                                              *)

\* Every variable keeps its type.
TypeOK ==
    /\ job \in Job /\ keyReleased \in BOOLEAN
    /\ pc \in [Operators -> Labels]
    /\ seen \in [Operators -> Job]
    /\ quoteOf \in [Operators -> Nat] /\ sent \in [Operators -> Nat]
    /\ payments \in Seq([amount : Nat, seq : Nat, state : PaymentStates])
    /\ fdcTxs \in Seq([pay : Nat, state : {"pending", "mined", "reverted"}])
    /\ mints \in Seq([kind : {"flag", "retry"}, state : MintStates])
    /\ delays \in Nat /\ settings \in FeeSettings /\ faults \in Nat

\* "resume recovery ... without creating another payment": one operator's runs,
\* however often they die and start over, pay for the recovery once.
OneRecoveryPayment ==
    \A x, y \in DOMAIN payments :
        payments[x].state = "validated" /\ payments[y].state = "validated" => x = y

\* Every stage the row reports is backed by the chains: a proof stage by the
\* attestation of the row's own validated payment, a set flag by IgnoreMemoSet, and
\* RECOVERED, and with it the released intent key, by the mint of the stuck payment.
Flagged == {"RECOVERY_FLAG_SET", "RECOVERY_STUCK_SUBMITTED", "RECOVERED"}
Proved  == {"RECOVERY_PROOF_READY", "RECOVERY_FLAG_SUBMITTED"} \cup Flagged

StageMatchesChain ==
    /\ job.status \in Proved =>
         /\ job.round \in DOMAIN fdcTxs
         /\ fdcTxs[job.round] = [pay |-> job.payment, state |-> "mined"]
         /\ payments[job.payment].state = "validated"
    /\ job.status \in Flagged => MemoIgnored
    /\ job.status = "RECOVERED" \/ keyReleased => StuckUsed

\* A flag that executed is always found again, whatever died in between.
FlagIsConfirmed ==
    job.status = "RECOVERY_FLAG_SUBMITTED" /\ mints[job.flagTx].state = "EXECUTED"
        ~> job.status \in {"RECOVERY_FLAG_SET", "RECOVERY_STUCK_SUBMITTED", "RECOVERED"}

\* "resume recovery across ... stuck-proof retry checkpoints": a retry that
\* executed is reported as RECOVERED in the end.
RetryIsConfirmed ==
    job.status = "RECOVERY_STUCK_SUBMITTED" /\ mints[job.retryTx].state = "EXECUTED"
        ~> job.status = "RECOVERED"

\* "grosses up payment so memo fee cannot consume signed Router input": under any
\* settings a quote leaves what was asked for, and at most one unit more.
QuoteIsExact ==
    \A d \in 1 .. RecoveryNet, e \in 0 .. RecoveryNet : Residual(d, e, settings) \in {0, 1}

\* "resume recovery across recovery FDC": an attested recovery payment is used, as
\* long as the price of a recovery stays what the job paid.
PricePaid ==
    job.status = "RECOVERY_FDC_REQUESTED" => Quote = payments[job.payment].amount

AttestedPaymentIsUsed ==
    []PricePaid =>
        (job.status = "RECOVERY_FDC_REQUESTED" ~> job.status # "RECOVERY_FDC_REQUESTED")

---------------------------------------------------------------------------
(* Refinement                                                              *)

Paid == \E x \in DOMAIN payments : payments[x].state = "validated"

Reported ==
    CASE job.status \in {"RECOVERY_FDC_REQUESTED", "RECOVERY_PROOF_READY",
                         "RECOVERY_FLAG_SUBMITTED"} -> "attested"
      [] job.status \in {"RECOVERY_FLAG_SET", "RECOVERY_STUCK_SUBMITTED"} -> "flagged"
      [] job.status = "RECOVERED" -> "recovered"
      [] OTHER -> "open"

Abstract == INSTANCE RecoveryPromise WITH
    paid <- Paid, ignored <- MemoIgnored, minted <- StuckUsed,
    report <- Reported, released <- keyReleased

\* Whoever runs the script and however often it dies: no flag before a validated
\* payment, no retry before the flag; the row reports each after it happened, never
\* goes back on a report, and frees the intent key last.
KeepsRecoveryPromise == Abstract!Promise
=============================================================================
