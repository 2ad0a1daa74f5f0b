--------------------------- MODULE ExecutorPipeline ---------------------------
(***************************************************************************)
(* MintShieldExecutorPipeline.run over one durable job, executed by        *)
(* several operating-system processes that share the SQLite file:          *)
(* `executor:run` processes, which hold an XRPL wallet, and                *)
(* `executor:worker` processes, which poll listRunnable.                   *)
(*                                                                         *)
(* A process runs JavaScript without preemption between two awaits, so an  *)
(* action here is the code from one await to the next: it uses the row the *)
(* process read at the top of its loop (`seen`), however old, and writes   *)
(* the row as it is now.  Every await may throw, and a process may die at  *)
(* any await.  XRPL, the FDC and Coston2 are external: they are modelled   *)
(* from what the pipeline asks of them.  0 stands for an undefined column. *)
(***************************************************************************)
EXTENDS Naturals, Sequences, FiniteSets, JobStatus

CONSTANTS
    Signers,         \* executor:run processes (they have options.xrplWallet)
    Workers,         \* executor:worker processes
    MaxErrors,       \* MAX_CONSECUTIVE_STATUS_ERRORS
    AllowFlareRevert,\* the values of metadata.allowFlareRevert explored
    MaxPayments,     \* bound: XRPL payments signed
    MaxFdcRequests,  \* bound: FDC request transactions broadcast
    MaxMints,        \* bound: executeDirectMintingWithData transactions broadcast
    MaxDelays,       \* bound: DirectMintingDelayed answers of the chain
    MaxCrashes       \* bound: process deaths

Procs == Signers \cup Workers

ASSUME ProcsAssumption == Signers \cap Workers = {}
ASSUME MaxErrorsAssumption == MaxErrors \in Nat \ {0}
ASSUME KindsAssumption == AllowFlareRevert \subseteq BOOLEAN /\ AllowFlareRevert # {}
ASSUME BoundsAssumption ==
    /\ MaxPayments \in Nat \ {0} /\ MaxFdcRequests \in Nat
    /\ MaxMints \in Nat /\ MaxDelays \in Nat /\ MaxCrashes \in Nat

VARIABLES
    job,       \* the executor_jobs row
    streak,    \* metadata.errorStreak of the row
    pc,        \* per process: the await it is suspended at
    seen,      \* per process: the row as read at the top of its loop
    sent,      \* per process: the Coston2 transaction it is waiting for
    payments,  \* XRPL payments ever signed, in signing order
    fdcTxs,    \* FDC request transactions ever broadcast
    mintTxs,   \* direct-mint transactions ever broadcast, in nonce order
    delays,    \* delays the AssetManager has imposed so far
    released,  \* delays whose executionAllowedAt has passed
    failures,  \* history: errors recorded since the status last changed
    crashes    \* process deaths so far

row     == <<job, streak, failures>>
process == <<pc, seen, sent>>
world   == <<payments, fdcTxs, mintTxs, delays, released>>
vars    == <<row, process, world, crashes>>

---------------------------------------------------------------------------
(* The row and the processes                                               *)

Labels ==
    {"idle", "top", "sign", "submit", "finality", "attest", "attested",
     "ownRound", "resolve", "awaitProof", "mintProof", "broadcast", "broadcasted",
     "receipt", "reconcile"}

Job == [status: MintStatuses, allowFlareRevert: BOOLEAN,
        xrplTxHash: Nat, txBlob: BOOLEAN, fdcRequest: Nat, fdcTxHash: Nat,
        votingRound: Nat, flareTxHash: Nat, executionAllowedAt: Nat,
        simulationAttempts: Nat]

\* The row createProtectedMintJob inserts.
NewJob(allowRevert) ==
    [status |-> "CREATED", allowFlareRevert |-> allowRevert,
     xrplTxHash |-> 0, txBlob |-> FALSE, fdcRequest |-> 0, fdcTxHash |-> 0,
     votingRound |-> 0, flareTxHash |-> 0, executionAllowedAt |-> 0,
     simulationAttempts |-> 0]

NoRow == NewJob(FALSE)

\* Process p goes to label next and keeps what it has read.
Goto(p, next) == pc' = [pc EXCEPT ![p] = next] /\ UNCHANGED <<seen, sent>>

\* Process p leaves run(): it returns, throws or dies.
Leave(p) ==
    /\ pc' = [pc EXCEPT ![p] = "idle"]
    /\ seen' = [seen EXCEPT ![p] = NoRow]
    /\ sent' = [sent EXCEPT ![p] = 0]

\* Mutated NextErrorStreak: a streak that never grows.
NextErrorStreakReset == [status |-> job.status, count |-> 1]

NextErrorStreak ==
    [status |-> job.status,
     count  |-> IF streak.status = job.status THEN streak.count + 1 ELSE 1]

\* The catch block of run(): count the error on the row's current status,
\* give the job up at the limit, rethrow.
Caught(p) ==
    /\ \/ /\ job.status \in {"SETTLED_SUCCESS", "SETTLED_FALLBACK", "FAILED"}
          /\ UNCHANGED row
       \/ /\ job.status \notin {"SETTLED_SUCCESS", "SETTLED_FALLBACK", "FAILED"}
          /\ streak' = NextErrorStreak
          /\ job' = [job EXCEPT !.status =
                        IF NextErrorStreak.count >= MaxErrors THEN "FAILED" ELSE @]
          /\ failures' = failures + 1
    /\ Leave(p)

\* store.transition(id, patched.status, patch): the row becomes `patched`, or
\* the move is illegal from the row's current status and the call throws.
Transition(p, patched, next) ==
    \/ /\ CanTransition(job.status, patched.status)
       /\ job' = patched
       /\ failures' = IF patched.status = job.status THEN failures ELSE 0
       /\ UNCHANGED streak
       /\ Goto(p, next)
    \/ /\ ~CanTransition(job.status, patched.status)
       /\ Caught(p)

---------------------------------------------------------------------------
(* The chains, as the pipeline uses them                                   *)

PaymentStates == {"signed", "submitted", "validated", "failed", "expired"}
Consumed      == {"SETTLED_SUCCESS", "SETTLED_FALLBACK", "UNMATCHED"}
MintStates    == {"pending", "REVERTED", "DELAYED"} \cup Consumed

\* The Sequence that autofill reads: one more per payment in a ledger.
AccountSequence ==
    1 + Cardinality({i \in DOMAIN payments : payments[i].state \in {"validated", "failed"}})

\* The Smart Account nonce and the XRPL transaction id are both still unused.
Unspent == \A i \in DOMAIN mintTxs : mintTxs[i].state \notin Consumed

\* executeDirectMintingWithData for payment x does not revert in this state.
Executable(x) ==
    /\ x \in DOMAIN payments /\ payments[x].state = "validated"
    /\ Unspent
    /\ delays = released

\* The data-availability layer has a proof of payment x in voting round r.
ProofAvailable(x, r) ==
    /\ r \in DOMAIN fdcTxs
    /\ fdcTxs[r] = [pay |-> x, state |-> "mined"]
    /\ payments[x].state = "validated"

---------------------------------------------------------------------------
(* Starting, dying, failing                                                *)

Init ==
    /\ \E a \in AllowFlareRevert :
         \/ job = NewJob(a) /\ payments = <<>>
         \* the status API already recorded a payment signed in Xaman
         \/ /\ a = FALSE
            /\ job = [NewJob(a) EXCEPT !.status = "XRPL_SIGNED", !.xrplTxHash = 1]
            /\ payments = <<[seq |-> 1, state |-> "submitted"]>>
    /\ streak = [status |-> "CREATED", count |-> 0]
    /\ pc = [p \in Procs |-> "idle"]
    /\ seen = [p \in Procs |-> NoRow]
    /\ sent = [p \in Procs |-> 0]
    /\ fdcTxs = <<>> /\ mintTxs = <<>>
    /\ delays = 0 /\ released = 0
    /\ failures = 0 /\ crashes = 0

\* executor:run: createOrGet finds the row whatever its status, then run().
StartExecutor(p) ==
    /\ p \in Signers
    /\ pc[p] = "idle"
    /\ Goto(p, "top")
    /\ UNCHANGED <<row, world, crashes>>

\* listRunnable returns the row.
Listed ==
    /\ job.status \notin ClosedStatuses
    /\ job.status = "DELAYED" => job.executionAllowedAt <= released

\* One worker poll picks the job from listRunnable.
StartWorker(p) ==
    /\ p \in Workers
    /\ pc[p] = "idle"
    /\ Listed /\ job.status \in RunnableStatuses
    /\ Goto(p, "top")
    /\ UNCHANGED <<row, world, crashes>>

\* The process dies; only what it has persisted or broadcast remains.
Crash(p) ==
    /\ pc[p] # "idle"
    /\ crashes < MaxCrashes
    /\ crashes' = crashes + 1
    /\ Leave(p)
    /\ UNCHANGED <<row, world>>

\* The pending await rejects: an RPC error, a timeout, an aborted signal, or
\* a response lost after the request took effect.
Throw(p) ==
    /\ pc[p] \notin {"idle", "top"}
    /\ Caught(p)
    /\ UNCHANGED <<world, crashes>>

---------------------------------------------------------------------------
(* The loop of run()                                                       *)

\* Mutated Branch: a restarted process trusts the simulation of the one before, or
\* meets a status that nothing handles.
BranchTrusting ==
    [CREATED |-> "sign", XRPL_SIGNED |-> "submit", XRPL_FINALIZED |-> "attest",
     FDC_REQUESTED |-> "awaitProof", PROOF_READY |-> "mintProof",
     SIMULATION_PASSED |-> "broadcast", FLARE_SUBMITTED |-> "reconcile",
     DELAYED |-> "mintProof"]

BranchUnhandled == [BranchTrusting EXCEPT !.SIMULATION_PASSED = "unhandled"]

\* Where the loop goes for each status; every other status returns the job.
Branch == [CREATED |-> "sign", XRPL_SIGNED |-> "submit", XRPL_FINALIZED |-> "attest",
           FDC_REQUESTED |-> "awaitProof", PROOF_READY |-> "mintProof",
           SIMULATION_PASSED |-> "mintProof", FLARE_SUBMITTED |-> "reconcile",
           DELAYED |-> "mintProof"]

\* The loop reads the row and branches on its status.
Read(p) ==
    /\ pc[p] = "top"
    /\ \/ /\ \/ job.status \notin DOMAIN Branch
             \/ job.status = "DELAYED" /\ released < job.executionAllowedAt
          /\ Leave(p)
       \/ /\ job.status \in DOMAIN Branch
          /\ job.status = "DELAYED" => job.executionAllowedAt <= released
          /\ seen' = [seen EXCEPT ![p] = job]
          /\ sent' = [sent EXCEPT ![p] =
                        IF job.status = "FLARE_SUBMITTED" THEN job.flareTxHash ELSE 0]
          /\ pc' = [pc EXCEPT ![p] =
                        IF job.status = "FDC_REQUESTED" /\ job.votingRound = 0
                        THEN "resolve" ELSE Branch[job.status]]
    /\ UNCHANGED <<row, world, crashes>>

\* CREATED: autofill, sign, and persist hash and blob before any broadcast.
Sign(p) ==
    /\ pc[p] = "sign"
    /\ p \in Signers
    /\ Len(payments) < MaxPayments
    /\ payments' = Append(payments, [seq |-> AccountSequence, state |-> "signed"])
    /\ Transition(p, [job EXCEPT !.status = "XRPL_SIGNED",
                                 !.xrplTxHash = Len(payments) + 1, !.txBlob = TRUE], "top")
    /\ UNCHANGED <<fdcTxs, mintTxs, delays, released, crashes>>

\* Mutated SubmitPayment: autofill and sign again instead of sending the blob kept.
SubmitResigned(p) ==
    /\ pc[p] = "submit"
    /\ payments' = Append(payments, [seq |-> AccountSequence, state |-> "submitted"])
    /\ Goto(p, "finality")
    /\ UNCHANGED <<row, fdcTxs, mintTxs, delays, released, crashes>>

\* What becomes of a payment when a process finds or submits it.
Submitted(state, hasBlob) == IF state = "signed" /\ hasBlob THEN "submitted" ELSE state

\* XRPL_SIGNED: unless the ledger already has the payment, submit the blob.
SubmitPayment(p) ==
    /\ pc[p] = "submit"
    /\ LET x == seen[p].xrplTxHash IN
         payments' = [payments EXCEPT ![x].state = Submitted(@, seen[p].txBlob)]
    /\ Goto(p, "finality")
    /\ UNCHANGED <<row, fdcTxs, mintTxs, delays, released, crashes>>

\* What waitForXrplFinality waits for, and what validateCoreVaultPayment accepts.
InValidatedLedger(payment) == payment.state \in {"validated", "failed"}

PaysCoreVault(payment) == payment.state = "validated"

\* The payment is final; validateCoreVaultPayment accepts it or throws.
AwaitFinality(p) ==
    /\ pc[p] = "finality"
    /\ LET payment == payments[seen[p].xrplTxHash] IN
         /\ InValidatedLedger(payment)
         /\ \/ /\ PaysCoreVault(payment)
               /\ Transition(p, [job EXCEPT !.status = "XRPL_FINALIZED"], "top")
            \/ /\ ~PaysCoreVault(payment)
               /\ Caught(p)
    /\ UNCHANGED <<world, crashes>>

\* XRPL_FINALIZED: prepare the request for the payment and broadcast it.
RequestAttestation(p) ==
    /\ pc[p] = "attest"
    /\ Len(fdcTxs) < MaxFdcRequests
    /\ payments[seen[p].xrplTxHash].state = "validated"
    /\ fdcTxs' = Append(fdcTxs, [pay |-> seen[p].xrplTxHash, state |-> "pending"])
    /\ sent' = [sent EXCEPT ![p] = Len(fdcTxs) + 1]
    /\ pc' = [pc EXCEPT ![p] = "attested"]
    /\ UNCHANGED <<row, seen, payments, mintTxs, delays, released, crashes>>

\* onTransactionHash: FDC_REQUESTED with the request and its hash, no round yet.
CheckpointFdcTx(p) ==
    /\ pc[p] = "attested"
    /\ Transition(p, [job EXCEPT !.status = "FDC_REQUESTED",
                                 !.fdcRequest = seen[p].xrplTxHash,
                                 !.fdcTxHash = sent[p]], "ownRound")
    /\ UNCHANGED <<world, crashes>>

\* submitFdcRequest returns the round of its transaction, or throws if reverted.
OwnRound(p) ==
    /\ pc[p] = "ownRound"
    /\ \/ /\ fdcTxs[sent[p]].state = "mined"
          /\ Transition(p, [job EXCEPT !.status = "FDC_REQUESTED",
                                       !.fdcRequest = seen[p].xrplTxHash,
                                       !.votingRound = sent[p]], "top")
       \/ /\ fdcTxs[sent[p]].state = "reverted"
          /\ Caught(p)
    /\ UNCHANGED <<world, crashes>>

\* FDC_REQUESTED without a round: resolve it from the persisted hash.
ResolveRound(p) ==
    /\ pc[p] = "resolve"
    /\ LET f == seen[p].fdcTxHash IN
         \/ /\ fdcTxs[f].state = "mined"
            /\ \/ /\ CanTransition(job.status, "FDC_REQUESTED")
                  /\ job' = [job EXCEPT !.status = "FDC_REQUESTED", !.votingRound = f]
                  /\ seen' = [seen EXCEPT ![p].votingRound = f]
                  /\ failures' = IF job.status = "FDC_REQUESTED" THEN failures ELSE 0
                  /\ pc' = [pc EXCEPT ![p] = "awaitProof"]
                  /\ UNCHANGED <<streak, sent>>
               \/ /\ ~CanTransition(job.status, "FDC_REQUESTED")
                  /\ Caught(p)
         \/ /\ fdcTxs[f].state = "reverted"
            /\ Caught(p)
    /\ UNCHANGED <<world, crashes>>

\* waitForFdcProof, then validateXrpPaymentProof against the payment seen.
ProofSeen(p) ==
    /\ ProofAvailable(seen[p].fdcRequest, seen[p].votingRound)
    /\ seen[p].fdcRequest = seen[p].xrplTxHash

AwaitProof(p) ==
    /\ pc[p] = "awaitProof"
    /\ ProofSeen(p)
    /\ Transition(p, [job EXCEPT !.status = "PROOF_READY"], "top")
    /\ UNCHANGED <<world, crashes>>

---------------------------------------------------------------------------
(* #submitFlare and #classifyReceipt                                       *)

\* The eth_call of the exact mint passes and is recorded before any broadcast.
\* simulationAttempts saturates at MaxMints, the number of broadcasts explored.
Simulate(p) ==
    /\ pc[p] = "mintProof"
    /\ ~seen[p].allowFlareRevert
    /\ ProofSeen(p)
    /\ Executable(seen[p].xrplTxHash)
    /\ Transition(p, [job EXCEPT !.status = "SIMULATION_PASSED",
                                 !.simulationAttempts =
                                     IF @ < MaxMints THEN @ + 1 ELSE @], "broadcast")
    /\ UNCHANGED <<world, crashes>>

\* The bare comparison is the only bypass; it only annotates the row.
BypassSimulation(p) ==
    /\ pc[p] = "mintProof"
    /\ seen[p].allowFlareRevert
    /\ ProofSeen(p)
    /\ Transition(p, [job EXCEPT !.status = seen[p].status], "broadcast")
    /\ UNCHANGED <<world, crashes>>

\* writeContract: without an explicit gas limit it first estimates gas, which
\* fails when the call would revert; then the node accepts the transaction.
Broadcast(p) ==
    /\ pc[p] = "broadcast"
    /\ Len(mintTxs) < MaxMints
    /\ seen[p].allowFlareRevert \/ Executable(seen[p].xrplTxHash)
    /\ mintTxs' = Append(mintTxs, [pay |-> seen[p].xrplTxHash, state |-> "pending"])
    /\ sent' = [sent EXCEPT ![p] = Len(mintTxs) + 1]
    /\ pc' = [pc EXCEPT ![p] = "broadcasted"]
    /\ UNCHANGED <<row, seen, payments, fdcTxs, delays, released, crashes>>

\* onTransactionHash: FLARE_SUBMITTED with the hash that writeContract returned.
CheckpointMintTx(p) ==
    /\ pc[p] = "broadcasted"
    /\ Transition(p, [job EXCEPT !.status = "FLARE_SUBMITTED",
                                 !.flareTxHash = sent[p]], "receipt")
    /\ UNCHANGED <<world, crashes>>

\* Mutated Settlement: every settlement a success; a delayed mint lost.
SettlementAlwaysSuccess(outcome) ==
    CASE outcome \in {"REVERTED", "UNMATCHED"} -> "RECOVERY_REQUIRED"
      [] outcome = "SETTLED_FALLBACK" -> "SETTLED_SUCCESS"
      [] OTHER -> outcome

SettlementDelayLost(outcome) ==
    CASE outcome \in {"REVERTED", "UNMATCHED", "DELAYED"} -> "RECOVERY_REQUIRED"
      [] OTHER -> outcome

\* The status a mined transaction is classified as.
Settlement(outcome) ==
    CASE outcome \in {"REVERTED", "UNMATCHED"} -> "RECOVERY_REQUIRED"
      [] OTHER -> outcome

\* #classifyReceipt: the row follows the events of the receipt.
ClassifyReceipt(p, outcome) ==
    Transition(p, [job EXCEPT !.status = Settlement(outcome),
                              !.executionAllowedAt =
                                  IF outcome = "DELAYED" THEN delays ELSE @], "top")

\* The receipt of the transaction just sent: an unexpected revert throws.
AwaitReceipt(p) ==
    /\ pc[p] = "receipt"
    /\ LET outcome == mintTxs[sent[p]].state IN
         \/ /\ outcome = "REVERTED" /\ ~seen[p].allowFlareRevert
            /\ Caught(p)
         \/ /\ outcome # "pending"
            /\ outcome # "REVERTED" \/ seen[p].allowFlareRevert
            /\ ClassifyReceipt(p, outcome)
    /\ UNCHANGED <<world, crashes>>

\* FLARE_SUBMITTED: the receipt of the persisted hash.
Reconcile(p) ==
    /\ pc[p] = "reconcile"
    /\ mintTxs[sent[p]].state # "pending"
    /\ ClassifyReceipt(p, mintTxs[sent[p]].state)
    /\ UNCHANGED <<world, crashes>>

---------------------------------------------------------------------------
(* The environment                                                         *)

\* A submitted payment gets into a validated ledger if its Sequence is still
\* the account's next one, with or without success, or it can never do so.
SettlePayment(x) ==
    /\ payments[x].state = "submitted"
    /\ \E s \in {"validated", "failed", "expired"} :
         /\ s # "expired" => payments[x].seq = AccountSequence
         /\ payments' = [payments EXCEPT ![x].state = s]
    /\ UNCHANGED <<row, process, fdcTxs, mintTxs, delays, released, crashes>>

MineFdcRequest(f) ==
    /\ fdcTxs[f].state = "pending"
    /\ \E s \in {"mined", "reverted"} : fdcTxs' = [fdcTxs EXCEPT ![f].state = s]
    /\ UNCHANGED <<row, process, payments, mintTxs, delays, released, crashes>>

\* The outcomes of the mint transaction of payment x, mined now.  Any mint may lack
\* a matching settlement event; a bare comparison never has one of the Router's.
Outcomes(x) ==
    {"REVERTED"} \cup
    (IF ~Executable(x) THEN {}
     ELSE {"UNMATCHED"}
          \cup (IF job.allowFlareRevert THEN {} ELSE {"SETTLED_SUCCESS", "SETTLED_FALLBACK"})
          \cup (IF delays < MaxDelays THEN {"DELAYED"} ELSE {}))

\* Transactions of the executor account are mined in nonce order.
MineMint(i) ==
    /\ mintTxs[i].state = "pending"
    /\ \A j \in 1 .. i - 1 : mintTxs[j].state # "pending"
    /\ \E o \in Outcomes(mintTxs[i].pay) :
         /\ mintTxs' = [mintTxs EXCEPT ![i].state = o]
         /\ delays' = IF o = "DELAYED" THEN delays + 1 ELSE delays
    /\ UNCHANGED <<row, process, payments, fdcTxs, released, crashes>>

\* executionAllowedAt of the latest delay passes.
PassDelay ==
    /\ released < delays
    /\ released' = delays
    /\ UNCHANGED <<row, process, payments, fdcTxs, mintTxs, delays, crashes>>

Environment ==
    \/ \E x \in DOMAIN payments : SettlePayment(x)
    \/ \E f \in DOMAIN fdcTxs : MineFdcRequest(f)
    \/ \E i \in DOMAIN mintTxs : MineMint(i)
    \/ PassDelay

\* What a running process does next.
Step(p) ==
    \/ Read(p) \/ Sign(p) \/ SubmitPayment(p) \/ AwaitFinality(p)
    \/ RequestAttestation(p) \/ CheckpointFdcTx(p) \/ OwnRound(p) \/ ResolveRound(p)
    \/ AwaitProof(p) \/ Simulate(p) \/ BypassSimulation(p)
    \/ Broadcast(p) \/ CheckpointMintTx(p) \/ AwaitReceipt(p) \/ Reconcile(p)
    \/ Throw(p)

Next ==
    \/ \E p \in Procs : StartExecutor(p) \/ StartWorker(p) \/ Step(p) \/ Crash(p)
    \/ Environment

Spec == Init /\ [][Next]_vars

\* The worker polls forever and bounds every await with a timeout, so it always
\* takes its next step or throws; delays run out.  Nothing else is owed.
Fairness ==
    /\ \A p \in Workers : WF_vars(StartWorker(p)) /\ WF_vars(Step(p))
    /\ WF_vars(PassDelay)

LiveSpec == Spec /\ Fairness

---------------------------------------------------------------------------
(* Properties                                                              *)

\* Every variable keeps its type.
TypeOK ==
    /\ job \in Job
    /\ streak \in [status : MintStatuses, count : Nat]
    /\ pc \in [Procs -> Labels]
    /\ seen \in [Procs -> Job]
    /\ sent \in [Procs -> Nat]
    /\ payments \in Seq([seq : Nat, state : PaymentStates])
    /\ fdcTxs \in Seq([pay : Nat, state : {"pending", "mined", "reverted"}])
    /\ mintTxs \in Seq([pay : Nat, state : MintStates])
    /\ delays \in Nat /\ released \in Nat
    /\ failures \in Nat /\ crashes \in Nat

\* The payments that left the process, and those that moved XRP.
Released == {x \in DOMAIN payments : payments[x].state # "signed"}
Paid     == {x \in DOMAIN payments : payments[x].state = "validated"}

\* "It never creates a second XRPL payment for the same nonce": across crashes,
\* retries and workers, the job pays the Core Vault at most once.
AtMostOnePayment == \A x, y \in Paid : x = y

\* Signed hash and blob are in the row before the payment can reach the network,
\* and no later step, of any process, replaces them.
PaymentIsRecorded == \A x \in Released : job.xrplTxHash = x

\* A settled row is backed by a mint of the row's own payment that settled so.
SettledMatchesChain ==
    job.status \in {"SETTLED_SUCCESS", "SETTLED_FALLBACK"} =>
        \E i \in DOMAIN mintTxs :
            mintTxs[i] = [pay |-> job.xrplTxHash, state |-> job.status]

\* Every broadcast, first attempt or retry after a delay, was preceded by a
\* simulation of its own that the row records; only a bare comparison is exempt.
EveryBroadcastWasSimulated ==
    ~job.allowFlareRevert => Len(mintTxs) <= job.simulationAttempts

\* A job whose status does not change is not retried forever.
RetriesAreBounded ==
    job.status \notin {"SETTLED_SUCCESS", "SETTLED_FALLBACK", "FAILED"} =>
        failures < MaxErrors

\* A job waiting for recovery has a mint that did not settle it.
RecoveryHasACause ==
    job.status = "RECOVERY_REQUIRED" =>
        \E i \in DOMAIN mintTxs : mintTxs[i].state \in {"REVERTED", "UNMATCHED"}

\* A signed job does not stay in flight: it settles, asks for recovery or fails.
Resting == {"SETTLED_SUCCESS", "SETTLED_FALLBACK", "RECOVERY_REQUIRED", "FAILED"}

SignedJobRests == job.status = "XRPL_SIGNED" ~> job.status \in Resting

\* "After this many consecutive failures without status progress, the job is
\* moved to FAILED": never after fewer.
FailedOnlyWhenStuck == job.status = "FAILED" => failures >= MaxErrors

\* "On-chain settlement events are the source of truth": no row asks for the
\* recovery of a payment that settled.
RecoveryOnlyIfUnsettled ==
    job.status = "RECOVERY_REQUIRED" =>
        \A i \in DOMAIN mintTxs : mintTxs[i].state \notin {"SETTLED_SUCCESS", "SETTLED_FALLBACK"}

---------------------------------------------------------------------------
(* Refinement                                                              *)

MintOutcomes == {mintTxs[i].state : i \in DOMAIN mintTxs} \cap Consumed

Minted == IF MintOutcomes = {} THEN "no" ELSE CHOOSE o \in MintOutcomes : TRUE

Abstract == INSTANCE DirectMintPromise WITH
    paid   <- Cardinality(Paid),
    minted <- Minted,
    report <- IF job.status \in Resting THEN job.status ELSE "open"

\* The processes, their crashes and the chains together keep the promise of one
\* payment, one mint and one final report that is the chain's own.
KeepsPromise == Abstract!Promise
=============================================================================
