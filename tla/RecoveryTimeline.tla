--------------------------- MODULE RecoveryTimeline ---------------------------
(***************************************************************************)
(* The recovery part of the timeline that the status page derives from a   *)
(* live row (src/api/public-model.ts) and, in a second copy of the code,   *)
(* from an exported one (src/api/evidence-model.ts), over the rows that    *)
(* RecoveryScript can produce.  The steps before RECOVERY_REQUIRED are     *)
(* those of PublicTimeline, all of them completed.                         *)
(***************************************************************************)
EXTENDS RecoveryScript

RecoverySteps ==
    <<"RECOVERY_REQUIRED", "RECOVERY_PAYMENT_SIGNED", "RECOVERY_PAYMENT_FINALIZED",
      "RECOVERY_FDC_REQUESTED", "RECOVERY_PROOF_READY", "RECOVERY_FLAG_SUBMITTED",
      "RECOVERY_FLAG_SET", "RECOVERY_STUCK_SUBMITTED", "RECOVERED">>

Index(status) == CHOOSE n \in DOMAIN RecoverySteps : RecoverySteps[n] = status

\* Mutated CompletedSteps: the step that the row is in counts as done.
CompletedThrough(status) == {RecoverySteps[n] : n \in 1 .. Index(status)}

\* The steps shown as completed: those before the present one, and RECOVERED itself.
CompletedSteps(status) ==
    {RecoverySteps[n] : n \in 1 .. Index(status) - 1} \cup ({status} \cap {"RECOVERED"})

---------------------------------------------------------------------------

\* What must have happened for a step to be completed.  The transactions are those the
\* page links to.
BackedStep(step) ==
    CASE step = "RECOVERY_PAYMENT_SIGNED"    -> job.payment \in DOMAIN payments
      [] step = "RECOVERY_PAYMENT_FINALIZED" -> payments[job.payment].state = "validated"
      [] step \in {"RECOVERY_FDC_REQUESTED", "RECOVERY_PROOF_READY"} ->
            fdcTxs[job.round] = [pay |-> job.payment, state |-> "mined"]
      [] step = "RECOVERY_FLAG_SUBMITTED" ->
            mints[job.flagTx] = [kind |-> "flag", state |-> "EXECUTED"]
      [] step = "RECOVERY_FLAG_SET" -> MemoIgnored
      [] step = "RECOVERY_STUCK_SUBMITTED" ->
            mints[job.retryTx] = [kind |-> "retry", state |-> "EXECUTED"]
      [] step = "RECOVERED" -> StuckUsed
      [] OTHER -> TRUE

\* The page says nothing of a recovery that did not happen: the payment, the attestation
\* and the two mints that it links to for completed steps are the ones that took effect
\* on the chains, however often the script died and sent something again.
RecoveryTimelineIsBacked == \A step \in CompletedSteps(job.status) : BackedStep(step)
===============================================================================
