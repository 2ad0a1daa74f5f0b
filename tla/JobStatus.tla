------------------------------ MODULE JobStatus ------------------------------
(***************************************************************************)
(* The durable state machine of an executor job: the statuses a row of     *)
(* executor_jobs can have and the moves ExecutorStateStore.transition      *)
(* accepts (src/executor/state-store.ts).  Every module about a process    *)
(* that writes job rows extends this one.                                  *)
(***************************************************************************)

MintStatuses ==
    {"CREATED", "XRPL_SIGNED", "XRPL_FINALIZED", "FDC_REQUESTED", "PROOF_READY",
     "SIMULATION_PASSED", "FLARE_SUBMITTED", "DELAYED", "SETTLED_SUCCESS",
     "SETTLED_FALLBACK", "RECOVERY_REQUIRED", "FAILED"}

RecoveryStatuses ==
    {"RECOVERY_PAYMENT_SIGNED", "RECOVERY_PAYMENT_FINALIZED",
     "RECOVERY_FDC_REQUESTED", "RECOVERY_PROOF_READY", "RECOVERY_FLAG_SUBMITTED",
     "RECOVERY_FLAG_SET", "RECOVERY_STUCK_SUBMITTED", "RECOVERED"}

JobStatuses == MintStatuses \cup RecoveryStatuses

\* The transitions table, one successor set per status.
Transitions == [
    CREATED                    |-> {"XRPL_SIGNED", "FAILED"},
    XRPL_SIGNED                |-> {"XRPL_FINALIZED", "FAILED"},
    XRPL_FINALIZED             |-> {"FDC_REQUESTED", "FAILED"},
    FDC_REQUESTED              |-> {"PROOF_READY", "FAILED"},
    PROOF_READY                |-> {"SIMULATION_PASSED", "FLARE_SUBMITTED", "FAILED"},
    SIMULATION_PASSED          |-> {"FLARE_SUBMITTED", "FAILED"},
    FLARE_SUBMITTED            |-> {"DELAYED", "SETTLED_SUCCESS", "SETTLED_FALLBACK",
                                    "RECOVERY_REQUIRED", "FAILED"},
    DELAYED                    |-> {"SIMULATION_PASSED", "FLARE_SUBMITTED",
                                    "SETTLED_SUCCESS", "SETTLED_FALLBACK",
                                    "RECOVERY_REQUIRED", "FAILED"},
    SETTLED_SUCCESS            |-> {},
    SETTLED_FALLBACK           |-> {},
    RECOVERY_REQUIRED          |-> {"FLARE_SUBMITTED", "DELAYED",
                                    "RECOVERY_PAYMENT_SIGNED", "FAILED"},
    RECOVERY_PAYMENT_SIGNED    |-> {"RECOVERY_PAYMENT_FINALIZED", "FAILED"},
    RECOVERY_PAYMENT_FINALIZED |-> {"RECOVERY_FDC_REQUESTED", "FAILED"},
    RECOVERY_FDC_REQUESTED     |-> {"RECOVERY_PROOF_READY", "FAILED"},
    RECOVERY_PROOF_READY       |-> {"RECOVERY_FLAG_SUBMITTED", "FAILED"},
    RECOVERY_FLAG_SUBMITTED    |-> {"RECOVERY_FLAG_SET", "FAILED"},
    RECOVERY_FLAG_SET          |-> {"RECOVERY_STUCK_SUBMITTED", "FAILED"},
    RECOVERY_STUCK_SUBMITTED   |-> {"RECOVERED", "FAILED"},
    RECOVERED                  |-> {},
    FAILED                     |-> {}]

\* transition() always accepts the status the row already has.
CanTransition(from, to) == from = to \/ to \in Transitions[from]

\* The statuses listRunnable never returns.
ClosedStatuses == {"SETTLED_SUCCESS", "SETTLED_FALLBACK", "RECOVERED", "FAILED"}

\* Mutated RunnableStatuses: nobody comes back for a broadcast mint.
RunnableUntilBroadcast ==
    {"XRPL_SIGNED", "XRPL_FINALIZED", "FDC_REQUESTED", "PROOF_READY",
     "SIMULATION_PASSED", "DELAYED"}

\* The statuses a worker accepts from listRunnable (RUNNABLE_STATUSES).
RunnableStatuses ==
    {"XRPL_SIGNED", "XRPL_FINALIZED", "FDC_REQUESTED", "PROOF_READY",
     "SIMULATION_PASSED", "FLARE_SUBMITTED", "DELAYED"}
=============================================================================
