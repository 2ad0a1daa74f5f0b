---------------------------- MODULE PublicTimeline ----------------------------
(***************************************************************************)
(* The timeline that toPublicJob (src/api/public-model.ts) derives from    *)
(* the present status of a row and shows to everyone, over the rows that   *)
(* ExecutorPipeline can produce.                                           *)
(***************************************************************************)
EXTENDS ExecutorPipeline

OrderedStatuses ==
    <<"CREATED", "XRPL_SIGNED", "XRPL_FINALIZED", "FDC_REQUESTED", "PROOF_READY",
      "SIMULATION_PASSED", "FLARE_SUBMITTED">>

Place(step) == CHOOSE n \in DOMAIN OrderedStatuses : OrderedStatuses[n] = step

\* The row's metadata shows a simulation that was required and passed.
HasSimulationEvidence(r) ==
    \/ r.status = "SIMULATION_PASSED"
    \/ ~r.allowFlareRevert /\ r.simulationAttempts > 0

\* Mutated Visible: the simulation is shown whether or not there was one.
VisibleAlways(r) == {OrderedStatuses[n] : n \in DOMAIN OrderedStatuses}

\* visibleOrderedStatuses
Visible(r) ==
    {OrderedStatuses[n] : n \in DOMAIN OrderedStatuses}
        \ (IF HasSimulationEvidence(r) THEN {} ELSE {"SIMULATION_PASSED"})

\* The steps shown as completed.  A status that is not an ordered one completes all
\* that are visible; a settlement is completed itself, the others want attention.
\* The recovery steps of a pipeline row are never completed.
Completed(r) ==
    IF r.status \in Visible(r)
    THEN {step \in Visible(r) : Place(step) < Place(r.status)}
    ELSE Visible(r) \cup
         ({r.status} \cap {"SETTLED_SUCCESS", "SETTLED_FALLBACK", "RECOVERED"})

---------------------------------------------------------------------------

\* What must have happened for a step to be completed.
Backed(step) ==
    CASE step = "XRPL_SIGNED"       -> job.xrplTxHash \in DOMAIN payments
      [] step = "XRPL_FINALIZED"    -> payments[job.xrplTxHash].state = "validated"
      [] step = "FDC_REQUESTED"     -> job.fdcTxHash \in DOMAIN fdcTxs
      [] step = "PROOF_READY"       -> ProofAvailable(job.xrplTxHash, job.votingRound)
      [] step = "SIMULATION_PASSED" -> job.simulationAttempts > 0
      [] step = "FLARE_SUBMITTED"   -> job.flareTxHash \in DOMAIN mintTxs
      [] step \in Consumed          -> \E i \in DOMAIN mintTxs : mintTxs[i].state = step
      [] OTHER                      -> TRUE

\* The status page says nothing that did not happen: every step it shows as completed
\* is backed by the row's columns and the chains, whichever process wrote them in
\* which order.  FAILED is left out: its timeline completes every step.
TimelineIsBacked ==
    job.status # "FAILED" => \A step \in Completed(job) : Backed(step)
===============================================================================
