---------------------- MODULE ExecutorSettlement_proofs ----------------------
(***************************************************************************)
(* More theorems about ExecutorPipeline for every set of processes and     *)
(* every bound, on what a row says once its mint is broadcast: retries are *)
(* bounded, every broadcast was simulated, a recovery has a cause, a       *)
(* settlement is the chain's, and so is every step of the public timeline. *)
(***************************************************************************)
EXTENDS ExecutorPipeline_proofs, PublicTimeline

---------------------------------------------------------------------------
(* What one step may do to the row.                                        *)

\* The chain shows the outcome that row r claims.
ShownOnChain(r) ==
    /\ r.status \in {"SETTLED_SUCCESS", "SETTLED_FALLBACK"} =>
           \E i \in DOMAIN mintTxs : mintTxs[i].state = r.status
    /\ r.status = "RECOVERY_REQUIRED" =>
           \E i \in DOMAIN mintTxs : mintTxs[i].state \in {"REVERTED", "UNMATCHED"}

\* transition() accepts the row `patched`.
Writes(patched) ==
    /\ CanTransition(job.status, patched.status)
    /\ job' = patched
    /\ failures' = IF patched.status = job.status THEN failures ELSE 0
    /\ streak' = streak

\* A row that an await may write: of the same kind, backed by the chain, for the
\* same payment unless this is the signing itself.
Legitimate(patched) ==
    /\ ShownOnChain(patched)
    /\ patched.allowFlareRevert = job.allowFlareRevert
    /\ \/ patched.status # "XRPL_SIGNED" /\ patched.xrplTxHash = job.xrplTxHash
       \/ \E p \in Procs : Sign(p)

RowStep ==
    \/ UNCHANGED row
    \/ (\E p \in Procs : Caught(p)) /\ UNCHANGED mintTxs
    \/ (\E patched \in Job : Writes(patched) /\ Legitimate(patched)) /\ UNCHANGED mintTxs

\* A call of transition() with a legitimate row is a row step.
LEMMA TransitionIsRowStep ==
    ASSUME NEW p \in Procs, NEW patched \in Job, NEW next, Legitimate(patched),
           Transition(p, patched, next) \/ Caught(p), UNCHANGED mintTxs
    PROVE  RowStep
  <1>1. CASE Caught(p)
    BY <1>1 DEF RowStep
  <1>2. CASE ~Caught(p)
    BY <1>2 DEF Transition, Writes, RowStep
  <1> QED BY <1>1, <1>2

\* A row that changes neither kind nor payment, to a status that claims nothing.
LEMMA OpenRowIsLegitimate ==
    ASSUME NEW patched,
           patched.status \notin {"SETTLED_SUCCESS", "SETTLED_FALLBACK",
                                  "RECOVERY_REQUIRED", "XRPL_SIGNED"},
           patched.allowFlareRevert = job.allowFlareRevert,
           patched.xrplTxHash = job.xrplTxHash
    PROVE  Legitimate(patched)
  BY DEF Legitimate, ShownOnChain

\* The row of a mined mint claims what the chain shows.
LEMMA ClassifyIsRowStep ==
    ASSUME TypeInv, NEW p \in Procs, NEW i \in DOMAIN mintTxs,
           mintTxs[i].state # "pending",
           ClassifyReceipt(p, mintTxs[i].state) \/ Caught(p), UNCHANGED mintTxs
    PROVE  RowStep
  <1> DEFINE o == mintTxs[i].state
             allowedAt == IF o = "DELAYED" THEN delays ELSE job.executionAllowedAt
             patched == [job EXCEPT !.status = Settlement(o),
                                    !.executionAllowedAt = allowedAt]
  <1>1. Transition(p, patched, "top") \/ Caught(p)
    BY DEF ClassifyReceipt
  <1>2. job \in Job /\ allowedAt \in Nat
    BY DEF TypeInv, TypeOK, Job
  <1>3. o \in MintStates \ {"pending"}
    <2>1. DOMAIN mintTxs = 1 .. Len(mintTxs)
      BY DEF TypeInv, TypeOK
    <2>2. mintTxs[i] \in [pay : Nat, state : MintStates]
      BY <2>1, ElementOfSeq DEF TypeInv, TypeOK
    <2> QED BY <2>2
  <1> HIDE DEF allowedAt
  <1>4. /\ patched \in Job /\ patched.status = Settlement(o)
        /\ patched.allowFlareRevert = job.allowFlareRevert
        /\ patched.xrplTxHash = job.xrplTxHash
    BY <1>2, <1>3, SettlementType DEF Job
  <1>5a. Settlement(o) # "XRPL_SIGNED"
    BY <1>3 DEF Settlement, MintStates, Consumed
  <1>5. Settlement(o) \in {"SETTLED_SUCCESS", "SETTLED_FALLBACK"} => Settlement(o) = o
    BY <1>3 DEF Settlement, MintStates, Consumed
  <1>6. Settlement(o) = "RECOVERY_REQUIRED" => o \in {"REVERTED", "UNMATCHED"}
    BY <1>3 DEF Settlement, MintStates, Consumed
  <1>7. Legitimate(patched)
    BY <1>4, <1>5a, <1>5, <1>6 DEF Legitimate, ShownOnChain
  <1> HIDE DEF patched
  <1> QED BY <1>1, <1>4, <1>7, TransitionIsRowStep

\* Every step of the system is a row step.
LEMMA NextRowStep == TypeInv /\ [Next]_vars => RowStep
  <1> SUFFICES ASSUME TypeInv, [Next]_vars PROVE RowStep
    OBVIOUS
  <1> USE DEF row, process, world
  <1>0. TypeOK /\ job \in Job
    BY DEF TypeInv, TypeOK
  <1>1. ASSUME NEW p \in Procs,
               \/ StartExecutor(p) \/ StartWorker(p) \/ Crash(p) \/ Read(p)
               \/ SubmitPayment(p) \/ RequestAttestation(p) \/ Broadcast(p)
        PROVE  RowStep
    BY <1>1 DEF StartExecutor, StartWorker, Crash, Read, SubmitPayment,
                RequestAttestation, Broadcast, RowStep
  <1>2. ASSUME NEW p \in Procs, Throw(p)
        PROVE  RowStep
    BY <1>2 DEF Throw, RowStep
  <1>3. ASSUME NEW p \in Procs, Sign(p)
        PROVE  RowStep
    <2> DEFINE patched == [job EXCEPT !.status = "XRPL_SIGNED",
                                      !.xrplTxHash = Len(payments) + 1, !.txBlob = TRUE]
    <2>1. Transition(p, patched, "top") /\ UNCHANGED mintTxs
      BY <1>3 DEF Sign
    <2>2. Len(payments) + 1 \in Nat /\ "XRPL_SIGNED" \in MintStatuses
      BY <1>0 DEF TypeOK, MintStatuses
    <2>3. /\ patched \in Job /\ patched.status = "XRPL_SIGNED"
          /\ patched.allowFlareRevert = job.allowFlareRevert
      BY <1>0, <2>2 DEF Job
    <2>4. Legitimate(patched)
      BY <1>3, <2>3 DEF Legitimate, ShownOnChain
    <2> HIDE DEF patched
    <2> QED BY <2>1, <2>3, <2>4, TransitionIsRowStep
  <1>4. ASSUME NEW p \in Procs, AwaitFinality(p)
        PROVE  RowStep
    <2> DEFINE patched == [job EXCEPT !.status = "XRPL_FINALIZED"]
    <2>1. (Transition(p, patched, "top") \/ Caught(p)) /\ UNCHANGED mintTxs
      BY <1>4 DEF AwaitFinality
    <2>2. /\ patched \in Job /\ patched.status = "XRPL_FINALIZED"
          /\ patched.allowFlareRevert = job.allowFlareRevert
          /\ patched.xrplTxHash = job.xrplTxHash
      BY <1>0 DEF Job, MintStatuses
    <2> HIDE DEF patched
    <2>3. Legitimate(patched)
      BY <2>2, OpenRowIsLegitimate
    <2> QED BY <2>1, <2>2, <2>3, TransitionIsRowStep
  <1>5. ASSUME NEW p \in Procs, CheckpointFdcTx(p) \/ OwnRound(p)
        PROVE  RowStep
    <2> DEFINE checkpoint == [job EXCEPT !.status = "FDC_REQUESTED",
                                         !.fdcRequest = seen[p].xrplTxHash,
                                         !.fdcTxHash = sent[p]]
               resolved == [job EXCEPT !.status = "FDC_REQUESTED",
                                       !.fdcRequest = seen[p].xrplTxHash,
                                       !.votingRound = sent[p]]
    <2>1. /\ \/ Transition(p, checkpoint, "ownRound")
             \/ Transition(p, resolved, "top")
             \/ Caught(p)
          /\ UNCHANGED mintTxs
      BY <1>5 DEF CheckpointFdcTx, OwnRound
    <2>2. seen[p].xrplTxHash \in Nat /\ sent[p] \in Nat /\ "FDC_REQUESTED" \in MintStatuses
      BY <1>0 DEF TypeOK, Job, MintStatuses
    <2>3. /\ checkpoint \in Job /\ checkpoint.status = "FDC_REQUESTED"
          /\ checkpoint.allowFlareRevert = job.allowFlareRevert
          /\ checkpoint.xrplTxHash = job.xrplTxHash
      BY <1>0, <2>2 DEF Job
    <2>4. /\ resolved \in Job /\ resolved.status = "FDC_REQUESTED"
          /\ resolved.allowFlareRevert = job.allowFlareRevert
          /\ resolved.xrplTxHash = job.xrplTxHash
      BY <1>0, <2>2 DEF Job
    <2> HIDE DEF checkpoint, resolved
    <2>5. Legitimate(checkpoint) /\ Legitimate(resolved)
      BY <2>3, <2>4, OpenRowIsLegitimate
    <2> QED BY <2>1, <2>3, <2>4, <2>5, TransitionIsRowStep
  <1>6. ASSUME NEW p \in Procs, ResolveRound(p)
        PROVE  RowStep
    <2> DEFINE patched == [job EXCEPT !.status = "FDC_REQUESTED",
                                      !.votingRound = seen[p].fdcTxHash]
    <2>1. /\ \/ /\ CanTransition(job.status, "FDC_REQUESTED")
                /\ job' = patched
                /\ failures' = IF job.status = "FDC_REQUESTED" THEN failures ELSE 0
                /\ streak' = streak
             \/ Caught(p)
          /\ UNCHANGED mintTxs
      BY <1>6 DEF ResolveRound
    <2>2. seen[p].fdcTxHash \in Nat /\ "FDC_REQUESTED" \in MintStatuses
      BY <1>0 DEF TypeOK, Job, MintStatuses
    <2>3. /\ patched \in Job /\ patched.status = "FDC_REQUESTED"
          /\ patched.allowFlareRevert = job.allowFlareRevert
          /\ patched.xrplTxHash = job.xrplTxHash
      BY <1>0, <2>2 DEF Job
    <2> HIDE DEF patched
    <2>4. Legitimate(patched)
      BY <2>3, OpenRowIsLegitimate
    <2> QED BY <2>1, <2>3, <2>4 DEF RowStep, Writes
  <1>7. ASSUME NEW p \in Procs, AwaitProof(p)
        PROVE  RowStep
    <2> DEFINE patched == [job EXCEPT !.status = "PROOF_READY"]
    <2>1. Transition(p, patched, "top") /\ UNCHANGED mintTxs
      BY <1>7 DEF AwaitProof
    <2>2. /\ patched \in Job /\ patched.status = "PROOF_READY"
          /\ patched.allowFlareRevert = job.allowFlareRevert
          /\ patched.xrplTxHash = job.xrplTxHash
      BY <1>0 DEF Job, MintStatuses
    <2> HIDE DEF patched
    <2>3. Legitimate(patched)
      BY <2>2, OpenRowIsLegitimate
    <2> QED BY <2>1, <2>2, <2>3, TransitionIsRowStep
  <1>8. ASSUME NEW p \in Procs, Simulate(p)
        PROVE  RowStep
    <2> DEFINE n == IF job.simulationAttempts < MaxMints
                    THEN job.simulationAttempts + 1 ELSE job.simulationAttempts
               patched == [job EXCEPT !.status = "SIMULATION_PASSED",
                                      !.simulationAttempts = n]
    <2>1. Transition(p, patched, "broadcast") /\ UNCHANGED mintTxs
      BY <1>8 DEF Simulate
    <2>2. n \in Nat
      BY <1>0 DEF Job
    <2> HIDE DEF n
    <2>3. /\ patched \in Job /\ patched.status = "SIMULATION_PASSED"
          /\ patched.allowFlareRevert = job.allowFlareRevert
          /\ patched.xrplTxHash = job.xrplTxHash
      BY <1>0, <2>2 DEF Job, MintStatuses
    <2> HIDE DEF patched
    <2>4. Legitimate(patched)
      BY <2>3, OpenRowIsLegitimate
    <2> QED BY <2>1, <2>3, <2>4, TransitionIsRowStep
  <1>9. ASSUME NEW p \in Procs, BypassSimulation(p)
        PROVE  RowStep
    <2> DEFINE patched == [job EXCEPT !.status = seen[p].status]
    <2>1. Transition(p, patched, "broadcast") /\ UNCHANGED mintTxs
      BY <1>9 DEF BypassSimulation
    <2>2. seen[p].status \in {"PROOF_READY", "SIMULATION_PASSED", "DELAYED"}
      BY <1>9 DEF BypassSimulation, TypeInv, MintFromReady
    <2>3. /\ patched \in Job
          /\ patched.status \in {"PROOF_READY", "SIMULATION_PASSED", "DELAYED"}
          /\ patched.allowFlareRevert = job.allowFlareRevert
          /\ patched.xrplTxHash = job.xrplTxHash
      BY <1>0, <2>2 DEF Job, MintStatuses
    <2> HIDE DEF patched
    <2>4. Legitimate(patched)
      BY <2>3, OpenRowIsLegitimate
    <2> QED BY <2>1, <2>3, <2>4, TransitionIsRowStep
  <1>10. ASSUME NEW p \in Procs, CheckpointMintTx(p)
         PROVE  RowStep
    <2> DEFINE patched == [job EXCEPT !.status = "FLARE_SUBMITTED", !.flareTxHash = sent[p]]
    <2>1. Transition(p, patched, "receipt") /\ UNCHANGED mintTxs
      BY <1>10 DEF CheckpointMintTx
    <2>2. sent[p] \in Nat
      BY <1>0 DEF TypeOK
    <2>3. /\ patched \in Job /\ patched.status = "FLARE_SUBMITTED"
          /\ patched.allowFlareRevert = job.allowFlareRevert
          /\ patched.xrplTxHash = job.xrplTxHash
      BY <1>0, <2>2 DEF Job, MintStatuses
    <2> HIDE DEF patched
    <2>4. Legitimate(patched)
      BY <2>3, OpenRowIsLegitimate
    <2> QED BY <2>1, <2>3, <2>4, TransitionIsRowStep
  <1>11. ASSUME NEW p \in Procs, AwaitReceipt(p) \/ Reconcile(p)
         PROVE  RowStep
    <2>1. sent[p] \in DOMAIN mintTxs
      BY <1>11 DEF AwaitReceipt, Reconcile, TypeInv, SentIsBroadcast
    <2> DEFINE i == sent[p]
    <2>2. /\ mintTxs[i].state # "pending" /\ UNCHANGED mintTxs
          /\ ClassifyReceipt(p, mintTxs[i].state) \/ Caught(p)
      BY <1>11 DEF AwaitReceipt, Reconcile
    <2> HIDE DEF i
    <2>3. i \in DOMAIN mintTxs
      BY <2>1 DEF i
    <2> QED BY <2>2, <2>3, ClassifyIsRowStep
  <1>12. ASSUME Environment \/ UNCHANGED vars
         PROVE  RowStep
    BY <1>12 DEF Environment, SettlePayment, MineFdcRequest, MineMint, PassDelay, vars, RowStep
  <1> QED BY <1>1, <1>2, <1>3, <1>4, <1>5, <1>6, <1>7, <1>8, <1>9, <1>10, <1>11, <1>12
          DEF Next, Step

---------------------------------------------------------------------------
(* Bounded retries.                                                        *)

Counted == {"SETTLED_SUCCESS", "SETTLED_FALLBACK", "FAILED"}

\* The errors since the last change of status are all in the streak of this status.
StreakCounts ==
    job.status \notin Counted =>
        \/ failures = 0
        \/ /\ streak.status = job.status
           /\ failures <= streak.count
           /\ streak.count < MaxErrors

RetryInv == TypeInv /\ StreakCounts

\* A settled or failed row is never reopened.
LEMMA CountedIsFinal ==
    ASSUME NEW s \in Counted, NEW t, CanTransition(s, t)
    PROVE  t = s
  BY DEF Counted, CanTransition, Transitions

LEMMA NextRetryInv == RetryInv /\ [Next]_vars => RetryInv'
  <1> SUFFICES ASSUME RetryInv, [Next]_vars PROVE StreakCounts'
    BY NextTypeInv DEF RetryInv
  <1>0. TypeOK /\ RowStep /\ job \in Job /\ streak.count \in Nat /\ failures \in Nat
    BY NextRowStep DEF RetryInv, TypeInv, TypeOK
  <1>1. CASE UNCHANGED row
    BY <1>1 DEF row, RetryInv, StreakCounts
  <1>2. ASSUME NEW p \in Procs, Caught(p)
        PROVE  StreakCounts'
    <2>1. CASE UNCHANGED row
      BY <2>1 DEF row, RetryInv, StreakCounts
    <2>2. CASE ~UNCHANGED row
      <3>1. /\ job.status \notin Counted
            /\ streak' = NextErrorStreak
            /\ failures' = failures + 1
            /\ job' = [job EXCEPT !.status =
                          IF NextErrorStreak.count >= MaxErrors THEN "FAILED" ELSE job.status]
        BY <1>2, <2>2 DEF Caught, Counted
      <3>2. CASE NextErrorStreak.count >= MaxErrors
        <4>1. job'.status = "FAILED"
          BY <1>0, <3>1, <3>2 DEF Job
        <4> QED BY <4>1 DEF StreakCounts, Counted
      <3>3. CASE ~(NextErrorStreak.count >= MaxErrors)
        <4>1. job'.status = job.status
          BY <1>0, <3>1, <3>3 DEF Job
        <4>2. NextErrorStreak.status = job.status /\ NextErrorStreak.count \in Nat
          BY <1>0 DEF NextErrorStreak
        <4>3. failures + 1 <= NextErrorStreak.count
          BY <1>0, <3>1 DEF RetryInv, StreakCounts, NextErrorStreak
        <4>4. NextErrorStreak.count < MaxErrors
          BY <3>3, <4>2, MaxErrorsAssumption
        <4> QED BY <3>1, <4>1, <4>2, <4>3, <4>4 DEF StreakCounts
      <3> QED BY <3>2, <3>3
    <2> QED BY <2>1, <2>2
  <1>3. ASSUME NEW patched \in Job, Writes(patched)
        PROVE  StreakCounts'
    <2>1. CASE patched.status = job.status
      BY <1>3, <2>1 DEF Writes, RetryInv, StreakCounts
    <2>2. CASE patched.status # job.status
      BY <1>3, <2>2 DEF Writes, StreakCounts
    <2> QED BY <2>1, <2>2
  <1> QED BY <1>0, <1>1, <1>2, <1>3 DEF RowStep

\* A job whose status does not change is given up after MaxErrors recorded errors:
\* whichever processes retry it, and whatever the other ones read meanwhile.
THEOREM RetriesBounded == Spec => []RetriesAreBounded
  <1>1. Init => RetryInv
    BY InitTypeInv DEF Init, RetryInv, StreakCounts
  <1>2. RetryInv /\ [Next]_vars => RetryInv'
    BY NextRetryInv
  <1>3. RetryInv => RetriesAreBounded
    <2> SUFFICES ASSUME RetryInv PROVE RetriesAreBounded
      OBVIOUS
    <2>1. streak.count \in Nat /\ failures \in Nat
      BY DEF RetryInv, TypeInv, TypeOK
    <2> QED BY <2>1, MaxErrorsAssumption DEF RetryInv, StreakCounts, RetriesAreBounded, Counted
  <1> QED BY <1>1, <1>2, <1>3, PTL DEF Spec

---------------------------------------------------------------------------
(* What the row claims of the chain.                                       *)

\* Mint transactions are broadcast and mined; no other step touches them.
LEMMA MintStep ==
    ASSUME [Next]_vars
    PROVE  \/ UNCHANGED mintTxs
           \/ \E p \in Procs : Broadcast(p)
           \/ \E j \in DOMAIN mintTxs : MineMint(j)
  BY DEF row, process, world, Next, Step, Environment, StartExecutor, StartWorker, Crash,
         Throw, Read, Sign, SubmitPayment, AwaitFinality, RequestAttestation, CheckpointFdcTx,
         OwnRound, ResolveRound, AwaitProof, Simulate, BypassSimulation, CheckpointMintTx,
         AwaitReceipt, Reconcile, SettlePayment, MineFdcRequest, PassDelay, vars

\* A mint transaction that was mined stays as it was mined.
LEMMA MinedStays ==
    ASSUME TypeInv, [Next]_vars
    PROVE  \A i \in DOMAIN mintTxs :
               /\ i \in DOMAIN mintTxs'
               /\ mintTxs[i].state # "pending" => mintTxs'[i] = mintTxs[i]
               /\ mintTxs'[i].pay = mintTxs[i].pay
  <1> USE DEF row, process, world
  <1>1. mintTxs \in Seq([pay : Nat, state : MintStates])
    BY DEF TypeInv, TypeOK
  <1>2. CASE UNCHANGED mintTxs
    BY <1>2
  <1>3. ASSUME NEW p \in Procs, Broadcast(p)
        PROVE  \A i \in DOMAIN mintTxs :
                   i \in DOMAIN mintTxs' /\ mintTxs'[i] = mintTxs[i]
    <2> DEFINE e == [pay |-> seen[p].xrplTxHash, state |-> "pending"]
    <2>1. mintTxs' = Append(mintTxs, e)
      BY <1>3 DEF Broadcast
    <2>2. e \in [pay : Nat, state : MintStates]
      BY DEF TypeInv, TypeOK, Job, MintStates
    <2> HIDE DEF e
    <2> QED BY <1>1, <2>1, <2>2, AppendProperties
  <1>4. ASSUME NEW j \in DOMAIN mintTxs, MineMint(j)
        PROVE  \A i \in DOMAIN mintTxs :
                   /\ i \in DOMAIN mintTxs'
                   /\ mintTxs[i].state # "pending" => mintTxs'[i] = mintTxs[i]
                   /\ mintTxs'[i].pay = mintTxs[i].pay
    <2>1. PICK o \in Outcomes(mintTxs[j].pay) : mintTxs' = [mintTxs EXCEPT ![j].state = o]
      BY <1>4 DEF MineMint
    <2>2. mintTxs[j].state = "pending"
      BY <1>4 DEF MineMint
    <2>3. mintTxs[j] \in [pay : Nat, state : MintStates]
      <3>1. DOMAIN mintTxs = 1 .. Len(mintTxs)
        BY <1>1
      <3> QED BY <1>1, <3>1, ElementOfSeq
    <2> QED BY <2>1, <2>2, <2>3
  <1> QED BY <1>2, <1>3, <1>4, MintStep

\* What a row claims, the chain goes on showing.
LEMMA ClaimStays ==
    ASSUME TypeInv, [Next]_vars, ShownOnChain(job)
    PROVE  ShownOnChain(job)'
  <1>0. TypeOK /\ RowStep /\ job \in Job
    BY NextRowStep DEF TypeInv, TypeOK
  <1>1. CASE UNCHANGED row
    <2>1. job' = job
      BY <1>1 DEF row
    <2>2. ASSUME job.status \in {"SETTLED_SUCCESS", "SETTLED_FALLBACK"}
          PROVE  \E i \in DOMAIN mintTxs' : mintTxs'[i].state = job.status
      <3>1. PICK i \in DOMAIN mintTxs : mintTxs[i].state = job.status
        BY <2>2 DEF ShownOnChain
      <3> QED BY <2>2, <3>1, MinedStays
    <2>3. ASSUME job.status = "RECOVERY_REQUIRED"
          PROVE  \E i \in DOMAIN mintTxs' : mintTxs'[i].state \in {"REVERTED", "UNMATCHED"}
      <3>1. PICK i \in DOMAIN mintTxs : mintTxs[i].state \in {"REVERTED", "UNMATCHED"}
        BY <2>3 DEF ShownOnChain
      <3> QED BY <3>1, MinedStays
    <2> QED BY <2>1, <2>2, <2>3 DEF ShownOnChain
  <1>2. ASSUME NEW p \in Procs, Caught(p), UNCHANGED mintTxs
        PROVE  ShownOnChain(job)'
    BY <1>0, <1>2, CaughtRow DEF ShownOnChain
  <1>3. ASSUME NEW patched \in Job, Writes(patched), Legitimate(patched), UNCHANGED mintTxs
        PROVE  ShownOnChain(job)'
    BY <1>3 DEF Writes, Legitimate, ShownOnChain
  <1> QED BY <1>0, <1>1, <1>2, <1>3 DEF RowStep

ClaimInv == TypeInv /\ ShownOnChain(job)

LEMMA InitClaimInv == Init => ClaimInv
  <1> SUFFICES ASSUME Init PROVE ShownOnChain(job)
    BY InitTypeInv DEF ClaimInv
  <1>1. PICK a \in AllowFlareRevert :
           \/ job = NewJob(a)
           \/ job = [NewJob(a) EXCEPT !.status = "XRPL_SIGNED", !.xrplTxHash = 1]
    BY DEF Init
  <1>2. job.status \in {"CREATED", "XRPL_SIGNED"}
    <2>1. NewJob(a).status = "CREATED"
      BY DEF NewJob
    <2>2. CASE job = NewJob(a)
      BY <2>1, <2>2
    <2>3. CASE job = [NewJob(a) EXCEPT !.status = "XRPL_SIGNED", !.xrplTxHash = 1]
      BY <2>3 DEF NewJob
    <2> QED BY <1>1, <2>2, <2>3
  <1> QED BY <1>2 DEF ShownOnChain

LEMMA NextClaimInv == ClaimInv /\ [Next]_vars => ClaimInv'
  BY NextTypeInv, ClaimStays DEF ClaimInv

\* No row asks for recovery unless a mint of it reverted or settled nothing, for
\* any interleaving of processes that classify receipts or bypass the simulation.
THEOREM RecoveryCaused == Spec => []RecoveryHasACause
  <1>1. ClaimInv => RecoveryHasACause
    BY DEF ClaimInv, ShownOnChain, RecoveryHasACause
  <1> QED BY <1>1, InitClaimInv, NextClaimInv, PTL DEF Spec

---------------------------------------------------------------------------
(* What a suspended process has read.                                      *)

\* Process q is past the reading of the row and past the signing.
Past(q) == pc[q] \notin {"idle", "top", "sign"}

\* A process past the reading keeps what it read, or has just read the row.
LEMMA NextSeen ==
    ASSUME TypeInv, [Next]_vars, NEW q \in Procs, Past(q)'
    PROVE  \/ /\ Past(q)
              /\ seen'[q].xrplTxHash = seen[q].xrplTxHash
              /\ seen'[q].allowFlareRevert = seen[q].allowFlareRevert
           \/ /\ seen'[q] = job
              /\ job.status \in DOMAIN Branch \ {"CREATED"}
              /\ UNCHANGED job
  <1> USE DEF row, process, world
  <1> DEFINE Kept == /\ Past(q)
                     /\ seen'[q].xrplTxHash = seen[q].xrplTxHash
                     /\ seen'[q].allowFlareRevert = seen[q].allowFlareRevert
  <1>0. TypeOK
    BY DEF TypeInv
  <1>1. CASE UNCHANGED process
    BY <1>1 DEF Past
  <1>2. ASSUME NEW p \in Procs, p # q, pc'[q] = pc[q], seen'[q] = seen[q]
        PROVE  Kept
    BY <1>2 DEF Past
  <1>3. ASSUME NEW p \in Procs, Caught(p) \/ Crash(p) \/ StartExecutor(p) \/ StartWorker(p)
        PROVE  Kept
    <2>1. /\ pc' = [pc EXCEPT ![p] = "idle"] \/ pc' = [pc EXCEPT ![p] = "top"]
          /\ seen' = seen \/ seen' = [seen EXCEPT ![p] = NoRow]
      BY <1>3 DEF Caught, Crash, Leave, StartExecutor, StartWorker, Goto
    <2>2. p # q /\ pc'[q] = pc[q] /\ seen'[q] = seen[q]
      BY <1>0, <2>1 DEF TypeOK, Past
    <2> QED BY <1>2, <2>2
  <1>4. ASSUME NEW p \in Procs, Read(p)
        PROVE  \/ Kept
               \/ /\ seen'[q] = job
                  /\ job.status \in DOMAIN Branch \ {"CREATED"}
                  /\ UNCHANGED job
    <2>1. CASE Leave(p)
      <3>1. p # q /\ pc'[q] = pc[q] /\ seen'[q] = seen[q]
        BY <1>0, <2>1 DEF TypeOK, Past, Leave
      <3> QED BY <1>2, <3>1
    <2>2. CASE ~Leave(p)
      <3> DEFINE next == IF job.status = "FDC_REQUESTED" /\ job.votingRound = 0
                         THEN "resolve" ELSE Branch[job.status]
      <3>1. /\ job.status \in DOMAIN Branch
            /\ seen' = [seen EXCEPT ![p] = job]
            /\ pc' = [pc EXCEPT ![p] = next]
            /\ UNCHANGED job
        BY <1>4, <2>2 DEF Read
      <3>2. job.status = "CREATED" => next = "sign"
        BY DEF Branch
      <3> HIDE DEF next
      <3>3. CASE p = q
        BY <1>0, <3>1, <3>2, <3>3 DEF TypeOK, Past
      <3>4. CASE p # q
        BY <1>0, <1>2, <3>1, <3>4 DEF TypeOK
      <3> QED BY <3>3, <3>4
    <2> QED BY <2>1, <2>2
  <1>5. ASSUME NEW p \in Procs, Sign(p), ~Caught(p)
        PROVE  Kept
    <2>1. pc' = [pc EXCEPT ![p] = "top"] /\ UNCHANGED seen
      BY <1>5 DEF Sign, Transition, Goto
    <2>2. p # q /\ pc'[q] = pc[q] /\ seen'[q] = seen[q]
      BY <1>0, <2>1 DEF TypeOK, Past
    <2> QED BY <1>2, <2>2
  <1>6. ASSUME NEW p \in Procs, ~Caught(p),
               \/ SubmitPayment(p) \/ AwaitFinality(p) \/ RequestAttestation(p)
               \/ CheckpointFdcTx(p) \/ OwnRound(p) \/ AwaitProof(p) \/ Simulate(p)
               \/ BypassSimulation(p) \/ Broadcast(p) \/ CheckpointMintTx(p)
               \/ AwaitReceipt(p) \/ Reconcile(p)
        PROVE  Kept
    <2>1. Past(p) /\ UNCHANGED seen /\ \E l \in Labels : pc' = [pc EXCEPT ![p] = l]
      BY <1>6 DEF SubmitPayment, AwaitFinality, RequestAttestation, CheckpointFdcTx,
                  OwnRound, AwaitProof, Simulate, BypassSimulation, Broadcast,
                  CheckpointMintTx, AwaitReceipt, Reconcile, ClassifyReceipt, Transition,
                  Goto, Labels, Past
    <2> QED BY <1>0, <2>1 DEF TypeOK, Past
  <1>7. ASSUME NEW p \in Procs, ~Caught(p), ResolveRound(p)
        PROVE  Kept
    <2>1. /\ Past(p)
          /\ seen' = [seen EXCEPT ![p].votingRound = seen[p].fdcTxHash]
          /\ pc' = [pc EXCEPT ![p] = "awaitProof"]
      BY <1>7 DEF ResolveRound, Past
    <2>2. CASE p = q
      <3>1. seen'[q] = [seen[q] EXCEPT !.votingRound = seen[p].fdcTxHash] /\ seen[q] \in Job
        BY <1>0, <2>1, <2>2 DEF TypeOK
      <3> QED BY <2>1, <2>2, <3>1 DEF Job
    <2>3. CASE p # q
      BY <1>0, <1>2, <2>1, <2>3 DEF TypeOK
    <2> QED BY <2>2, <2>3
  <1>8. CASE Environment \/ UNCHANGED vars
    <2>1. UNCHANGED process
      BY <1>8 DEF Environment, SettlePayment, MineFdcRequest, MineMint, PassDelay, vars
    <2> QED BY <1>1, <2>1
  <1>9. ASSUME NEW p \in Procs, Throw(p)
        PROVE  Kept
    BY <1>3, <1>9 DEF Throw
  <1> QED BY <1>3, <1>4, <1>5, <1>6, <1>7, <1>8, <1>9 DEF Next, Step

---------------------------------------------------------------------------
(* A settlement is of the row's own payment, if one process may sign.      *)

\* A signed row names the one payment.
RowNamesPayment == job.status \notin {"CREATED", "FAILED"} => job.xrplTxHash = 1

\* So does what a process has read, and so does every mint.
ReadersNamePayment == \A p \in Procs : Past(p) => seen[p].xrplTxHash = 1

MintsNamePayment == \A i \in DOMAIN mintTxs : mintTxs[i].pay = 1

SettleInv ==
    /\ PayInv /\ ShownOnChain(job)
    /\ RowNamesPayment /\ ReadersNamePayment /\ MintsNamePayment

LEMMA InitSettleInv == Init => SettleInv
  <1> SUFFICES ASSUME Init PROVE SettleInv
    OBVIOUS
  <1>1. PICK a \in AllowFlareRevert :
           \/ job = NewJob(a)
           \/ job = [NewJob(a) EXCEPT !.status = "XRPL_SIGNED", !.xrplTxHash = 1]
    BY DEF Init
  <1>2. RowNamesPayment
    <2>1. NewJob(a).status = "CREATED"
      BY DEF NewJob
    <2>2. CASE job = NewJob(a)
      BY <2>1, <2>2 DEF RowNamesPayment
    <2>3. CASE job = [NewJob(a) EXCEPT !.status = "XRPL_SIGNED", !.xrplTxHash = 1]
      BY <2>3 DEF NewJob, RowNamesPayment
    <2> QED BY <1>1, <2>2, <2>3
  <1>3. ReadersNamePayment /\ MintsNamePayment
    BY DEF Init, ReadersNamePayment, MintsNamePayment, Past
  <1> QED BY <1>2, <1>3, InitPayInv, InitClaimInv DEF SettleInv, ClaimInv

LEMMA NextSettleInv ==
    ASSUME SingleSigner
    PROVE  SettleInv /\ [Next]_vars => SettleInv'
  <1> SUFFICES ASSUME SettleInv, [Next]_vars PROVE SettleInv'
    OBVIOUS
  <1>0. TypeInv /\ TypeOK /\ RowStep /\ job \in Job
    BY NextRowStep DEF SettleInv, PayInv, TypeInv, TypeOK
  <1>1. PayInv' /\ ShownOnChain(job)'
    BY <1>0, NextPayInv, ClaimStays DEF SettleInv
  <1>2. RowNamesPayment'
    <2>1. CASE UNCHANGED row
      BY <2>1 DEF row, SettleInv, RowNamesPayment
    <2>2. ASSUME NEW p \in Procs, Caught(p)
          PROVE  RowNamesPayment'
      BY <1>0, <2>2, CaughtRow DEF SettleInv, RowNamesPayment
    <2>3. ASSUME NEW patched \in Job, Writes(patched),
                 patched.status # "XRPL_SIGNED", patched.xrplTxHash = job.xrplTxHash
          PROVE  RowNamesPayment'
      <3>1. CanTransition(job.status, patched.status) /\ job' = patched
        BY <2>3 DEF Writes
      <3>2. job.status = "FAILED" => patched.status = "FAILED"
        BY <3>1 DEF CanTransition, Transitions
      <3>3. job.status = "CREATED" => patched.status \in {"CREATED", "FAILED"}
        BY <2>3, <3>1 DEF CanTransition, Transitions
      <3> QED BY <2>3, <3>1, <3>2, <3>3 DEF SettleInv, RowNamesPayment
    <2>4. ASSUME NEW p \in Procs, Sign(p)
          PROVE  RowNamesPayment'
      <3> DEFINE patched == [job EXCEPT !.status = "XRPL_SIGNED",
                                        !.xrplTxHash = Len(payments) + 1, !.txBlob = TRUE]
      <3>1. job.status = "CREATED" /\ payments = <<>>
        BY <2>4 DEF Sign, SettleInv, PayInv, SigningIsCurrent, SignedIsRecorded
      <3>2. Transition(p, patched, "top")
        BY <2>4 DEF Sign
      <3>3. CASE Caught(p)
        BY <2>2, <3>3
      <3>4. CASE job' = patched
        <4>1. Len(payments) + 1 = 1
          BY <3>1
        <4> QED BY <1>0, <3>4, <4>1 DEF Job, RowNamesPayment
      <3> QED BY <3>2, <3>3, <3>4 DEF Transition
    <2> QED BY <1>0, <2>1, <2>2, <2>3, <2>4 DEF RowStep, Legitimate
  <1>3. ReadersNamePayment'
    <2> SUFFICES ASSUME NEW q \in Procs, Past(q)' PROVE seen'[q].xrplTxHash = 1
      BY DEF ReadersNamePayment
    <2>1. CASE Past(q) /\ seen'[q].xrplTxHash = seen[q].xrplTxHash
      BY <2>1 DEF SettleInv, ReadersNamePayment
    <2>2. CASE seen'[q] = job /\ job.status \in DOMAIN Branch \ {"CREATED"}
      <3>1. job.status # "FAILED" /\ job.status # "CREATED"
        BY <2>2 DEF Branch
      <3> QED BY <2>2, <3>1 DEF SettleInv, RowNamesPayment
    <2> QED BY <1>0, <2>1, <2>2, NextSeen
  <1>4. MintsNamePayment'
    <2>1. mintTxs \in Seq([pay : Nat, state : MintStates])
      BY <1>0 DEF TypeOK
    <2>2. CASE UNCHANGED mintTxs
      BY <2>2 DEF SettleInv, MintsNamePayment
    <2>3. ASSUME NEW p \in Procs, Broadcast(p)
          PROVE  MintsNamePayment'
      <3> DEFINE e == [pay |-> seen[p].xrplTxHash, state |-> "pending"]
      <3>1. mintTxs' = Append(mintTxs, e) /\ Past(p)
        BY <2>3 DEF Broadcast, Past
      <3>2. e \in [pay : Nat, state : MintStates] /\ e.pay = 1
        BY <1>0, <3>1 DEF TypeOK, Job, MintStates, SettleInv, ReadersNamePayment
      <3> HIDE DEF e
      <3>3. /\ DOMAIN mintTxs' = 1 .. Len(mintTxs) + 1 /\ DOMAIN mintTxs = 1 .. Len(mintTxs)
            /\ Len(mintTxs) \in Nat
            /\ \A i \in 1 .. Len(mintTxs) : mintTxs'[i] = mintTxs[i]
            /\ mintTxs'[Len(mintTxs) + 1] = e
        BY <2>1, <3>1, <3>2, AppendProperties
      <3>4. \A i \in DOMAIN mintTxs' : i \in DOMAIN mintTxs \/ i = Len(mintTxs) + 1
        BY <3>3
      <3> QED BY <3>2, <3>3, <3>4 DEF SettleInv, MintsNamePayment
    <2>4. ASSUME NEW j \in DOMAIN mintTxs, MineMint(j)
          PROVE  MintsNamePayment'
      <3>1. DOMAIN mintTxs' = DOMAIN mintTxs
        BY <2>4 DEF MineMint
      <3> QED BY <1>0, <3>1, MinedStays DEF SettleInv, MintsNamePayment
    <2> QED BY <2>2, <2>3, <2>4, MintStep
  <1> QED BY <1>1, <1>2, <1>3, <1>4 DEF SettleInv

\* A settled row is backed by a settled mint of the row's own payment: for any
\* number of workers, crashes, delays and stale readers, if one process may sign.
THEOREM SettledByChain ==
    ASSUME SingleSigner
    PROVE  Spec => []SettledMatchesChain
  <1>1. SettleInv /\ [Next]_vars => SettleInv'
    BY NextSettleInv
  <1>2. SettleInv => SettledMatchesChain
    <2> SUFFICES ASSUME SettleInv, job.status \in {"SETTLED_SUCCESS", "SETTLED_FALLBACK"}
                 PROVE  \E i \in DOMAIN mintTxs :
                            mintTxs[i] = [pay |-> job.xrplTxHash, state |-> job.status]
      BY DEF SettledMatchesChain
    <2>1. PICK i \in DOMAIN mintTxs : mintTxs[i].state = job.status
      BY DEF SettleInv, ShownOnChain
    <2>2. mintTxs[i].pay = 1 /\ job.xrplTxHash = 1
      BY DEF SettleInv, MintsNamePayment, RowNamesPayment
    <2>3. mintTxs[i] \in [pay : Nat, state : MintStates]
      <3>1. DOMAIN mintTxs = 1 .. Len(mintTxs)
        BY DEF SettleInv, PayInv, TypeInv, TypeOK
      <3> QED BY <3>1, ElementOfSeq DEF SettleInv, PayInv, TypeInv, TypeOK
    <2>4. mintTxs[i] = [pay |-> job.xrplTxHash, state |-> job.status]
      BY <2>1, <2>2, <2>3
    <2> QED BY <2>4
  <1> QED BY <1>1, <1>2, InitSettleInv, PTL DEF Spec

---------------------------------------------------------------------------
(* Every broadcast was simulated.                                          *)

\* The processes that may broadcast next.
AtBroadcast == {p \in Procs : pc[p] = "broadcast"}

\* A process past the reading knows whether the job is a bare comparison.
ReadersKnowKind == \A p \in Procs : Past(p) => seen[p].allowFlareRevert = job.allowFlareRevert

\* The simulations recorded cover the broadcasts made and those about to be made.
SimulationsCover ==
    ~job.allowFlareRevert =>
        /\ IsFiniteSet(AtBroadcast)
        /\ Len(mintTxs) <= MaxMints
        /\ \/ MaxMints <= job.simulationAttempts
           \/ Len(mintTxs) + Cardinality(AtBroadcast) <= job.simulationAttempts

SimulationInv == TypeInv /\ ReadersKnowKind /\ SimulationsCover

\* Nobody comes to a broadcast, none is made, and the row keeps its count.
Quiet ==
    /\ AtBroadcast' \subseteq AtBroadcast
    /\ job'.simulationAttempts = job.simulationAttempts
    /\ Len(mintTxs') = Len(mintTxs)

\* The catch block keeps kind and count, and takes the process away.
LEMMA CaughtIsQuiet ==
    ASSUME TypeOK, NEW p \in Procs, Caught(p), UNCHANGED mintTxs
    PROVE  Quiet /\ job'.allowFlareRevert = job.allowFlareRevert
  <1>1. job' = job \/ \E st \in {job.status, "FAILED"} : job' = [job EXCEPT !.status = st]
    BY DEF Caught, row
  <1>2. pc' = [pc EXCEPT ![p] = "idle"]
    BY DEF Caught, Leave
  <1> QED BY <1>1, <1>2 DEF TypeOK, Job, Quiet, AtBroadcast

\* A step of one process that keeps the count and does not go to a broadcast.
LEMMA MoveIsQuiet ==
    ASSUME TypeOK, NEW p \in Procs, NEW l, l # "broadcast", pc' = [pc EXCEPT ![p] = l],
           job'.simulationAttempts = job.simulationAttempts, UNCHANGED mintTxs
    PROVE  Quiet
  BY DEF TypeOK, Quiet, AtBroadcast

\* Only these three actions move a process to a broadcast, or past it.
LEMMA NextQuiet ==
    ASSUME TypeInv, [Next]_vars
    PROVE  \/ Quiet
           \/ \E p \in Procs : Simulate(p) \/ BypassSimulation(p) \/ Broadcast(p)
  <1> USE DEF row, process, world
  <1>0. TypeOK
    BY DEF TypeInv
  <1>1. ASSUME NEW p \in Procs, Caught(p), UNCHANGED mintTxs
        PROVE  Quiet
    BY <1>0, <1>1, CaughtIsQuiet
  <1>2. ASSUME NEW p \in Procs, StartExecutor(p) \/ StartWorker(p) \/ Crash(p)
        PROVE  Quiet
    <2>1. UNCHANGED <<job, mintTxs>> /\ \E l \in {"top", "idle"} : pc' = [pc EXCEPT ![p] = l]
      BY <1>2 DEF StartExecutor, StartWorker, Crash, Goto, Leave
    <2> QED BY <1>0, <2>1, MoveIsQuiet
  <1>3. ASSUME NEW p \in Procs, Read(p)
        PROVE  Quiet
    <2>1. UNCHANGED <<job, mintTxs>>
      BY <1>3 DEF Read
    <2>2. \E l \in Labels \ {"broadcast"} : pc' = [pc EXCEPT ![p] = l]
      BY <1>3 DEF Read, Leave, Branch, Labels
    <2> QED BY <1>0, <2>1, <2>2, MoveIsQuiet
  <1>4. ASSUME NEW p \in Procs, SubmitPayment(p) \/ RequestAttestation(p)
        PROVE  Quiet
    <2>1. /\ UNCHANGED <<job, mintTxs>>
          /\ \E l \in {"finality", "attested"} : pc' = [pc EXCEPT ![p] = l]
      BY <1>4 DEF SubmitPayment, RequestAttestation, Goto
    <2> QED BY <1>0, <2>1, MoveIsQuiet
  <1>5. ASSUME NEW p \in Procs, ~Caught(p),
               \/ Sign(p) \/ AwaitFinality(p) \/ CheckpointFdcTx(p) \/ OwnRound(p)
               \/ AwaitProof(p) \/ CheckpointMintTx(p) \/ ResolveRound(p)
        PROVE  Quiet
    <2>1. \E l \in Labels \ {"broadcast"} : pc' = [pc EXCEPT ![p] = l]
      BY <1>5 DEF Sign, AwaitFinality, CheckpointFdcTx, OwnRound, AwaitProof,
                  CheckpointMintTx, ResolveRound, Transition, Goto, Labels
    <2>2. UNCHANGED mintTxs
      BY <1>5 DEF Sign, AwaitFinality, CheckpointFdcTx, OwnRound, AwaitProof,
                  CheckpointMintTx, ResolveRound
    <2>3. job'.simulationAttempts = job.simulationAttempts
      BY <1>0, <1>5 DEF Sign, AwaitFinality, CheckpointFdcTx, OwnRound, AwaitProof,
                  CheckpointMintTx, ResolveRound, Transition, TypeOK, Job
    <2> QED BY <1>0, <2>1, <2>2, <2>3, MoveIsQuiet
  <1>6. ASSUME NEW p \in Procs, ~Caught(p), AwaitReceipt(p) \/ Reconcile(p)
        PROVE  Quiet
    <2>1. UNCHANGED mintTxs /\ \E o : ClassifyReceipt(p, o)
      BY <1>6 DEF AwaitReceipt, Reconcile
    <2>2. PICK o : ClassifyReceipt(p, o)
      BY <2>1
    <2> DEFINE st == Settlement(o)
               at == IF o = "DELAYED" THEN delays ELSE job.executionAllowedAt
    <2>3. /\ job' = [job EXCEPT !.status = st, !.executionAllowedAt = at]
          /\ pc' = [pc EXCEPT ![p] = "top"]
      BY <1>6, <2>2 DEF ClassifyReceipt, Transition, Goto
    <2> HIDE DEF st, at
    <2>4. job'.simulationAttempts = job.simulationAttempts
      BY <1>0, <2>3 DEF TypeOK, Job
    <2> QED BY <1>0, <2>1, <2>3, <2>4, MoveIsQuiet
  <1>7. ASSUME NEW j \in DOMAIN mintTxs, MineMint(j)
        PROVE  Quiet
    <2>1. DOMAIN mintTxs' = DOMAIN mintTxs /\ UNCHANGED <<job, pc>>
      BY <1>7 DEF MineMint
    <2>2. TypeOK'
      BY NextTypeInv DEF TypeInv
    <2>3. Len(mintTxs') = Len(mintTxs)
      BY <1>0, <2>1, <2>2, SameLength DEF TypeOK
    <2> QED BY <2>1, <2>3 DEF Quiet, AtBroadcast
  <1>8. ASSUME \/ \E x \in DOMAIN payments : SettlePayment(x)
               \/ \E f \in DOMAIN fdcTxs : MineFdcRequest(f)
               \/ PassDelay \/ UNCHANGED vars
        PROVE  Quiet
    <2>1. UNCHANGED <<job, pc, mintTxs>>
      BY <1>8 DEF SettlePayment, MineFdcRequest, PassDelay, vars
    <2> QED BY <2>1 DEF Quiet, AtBroadcast
  <1>9. ASSUME NEW p \in Procs,
               \/ Sign(p) \/ AwaitFinality(p) \/ CheckpointFdcTx(p) \/ OwnRound(p)
               \/ AwaitProof(p) \/ CheckpointMintTx(p) \/ ResolveRound(p)
               \/ AwaitReceipt(p) \/ Reconcile(p) \/ Throw(p)
        PROVE  UNCHANGED mintTxs
    BY <1>9 DEF Sign, AwaitFinality, CheckpointFdcTx, OwnRound, AwaitProof,
                CheckpointMintTx, ResolveRound, AwaitReceipt, Reconcile, Throw
  <1>10. ASSUME NEW p \in Procs, Throw(p)
         PROVE  Quiet
    BY <1>1, <1>9, <1>10 DEF Throw
  <1> QED BY <1>1, <1>2, <1>3, <1>4, <1>5, <1>6, <1>7, <1>8, <1>9, <1>10
          DEF Next, Step, Environment

LEMMA NextSimulationInv == SimulationInv /\ [Next]_vars => SimulationInv'
  <1> SUFFICES ASSUME SimulationInv, [Next]_vars
               PROVE  ReadersKnowKind' /\ SimulationsCover'
    BY NextTypeInv DEF SimulationInv
  <1>0. /\ TypeInv /\ TypeOK /\ job \in Job /\ Len(mintTxs) \in Nat
        /\ job.simulationAttempts \in Nat /\ MaxMints \in Nat
    <2>1. TypeInv /\ TypeOK /\ job \in Job /\ Len(mintTxs) \in Nat
      BY DEF SimulationInv, TypeInv, TypeOK
    <2>2. job.simulationAttempts \in Nat
      BY <2>1 DEF Job
    <2> QED BY <2>1, <2>2, BoundsAssumption
  <1>1. job'.allowFlareRevert = job.allowFlareRevert
    <2>1. RowStep
      BY NextRowStep DEF SimulationInv
    <2>2. ASSUME NEW p \in Procs, Caught(p), UNCHANGED mintTxs
          PROVE  job'.allowFlareRevert = job.allowFlareRevert
      BY <1>0, <2>2, CaughtIsQuiet
    <2> QED BY <2>1, <2>2 DEF RowStep, row, Writes, Legitimate
  <1>2. ReadersKnowKind'
    <2> SUFFICES ASSUME NEW q \in Procs, Past(q)'
                 PROVE  seen'[q].allowFlareRevert = job'.allowFlareRevert
      BY DEF ReadersKnowKind
    <2> QED BY <1>0, <1>1, NextSeen DEF SimulationInv, ReadersKnowKind
  <1>3. SimulationsCover'
    <2> SUFFICES ASSUME ~job.allowFlareRevert
                 PROVE  /\ IsFiniteSet(AtBroadcast')
                        /\ Len(mintTxs') <= MaxMints
                        /\ \/ MaxMints <= job'.simulationAttempts
                           \/ Len(mintTxs') + Cardinality(AtBroadcast')
                                <= job'.simulationAttempts
      BY <1>1 DEF SimulationsCover
    <2>1. /\ IsFiniteSet(AtBroadcast) /\ Len(mintTxs) <= MaxMints
          /\ \/ MaxMints <= job.simulationAttempts
             \/ Len(mintTxs) + Cardinality(AtBroadcast) <= job.simulationAttempts
          /\ Cardinality(AtBroadcast) \in Nat
      BY FS_CardinalityType DEF SimulationInv, SimulationsCover
    <2>2. CASE Quiet
      <3>1. /\ IsFiniteSet(AtBroadcast') /\ Cardinality(AtBroadcast') \in Nat
            /\ Cardinality(AtBroadcast') <= Cardinality(AtBroadcast)
        BY <2>1, <2>2, FS_Subset, FS_CardinalityType DEF Quiet
      <3> QED BY <1>0, <2>1, <2>2, <3>1 DEF Quiet
    <2>3. ASSUME NEW p \in Procs, Simulate(p), ~Caught(p)
          PROVE  /\ IsFiniteSet(AtBroadcast')
                 /\ Len(mintTxs') <= MaxMints
                 /\ \/ MaxMints <= job'.simulationAttempts
                    \/ Len(mintTxs') + Cardinality(AtBroadcast') <= job'.simulationAttempts
      <3> DEFINE n == IF job.simulationAttempts < MaxMints
                      THEN job.simulationAttempts + 1 ELSE job.simulationAttempts
      <3>1. /\ job' = [job EXCEPT !.status = "SIMULATION_PASSED", !.simulationAttempts = n]
            /\ pc' = [pc EXCEPT ![p] = "broadcast"] /\ pc[p] = "mintProof"
            /\ UNCHANGED mintTxs
        BY <2>3 DEF Simulate, Transition, Goto, world
      <3>2. job'.simulationAttempts = n
        BY <1>0, <3>1 DEF Job
      <3>3. AtBroadcast' = AtBroadcast \cup {p} /\ p \notin AtBroadcast
        BY <1>0, <3>1 DEF TypeOK, AtBroadcast
      <3>4. /\ IsFiniteSet(AtBroadcast')
            /\ Cardinality(AtBroadcast') = Cardinality(AtBroadcast) + 1
        BY <2>1, <3>3, FS_AddElement
      <3> QED BY <1>0, <2>1, <3>1, <3>2, <3>4
    <2>4. ASSUME NEW p \in Procs, Simulate(p), Caught(p)
          PROVE  Quiet
      BY <1>0, <2>4, CaughtIsQuiet DEF Simulate, world
    <2>5. ASSUME NEW p \in Procs, BypassSimulation(p)
          PROVE  FALSE
      BY <2>5 DEF BypassSimulation, SimulationInv, ReadersKnowKind, Past
    <2>6. ASSUME NEW p \in Procs, Broadcast(p)
          PROVE  /\ IsFiniteSet(AtBroadcast')
                 /\ Len(mintTxs') <= MaxMints
                 /\ \/ MaxMints <= job'.simulationAttempts
                    \/ Len(mintTxs') + Cardinality(AtBroadcast') <= job'.simulationAttempts
      <3> DEFINE e == [pay |-> seen[p].xrplTxHash, state |-> "pending"]
      <3>1. /\ mintTxs' = Append(mintTxs, e) /\ Len(mintTxs) < MaxMints /\ UNCHANGED job
            /\ pc' = [pc EXCEPT ![p] = "broadcasted"] /\ pc[p] = "broadcast"
        BY <2>6 DEF Broadcast, row
      <3>2. e \in [pay : Nat, state : MintStates]
        BY <1>0 DEF TypeOK, Job, MintStates
      <3> HIDE DEF e
      <3>3. Len(mintTxs') = Len(mintTxs) + 1
        BY <1>0, <3>1, <3>2, AppendProperties DEF TypeOK
      <3>4. AtBroadcast' = AtBroadcast \ {p} /\ p \in AtBroadcast
        BY <1>0, <3>1 DEF TypeOK, AtBroadcast
      <3>5. /\ IsFiniteSet(AtBroadcast')
            /\ Cardinality(AtBroadcast') = Cardinality(AtBroadcast) - 1
        BY <2>1, <3>4, FS_RemoveElement
      <3> QED BY <1>0, <2>1, <3>1, <3>3, <3>5
    <2> QED BY <1>0, <2>2, <2>3, <2>4, <2>5, <2>6, NextQuiet
  <1> QED BY <1>2, <1>3

\* Every broadcast of a protected mint was preceded by a simulation of its own that
\* the row records, for any number of processes, retries, crashes and delays.
THEOREM BroadcastsSimulated == Spec => []EveryBroadcastWasSimulated
  <1>1. Init => SimulationInv
    <2> SUFFICES ASSUME Init PROVE SimulationInv
      OBVIOUS
    <2>1. AtBroadcast = {} /\ Len(mintTxs) = 0 /\ ReadersKnowKind
      BY DEF Init, AtBroadcast, ReadersKnowKind, Past
    <2>2. IsFiniteSet(AtBroadcast) /\ Cardinality(AtBroadcast) = 0
      BY <2>1, FS_EmptySet
    <2>3. job.simulationAttempts \in Nat /\ TypeInv
      BY InitTypeInv DEF TypeInv, TypeOK, Job
    <2> QED BY <2>1, <2>2, <2>3, BoundsAssumption DEF SimulationInv, SimulationsCover
  <1>2. SimulationInv /\ [Next]_vars => SimulationInv'
    BY NextSimulationInv
  <1>3. SimulationInv => EveryBroadcastWasSimulated
    <2> SUFFICES ASSUME SimulationInv, ~job.allowFlareRevert
                 PROVE  Len(mintTxs) <= job.simulationAttempts
      BY DEF EveryBroadcastWasSimulated
    <2>1. /\ Len(mintTxs) \in Nat /\ job.simulationAttempts \in Nat /\ MaxMints \in Nat
          /\ Cardinality(AtBroadcast) \in Nat
      BY BoundsAssumption, FS_CardinalityType
         DEF SimulationInv, SimulationsCover, TypeInv, TypeOK, Job
    <2> QED BY <2>1 DEF SimulationInv, SimulationsCover
  <1> QED BY <1>1, <1>2, <1>3, PTL DEF Spec

---------------------------------------------------------------------------
(* The refinement: pay once, mint once, report what the chain did.         *)

\* At most one mint consumes the payment.
OneConsumed ==
    \A i, j \in DOMAIN mintTxs :
        mintTxs[i].state \in Consumed /\ mintTxs[j].state \in Consumed => i = j

PromiseInv == SettleInv /\ OneConsumed

ReportOf(r) == IF r.status \in Resting THEN r.status ELSE "open"

\* At most one payment is ever signed.
LEMMA SignedAtMostOnce ==
    ASSUME PayInv
    PROVE  Len(payments) \in 0 .. 1 /\ DOMAIN payments = 1 .. Len(payments)
  <1>1. payments \in Seq([seq : Nat, state : PaymentStates]) /\ Len(payments) <= 1
    BY DEF PayInv, TypeInv, TypeOK, SignedIsRecorded
  <1>2. Len(payments) \in Nat /\ DOMAIN payments = 1 .. Len(payments)
    BY <1>1, LenProperties
  <1> QED BY <1>1, <1>2

\* The job has paid nothing, or its one payment.
LEMMA PaidCount ==
    ASSUME PayInv
    PROVE  \/ Paid = {} /\ Cardinality(Paid) = 0
           \/ Paid = {1} /\ Cardinality(Paid) = 1
  <1>1. DOMAIN payments = 1 .. Len(payments) /\ Len(payments) \in 0 .. 1
    BY SignedAtMostOnce
  <1>2. Paid \subseteq {1}
    BY <1>1 DEF Paid
  <1>3. Cardinality({}) = 0 /\ Cardinality({1}) = 1
    BY FS_EmptySet, FS_Singleton
  <1> QED BY <1>2, <1>3

\* Only the ledger moves XRP: signing and submitting a payment pay nothing yet.
LEMMA PaidStep ==
    ASSUME TypeInv, [Next]_vars
    PROVE  Paid' = Paid \/ \E x \in DOMAIN payments : SettlePayment(x)
  <1> USE DEF row, process, world
  <1>0. /\ payments \in Seq([seq : Nat, state : PaymentStates])
        /\ DOMAIN payments = 1 .. Len(payments) /\ Len(payments) \in Nat
    BY DEF TypeInv, TypeOK
  <1>1. CASE UNCHANGED payments
    BY <1>1 DEF Paid
  <1>2. ASSUME NEW p \in Procs, Sign(p)
        PROVE  Paid' = Paid
    <2> DEFINE e == [seq |-> AccountSequence, state |-> "signed"]
    <2>1. payments' = Append(payments, e)
      BY <1>2 DEF Sign
    <2>2. /\ Len(payments') = Len(payments) + 1 /\ DOMAIN payments' = 1 .. Len(payments) + 1
          /\ \A i \in 1 .. Len(payments) : payments'[i] = payments[i]
          /\ payments'[Len(payments) + 1] = e
      BY <1>0, <2>1
    <2>3. e.state # "validated"
      OBVIOUS
    <2> HIDE DEF e
    <2> QED BY <1>0, <2>2, <2>3 DEF Paid
  <1>3. ASSUME NEW p \in Procs, SubmitPayment(p)
        PROVE  Paid' = Paid
    <2> DEFINE x == seen[p].xrplTxHash
               st == Submitted(payments[x].state, seen[p].txBlob)
    <2>1. payments' = [payments EXCEPT ![x].state = st]
      BY <1>3 DEF SubmitPayment
    <2>2. st = "validated" <=> payments[x].state = "validated"
      BY DEF Submitted
    <2> HIDE DEF x, st
    <2>3. DOMAIN payments' = DOMAIN payments
      BY <2>1
    <2>4. \A i \in DOMAIN payments :
             payments'[i].state = "validated" <=> payments[i].state = "validated"
      <3> SUFFICES ASSUME NEW i \in DOMAIN payments
                   PROVE  payments'[i].state = "validated" <=> payments[i].state = "validated"
        OBVIOUS
      <3>1. payments[i] \in [seq : Nat, state : PaymentStates]
        BY <1>0, ElementOfSeq
      <3> QED BY <2>1, <2>2, <3>1
    <2> QED BY <2>3, <2>4 DEF Paid
  <1>4. \/ UNCHANGED payments
        \/ \E p \in Procs : Sign(p) \/ SubmitPayment(p)
        \/ \E x \in DOMAIN payments : SettlePayment(x)
    BY DEF Next, Step, Environment, StartExecutor, StartWorker, Crash, Throw, Read,
           AwaitFinality, RequestAttestation, CheckpointFdcTx, OwnRound, ResolveRound,
           AwaitProof, Simulate, BypassSimulation, Broadcast, CheckpointMintTx,
           AwaitReceipt, Reconcile, MineFdcRequest, MineMint, PassDelay, vars
  <1> QED BY <1>1, <1>2, <1>3, <1>4

\* Mining a mint of an unspent payment spends it; no other step does.
LEMMA MintedStep ==
    ASSUME SettleInv, NEW j \in DOMAIN mintTxs, MineMint(j)
    PROVE  \/ MintOutcomes' = MintOutcomes
           \/ /\ MintOutcomes = {} /\ \E o \in Consumed : MintOutcomes' = {o}
              /\ Paid # {}
  <1>1. PICK o \in Outcomes(mintTxs[j].pay) : mintTxs' = [mintTxs EXCEPT ![j].state = o]
    BY DEF MineMint
  <1>2. mintTxs[j].state = "pending" /\ "pending" \notin Consumed
    BY DEF MineMint, Consumed
  <1>3. /\ mintTxs \in Seq([pay : Nat, state : MintStates])
        /\ DOMAIN mintTxs = 1 .. Len(mintTxs)
    BY DEF SettleInv, PayInv, TypeInv, TypeOK
  <1>4. \A i \in DOMAIN mintTxs : mintTxs[i] \in [pay : Nat, state : MintStates]
    BY <1>3, ElementOfSeq
  <1>5. /\ DOMAIN mintTxs' = DOMAIN mintTxs
        /\ mintTxs'[j].state = o
        /\ \A i \in DOMAIN mintTxs \ {j} : mintTxs'[i] = mintTxs[i]
    BY <1>1, <1>4
  <1>6. CASE o \notin Consumed
    BY <1>2, <1>5, <1>6 DEF MintOutcomes
  <1>7. CASE o \in Consumed
    <2>1. o # "REVERTED"
      BY <1>7 DEF Consumed
    <2>2. Executable(mintTxs[j].pay)
      BY <2>1 DEF Outcomes
    <2>3. MintOutcomes = {}
      BY <2>2 DEF Executable, Unspent, MintOutcomes
    <2>4. MintOutcomes' = {o}
      BY <1>5, <1>7, <2>3 DEF MintOutcomes
    <2>5. mintTxs[j].pay \in Paid
      BY <2>2 DEF Executable, Paid
    <2> QED BY <1>7, <2>3, <2>4, <2>5
  <1> QED BY <1>6, <1>7

LEMMA NextOneConsumed ==
    ASSUME PromiseInv, [Next]_vars
    PROVE  OneConsumed'
  <1>0. TypeInv /\ mintTxs \in Seq([pay : Nat, state : MintStates])
    BY DEF PromiseInv, SettleInv, PayInv, TypeInv, TypeOK
  <1>1. CASE UNCHANGED mintTxs
    BY <1>1 DEF PromiseInv, OneConsumed
  <1>2. ASSUME NEW p \in Procs, Broadcast(p)
        PROVE  OneConsumed'
    <2> DEFINE e == [pay |-> seen[p].xrplTxHash, state |-> "pending"]
    <2>1. mintTxs' = Append(mintTxs, e) /\ e.state \notin Consumed
      BY <1>2 DEF Broadcast, Consumed
    <2> HIDE DEF e
    <2>2. /\ DOMAIN mintTxs' = 1 .. Len(mintTxs) + 1 /\ DOMAIN mintTxs = 1 .. Len(mintTxs)
          /\ Len(mintTxs) \in Nat
          /\ \A i \in 1 .. Len(mintTxs) : mintTxs'[i] = mintTxs[i]
          /\ mintTxs'[Len(mintTxs) + 1] = e
      BY <1>0, <2>1
    <2>3. \A i \in DOMAIN mintTxs' :
             mintTxs'[i].state \in Consumed =>
                 i \in DOMAIN mintTxs /\ mintTxs[i].state \in Consumed
      BY <2>1, <2>2
    <2> QED BY <2>3 DEF PromiseInv, OneConsumed
  <1>3. ASSUME NEW k \in DOMAIN mintTxs, MineMint(k)
        PROVE  OneConsumed'
    <2>1. PICK o \in Outcomes(mintTxs[k].pay) : mintTxs' = [mintTxs EXCEPT ![k].state = o]
      BY <1>3 DEF MineMint
    <2>2. /\ DOMAIN mintTxs' = DOMAIN mintTxs
          /\ \A i \in DOMAIN mintTxs \ {k} : mintTxs'[i] = mintTxs[i]
          /\ mintTxs'[k].state = o
      <3>1. DOMAIN mintTxs = 1 .. Len(mintTxs)
        BY <1>0
      <3>2. mintTxs[k] \in [pay : Nat, state : MintStates]
        BY <1>0, <3>1, ElementOfSeq
      <3> QED BY <2>1, <3>2
    <2>3. o \in Consumed => \A i \in DOMAIN mintTxs : mintTxs[i].state \notin Consumed
      <3>1. o \in Consumed => Executable(mintTxs[k].pay)
        BY DEF Outcomes, Consumed
      <3> QED BY <3>1 DEF Executable, Unspent
    <2> QED BY <2>2, <2>3 DEF PromiseInv, OneConsumed
  <1> QED BY <1>1, <1>2, <1>3, MintStep

\* A row step is a report, or leaves the report alone.
LEMMA ReportStep ==
    ASSUME PromiseInv, RowStep, UNCHANGED <<Paid, mintTxs>>
    PROVE  UNCHANGED Abstract!promise \/ Abstract!PNext
  <1>0. TypeOK /\ job \in Job
    BY DEF PromiseInv, SettleInv, PayInv, TypeInv, TypeOK
  <1>1. Cardinality(Paid)' = Cardinality(Paid) /\ Minted' = Minted
    BY DEF Minted, MintOutcomes
  <1>2. ASSUME job'.status = job.status
        PROVE  UNCHANGED Abstract!promise
    BY <1>1, <1>2 DEF Abstract!promise
  <1>3. ASSUME job.status \notin Counted, ShownOnChain(job')
        PROVE  Abstract!PNext
    <2> DEFINE r == ReportOf(job')
    <2>1. ReportOf(job) \in {"open", "RECOVERY_REQUIRED"}
      BY <1>3 DEF ReportOf, Resting, Counted
    <2>2. r \in Abstract!Settled \cup {"open", "RECOVERY_REQUIRED", "FAILED"}
      BY DEF ReportOf, Resting, Abstract!Settled
    <2>3. r \in Abstract!Settled => Minted = r
      <3> SUFFICES ASSUME r \in Abstract!Settled PROVE Minted = r
        OBVIOUS
      <3>1. job'.status = r /\ r \in {"SETTLED_SUCCESS", "SETTLED_FALLBACK"}
        BY DEF ReportOf, Resting, Abstract!Settled
      <3>2. PICK i \in DOMAIN mintTxs : mintTxs[i].state = r
        BY <1>3, <3>1 DEF ShownOnChain
      <3>3. r \in Consumed
        BY <3>1 DEF Consumed
      <3> HIDE DEF r
      <3>4. MintOutcomes = {r}
        BY <3>2, <3>3 DEF MintOutcomes, PromiseInv, OneConsumed
      <3> QED BY <3>4 DEF Minted
    <2>4. Abstract!Report(r)
      BY <1>1, <2>1, <2>3 DEF Abstract!Report, ReportOf
    <2> QED BY <2>2, <2>4 DEF Abstract!PNext
  <1>4. ASSUME NEW p \in Procs, Caught(p)
        PROVE  UNCHANGED Abstract!promise \/ Abstract!PNext
    <2>1. job'.status \in {job.status, "FAILED"}
      BY <1>0, <1>4, CaughtRow
    <2>2. job.status \in Counted => job' = job
      BY <1>4 DEF Caught, Counted, row
    <2>3. job'.status = "FAILED" => ShownOnChain(job')
      BY DEF ShownOnChain
    <2> QED BY <1>2, <1>3, <2>1, <2>2, <2>3
  <1>5. ASSUME NEW patched \in Job, Writes(patched), Legitimate(patched)
        PROVE  UNCHANGED Abstract!promise \/ Abstract!PNext
    <2>1. job' = patched /\ CanTransition(job.status, patched.status)
      BY <1>5 DEF Writes
    <2>2. job.status \in Counted => patched.status = job.status
      BY <2>1, CountedIsFinal
    <2>3. ShownOnChain(job')
      BY <1>5, <2>1 DEF Legitimate, ShownOnChain
    <2> QED BY <1>2, <1>3, <2>1, <2>2, <2>3
  <1>6. CASE UNCHANGED row
    BY <1>2, <1>6 DEF row
  <1> QED BY <1>4, <1>5, <1>6 DEF RowStep

\* Every step of the processes and the chains is a step of the promise, or none.
LEMMA StepKeepsPromise ==
    ASSUME SingleSigner, PromiseInv, [Next]_vars
    PROVE  UNCHANGED Abstract!promise \/ Abstract!PNext
  <1>0. TypeInv /\ PayInv /\ PayInv' /\ RowStep
    BY NextRowStep, NextPayInv DEF PromiseInv, SettleInv, PayInv
  <1>1. ASSUME NEW x \in DOMAIN payments, SettlePayment(x)
        PROVE  UNCHANGED Abstract!promise \/ Abstract!PNext
    <2>1. UNCHANGED <<job, mintTxs>> /\ payments[x].state = "submitted"
      BY <1>1 DEF SettlePayment, row
    <2>2. Minted' = Minted
      BY <2>1 DEF Minted, MintOutcomes
    <2>3. PICK st \in {"validated", "failed", "expired"} :
             payments' = [payments EXCEPT ![x].state = st]
      BY <1>1 DEF SettlePayment
    <2>4. Len(payments) \in 0 .. 1 /\ DOMAIN payments = 1 .. Len(payments)
      BY <1>0, SignedAtMostOnce
    <2>5. x = 1 /\ DOMAIN payments = {1} /\ Paid = {}
      BY <2>1, <2>4 DEF Paid
    <2>6. Cardinality(Paid) = 0
      BY <1>0, <2>5, PaidCount
    <2>7. Cardinality(Paid)' \in {0, 1}
      <3>1. DOMAIN payments' = {1}
        BY <2>3, <2>5
      <3>2. Paid' = {} \/ Paid' = {1}
        BY <3>1 DEF Paid
      <3>3. Cardinality({}) = 0 /\ Cardinality({1}) = 1
        BY FS_EmptySet, FS_Singleton
      <3> QED BY <3>2, <3>3
    <2>8. Cardinality(Paid)' = 1 => Abstract!Pay
      BY <2>1, <2>2, <2>6 DEF Abstract!Pay
    <2>9. Cardinality(Paid)' = 0 => UNCHANGED Abstract!promise
      BY <2>1, <2>2, <2>6 DEF Abstract!promise
    <2> QED BY <2>7, <2>8, <2>9 DEF Abstract!PNext
  <1>2. ASSUME NEW p \in Procs, Broadcast(p)
        PROVE  UNCHANGED Abstract!promise \/ Abstract!PNext
    <2> DEFINE e == [pay |-> seen[p].xrplTxHash, state |-> "pending"]
    <2>1. UNCHANGED <<job, payments>> /\ mintTxs' = Append(mintTxs, e)
      BY <1>2 DEF Broadcast, row
    <2>2. e.state \notin Consumed
      BY DEF Consumed
    <2> HIDE DEF e
    <2>3. /\ DOMAIN mintTxs' = 1 .. Len(mintTxs) + 1 /\ DOMAIN mintTxs = 1 .. Len(mintTxs)
          /\ Len(mintTxs) \in Nat
          /\ \A i \in 1 .. Len(mintTxs) : mintTxs'[i] = mintTxs[i]
          /\ mintTxs'[Len(mintTxs) + 1] = e
      BY <1>0, <2>1 DEF TypeInv, TypeOK
    <2>4. MintOutcomes' = MintOutcomes
      BY <2>2, <2>3 DEF MintOutcomes
    <2>5. Minted' = Minted /\ Cardinality(Paid)' = Cardinality(Paid)
      BY <2>1, <2>4 DEF Minted, Paid
    <2> QED BY <2>1, <2>5 DEF Abstract!promise
  <1>3. ASSUME NEW j \in DOMAIN mintTxs, MineMint(j)
        PROVE  UNCHANGED Abstract!promise \/ Abstract!PNext
    <2>1. UNCHANGED <<job, payments>>
      BY <1>3 DEF MineMint, row
    <2>2. Cardinality(Paid)' = Cardinality(Paid)
      BY <2>1 DEF Paid
    <2>3. CASE MintOutcomes' = MintOutcomes
      BY <2>1, <2>2, <2>3 DEF Minted, Abstract!promise
    <2>4. ASSUME NEW o \in Consumed, MintOutcomes = {}, MintOutcomes' = {o}, Paid # {}
          PROVE  Abstract!PNext
      <3>1. Minted = "no" /\ Minted' = o
        BY <2>4 DEF Minted
      <3>2. Cardinality(Paid) = 1
        BY <1>0, <2>4, PaidCount
      <3>3. Abstract!Mint(o)
        BY <2>1, <2>2, <3>1, <3>2 DEF Abstract!Mint
      <3>4. o \in Abstract!Settled \cup {"UNMATCHED"}
        BY DEF Consumed, Abstract!Settled
      <3> QED BY <3>3, <3>4 DEF Abstract!PNext
    <2> QED BY <1>3, <2>3, <2>4, MintedStep DEF PromiseInv
  <1>4. CASE UNCHANGED <<Paid, mintTxs>>
    BY <1>0, <1>4, ReportStep
  <1> QED BY <1>0, <1>1, <1>2, <1>3, <1>4, PaidStep, MintStep

\* The processes, their crashes and the chains together implement the promise: the
\* job is paid once, minted once, and its final report is what the chain did and is
\* never changed again.
THEOREM PipelineKeepsPromise ==
    ASSUME SingleSigner
    PROVE  Spec => KeepsPromise
  <1>1. Init => PromiseInv
    <2>1. Init => OneConsumed
      BY DEF Init, OneConsumed
    <2> QED BY <2>1, InitSettleInv DEF PromiseInv
  <1>2. PromiseInv /\ [Next]_vars => PromiseInv'
    BY NextSettleInv, NextOneConsumed DEF PromiseInv
  <1>3. Init => Abstract!PInit
    <2> SUFFICES ASSUME Init PROVE Abstract!PInit
      OBVIOUS
    <2>1. PICK a \in AllowFlareRevert :
             \/ job = NewJob(a) /\ payments = <<>>
             \/ /\ job = [NewJob(a) EXCEPT !.status = "XRPL_SIGNED", !.xrplTxHash = 1]
                /\ payments = <<[seq |-> 1, state |-> "submitted"]>>
      BY DEF Init
    <2>2. Paid = {}
      <3>1. CASE payments = <<>>
        BY <3>1 DEF Paid
      <3>2. CASE payments = <<[seq |-> 1, state |-> "submitted"]>>
        BY <3>2 DEF Paid
      <3> QED BY <2>1, <3>1, <3>2
    <2>3. Cardinality(Paid) = 0
      BY <2>2, FS_EmptySet
    <2>4. MintOutcomes = {}
      BY DEF Init, MintOutcomes
    <2>5. job.status \notin Resting
      <3>1. NewJob(a).status = "CREATED"
        BY DEF NewJob
      <3>2. CASE job = NewJob(a)
        BY <3>1, <3>2 DEF Resting
      <3>3. CASE job = [NewJob(a) EXCEPT !.status = "XRPL_SIGNED", !.xrplTxHash = 1]
        BY <3>3 DEF NewJob, Resting
      <3> QED BY <2>1, <3>2, <3>3
    <2> QED BY <2>3, <2>4, <2>5 DEF Abstract!PInit, Minted
  <1>4. PromiseInv /\ [Next]_vars => [Abstract!PNext]_(Abstract!promise)
    BY StepKeepsPromise
  <1> QED BY <1>1, <1>2, <1>3, <1>4, PTL DEF Spec, KeepsPromise, Abstract!Promise

\* What a row reports of a settlement is what the chain did, for a payment that was made.
THEOREM ReportsAreTrue ==
    ASSUME SingleSigner
    PROVE  Spec => []Abstract!ReportIsTrue
  <1>1. Abstract!PInit => Abstract!ReportIsTrue
    BY DEF Abstract!PInit, Abstract!ReportIsTrue, Abstract!Settled
  <1>2. Abstract!ReportIsTrue /\ [Abstract!PNext]_(Abstract!promise) => Abstract!ReportIsTrue'
    BY DEF Abstract!ReportIsTrue, Abstract!PNext, Abstract!Pay, Abstract!Mint,
           Abstract!Report, Abstract!Settled, Abstract!promise
  <1> QED BY <1>1, <1>2, PipelineKeepsPromise, PTL DEF KeepsPromise, Abstract!Promise

\* A reported settlement is the last word of a row.
THEOREM SettlementsAreFinal ==
    ASSUME SingleSigner
    PROVE  Spec => Abstract!SettlementIsFinal
  <1>1. [Abstract!PNext]_(Abstract!promise) =>
            [Abstract!SettledStays]_(Abstract!promise)
    BY DEF Abstract!PNext, Abstract!Pay, Abstract!Mint, Abstract!Report, Abstract!Settled,
           Abstract!SettledStays, Abstract!promise
  <1> QED BY <1>1, PipelineKeepsPromise, PTL
          DEF KeepsPromise, Abstract!Promise, Abstract!SettlementIsFinal

---------------------------------------------------------------------------
(* Any number of signers.  Each of them reads CREATED and signs once at    *)
(* most: whoever reads the row after the first signature finds it signed.  *)

Signing == {p \in Signers : pc[p] = "sign"}

SignBound ==
    /\ job.status = "CREATED" => payments = <<>>
    /\ \/ Len(payments) <= 1 /\ Signing = {}
       \/ Len(payments) + Cardinality(Signing) <= Cardinality(Signers)

\* A row that a step leaves CREATED was CREATED before.
LEMMA CreatedBefore ==
    ASSUME TypeInv, [Next]_vars, job'.status = "CREATED"
    PROVE  job.status = "CREATED"
  <1> USE DEF row
  <1>1. RowStep /\ TypeOK /\ job.status \in MintStatuses
    BY NextRowStep DEF TypeInv, TypeOK, Job
  <1>2. CASE UNCHANGED row
    BY <1>2
  <1>3. CASE \E p \in Procs : Caught(p)
    BY <1>1, <1>3, CaughtRow
  <1>4. CASE \E patched \in Job : Writes(patched)
    BY <1>1, <1>4, NeverCreatedAgain DEF Writes
  <1> QED BY <1>1, <1>2, <1>3, <1>4 DEF RowStep

\* A step leaves the signers at the await where they are, brings one there from a row
\* that is CREATED, or takes one away with his signature.
LEMMA SigningStep ==
    ASSUME TypeInv, [Next]_vars
    PROVE  \/ Len(payments') = Len(payments) /\ (Signing' \subseteq Signing)
           \/ UNCHANGED <<payments, job>> /\ job.status = "CREATED"
           \/ /\ Len(payments') = Len(payments) + 1
              /\ \E p \in Signing : Signing' = Signing \ {p}
              /\ job.status = "CREATED" => job'.status # "CREATED"
  <1> USE DEF row, process, world
  <1>0. /\ TypeOK /\ payments \in Seq([seq : Nat, state : PaymentStates])
        /\ Len(payments) \in Nat
    BY LenProperties DEF TypeInv, TypeOK
  <1>1. ASSUME NEW p \in Procs, Read(p), job.status = "CREATED"
        PROVE  UNCHANGED <<payments, job>>
    BY <1>1 DEF Read
  <1>2. ASSUME NEW p \in Procs, NEW l, l # "sign", pc' = [pc EXCEPT ![p] = l]
        PROVE  Signing' = Signing \ {p}
    BY <1>0, <1>2 DEF Signing, TypeOK, Procs
  <1>3. ASSUME NEW p \in Procs, Sign(p)
        PROVE  /\ Len(payments') = Len(payments) + 1
               /\ p \in Signing /\ Signing' = Signing \ {p}
               /\ job.status = "CREATED" => job'.status # "CREATED"
    <2> DEFINE patched == [job EXCEPT !.status = "XRPL_SIGNED",
                                      !.xrplTxHash = Len(payments) + 1, !.txBlob = TRUE]
    <2>1. Transition(p, patched, "top") /\ p \in Signing
      BY <1>3 DEF Sign, Signing
    <2>2. Len(payments') = Len(payments) + 1
      BY <1>0, <1>3 DEF Sign
    <2>3. \E l \in {"top", "idle"} : pc' = [pc EXCEPT ![p] = l]
      BY <2>1 DEF Transition, Goto, Caught, Leave
    <2>4. job.status = "CREATED" => job'.status # "CREATED"
      <3>1. patched.status = "XRPL_SIGNED"
        BY <1>0 DEF TypeOK, Job
      <3>2. job.status = "CREATED" => CanTransition(job.status, patched.status)
        BY <3>1 DEF CanTransition, Transitions
      <3> HIDE DEF patched
      <3> QED BY <2>1, <3>1, <3>2 DEF Transition
    <2>5. Signing' = Signing \ {p}
      BY <1>2, <2>3
    <2> QED BY <2>1, <2>2, <2>4, <2>5
  <1>4. ASSUME NEW p \in Procs, Read(p), job.status # "CREATED"
        PROVE  UNCHANGED payments /\ (Signing' \subseteq Signing)
    <2>1. \E l : l # "sign" /\ pc' = [pc EXCEPT ![p] = l]
      <3>1. \A s \in DOMAIN Branch : s # "CREATED" => Branch[s] # "sign"
        BY DEF Branch
      <3> QED BY <1>4, <3>1 DEF Read, Leave
    <2> QED BY <1>2, <1>4, <2>1 DEF Read
  <1>5. ASSUME NEW p \in Procs,
               \/ StartExecutor(p) \/ StartWorker(p) \/ Crash(p) \/ Throw(p)
               \/ AwaitFinality(p) \/ CheckpointFdcTx(p) \/ OwnRound(p) \/ ResolveRound(p)
               \/ AwaitProof(p) \/ Simulate(p) \/ BypassSimulation(p) \/ Broadcast(p)
               \/ RequestAttestation(p) \/ CheckpointMintTx(p) \/ AwaitReceipt(p)
               \/ Reconcile(p)
        PROVE  UNCHANGED payments /\ (Signing' \subseteq Signing)
    <2>1. UNCHANGED payments
      BY <1>5 DEF StartExecutor, StartWorker, Crash, Throw, AwaitFinality,
             CheckpointFdcTx, OwnRound, ResolveRound, AwaitProof, Simulate,
             BypassSimulation, Broadcast, RequestAttestation, CheckpointMintTx,
             AwaitReceipt, Reconcile
    <2>2. \E l : l # "sign" /\ pc' = [pc EXCEPT ![p] = l]
      BY <1>5 DEF StartExecutor, StartWorker, Crash, Throw, AwaitFinality,
             CheckpointFdcTx, OwnRound, ResolveRound, AwaitProof, Simulate,
             BypassSimulation, Broadcast, RequestAttestation, CheckpointMintTx,
             AwaitReceipt, Reconcile, ClassifyReceipt, Transition, Caught, Goto, Leave
    <2> QED BY <1>2, <2>1, <2>2
  <1>6. ASSUME NEW p \in Procs, SubmitPayment(p)
        PROVE  Len(payments') = Len(payments) /\ (Signing' \subseteq Signing)
    <2>1. DOMAIN payments' = DOMAIN payments /\ pc' = [pc EXCEPT ![p] = "finality"]
      BY <1>6 DEF SubmitPayment, Goto
    <2>2. Len(payments') = Len(payments)
      BY <1>0, <2>1, NextTypeInv, SameLength DEF TypeInv, TypeOK
    <2> QED BY <1>2, <2>1, <2>2
  <1>7. ASSUME Environment \/ UNCHANGED vars
        PROVE  Len(payments') = Len(payments) /\ (Signing' \subseteq Signing)
    <2>1. DOMAIN payments' = DOMAIN payments /\ UNCHANGED pc
      BY <1>7 DEF Environment, SettlePayment, MineFdcRequest, MineMint, PassDelay, vars
    <2>2. Len(payments') = Len(payments)
      BY <1>0, <2>1, NextTypeInv, SameLength DEF TypeInv, TypeOK
    <2> QED BY <2>1, <2>2 DEF Signing
  <1> QED BY <1>1, <1>3, <1>4, <1>5, <1>6, <1>7 DEF Next, Step

LEMMA NextSignBound ==
    ASSUME IsFiniteSet(Signers)
    PROVE  TypeInv /\ SignBound /\ [Next]_vars => SignBound'
  <1> SUFFICES ASSUME TypeInv, SignBound, [Next]_vars PROVE SignBound'
    OBVIOUS
  <1>0. /\ Len(payments) \in Nat /\ Len(payments') \in Nat
        /\ payments' = <<>> <=> Len(payments') = 0
        /\ payments = <<>> <=> Len(payments) = 0
    BY NextTypeInv, LenProperties, EmptySeq DEF TypeInv, TypeOK
  <1>1. /\ IsFiniteSet(Signing) /\ IsFiniteSet(Signing')
        /\ Cardinality(Signing) \in Nat /\ Cardinality(Signing') \in Nat
        /\ Cardinality(Signers) \in Nat
        /\ Cardinality(Signing') <= Cardinality(Signers)
    <2>1. Signing \subseteq Signers /\ (Signing' \subseteq Signers)
      BY DEF Signing
    <2> QED BY <2>1, FS_Subset, FS_CardinalityType
  <1>2. job'.status = "CREATED" => job.status = "CREATED"
    BY CreatedBefore
  <1>3. CASE Len(payments') = Len(payments) /\ (Signing' \subseteq Signing)
    <2>1. Cardinality(Signing') <= Cardinality(Signing)
      BY <1>1, <1>3, FS_Subset
    <2>2. Signing = {} => Signing' = {}
      BY <1>3
    <2> QED BY <1>0, <1>1, <1>2, <1>3, <2>1, <2>2 DEF SignBound
  <1>4. CASE UNCHANGED <<payments, job>> /\ job.status = "CREATED"
    BY <1>0, <1>1, <1>4 DEF SignBound
  <1>5. CASE /\ Len(payments') = Len(payments) + 1
             /\ \E p \in Signing : Signing' = Signing \ {p}
             /\ job.status = "CREATED" => job'.status # "CREATED"
    <2>1. PICK p \in Signing : Signing' = Signing \ {p}
      BY <1>5
    <2>2. Cardinality(Signing') = Cardinality(Signing) - 1
      BY <1>1, <2>1, FS_RemoveElement
    <2>3. Signing # {}
      BY <2>1
    <2>4. Len(payments') + Cardinality(Signing') <= Cardinality(Signers)
      BY <1>0, <1>1, <1>5, <2>2, <2>3 DEF SignBound
    <2> QED BY <1>2, <1>5, <2>4 DEF SignBound
  <1> QED BY <1>3, <1>4, <1>5, SigningStep

\* However many processes sign, crash and start again, they sign no more payments than
\* there are processes that may sign; a payment signed in Xaman is the only one.
PaymentPerSigner == Len(payments) <= 1 \/ Len(payments) <= Cardinality(Signers)

THEOREM PaymentsBounded ==
    ASSUME IsFiniteSet(Signers)
    PROVE  Spec => []PaymentPerSigner
  <1>1. Init => SignBound
    <2> SUFFICES ASSUME Init PROVE SignBound
      OBVIOUS
    <2>1. Signing = {} /\ Cardinality({}) = 0
      <3>1. \A p \in Signers : pc[p] = "idle"
        BY DEF Init, Procs
      <3>2. Signing = {}
        BY <3>1 DEF Signing
      <3> QED BY <3>2, FS_EmptySet
    <2>2. PICK a \in AllowFlareRevert :
             \/ job = NewJob(a) /\ payments = <<>>
             \/ /\ job = [NewJob(a) EXCEPT !.status = "XRPL_SIGNED", !.xrplTxHash = 1]
                /\ payments = <<[seq |-> 1, state |-> "submitted"]>>
      BY DEF Init
    <2>3. CASE payments = <<>>
      BY <2>1, <2>3 DEF SignBound
    <2>4. CASE /\ job = [NewJob(a) EXCEPT !.status = "XRPL_SIGNED", !.xrplTxHash = 1]
               /\ payments = <<[seq |-> 1, state |-> "submitted"]>>
      <3>1. Len(payments) = 1
        BY <2>4
      <3>2. job.status = "XRPL_SIGNED"
        BY <2>4 DEF NewJob
      <3> QED BY <2>1, <3>1, <3>2 DEF SignBound
    <2> QED BY <2>2, <2>3, <2>4
  <1>2. TypeInv /\ SignBound /\ [Next]_vars => SignBound'
    BY NextSignBound
  <1>3. TypeInv /\ SignBound => PaymentPerSigner
    <2> SUFFICES ASSUME TypeInv, SignBound PROVE PaymentPerSigner
      OBVIOUS
    <2>1. Cardinality(Signing) \in Nat /\ Cardinality(Signers) \in Nat
      BY FS_Subset, FS_CardinalityType DEF Signing
    <2>2. Len(payments) \in Nat
      BY LenProperties DEF TypeInv, TypeOK
    <2> QED BY <2>1, <2>2 DEF SignBound, PaymentPerSigner
  <1> QED BY <1>1, <1>2, <1>3, InitTypeInv, NextTypeInv, PTL DEF Spec

---------------------------------------------------------------------------
(* The timeline of a row.  Each step it shows as completed is backed by a   *)
(* column that some process wrote on the strength of what it had read or    *)
(* sent; the invariant ties those columns, and the readers' copies of them, *)
(* to the chains.                                                           *)

\* The statuses once the payment is final, the attestation is asked for, its proof is
\* there, and the mint is broadcast.  Each of the first three is never left.
PastFinality == MintStatuses \ {"CREATED", "XRPL_SIGNED"}
PastRequest  == PastFinality \ {"XRPL_FINALIZED"}
PastProof    == PastRequest \ {"FDC_REQUESTED"}
PastMint     == {"FLARE_SUBMITTED", "DELAYED", "SETTLED_SUCCESS", "SETTLED_FALLBACK",
                 "RECOVERY_REQUIRED"}

\* Transaction h asks for the attestation of the payment, and has obtained a round.
Requested(h) == h \in DOMAIN fdcTxs /\ fdcTxs[h].pay = 1
Attested(h)  == Requested(h) /\ fdcTxs[h].state = "mined"

PaymentFinal == 1 \in DOMAIN payments /\ payments[1].state = "validated"

\* What the columns of the row say of the chains.
ColumnsBacked ==
    /\ job.status \notin {"CREATED", "FAILED"} => 1 \in DOMAIN payments
    /\ job.status \in PastFinality \ {"FAILED"} => PaymentFinal
    /\ job.status \in PastRequest \ {"FAILED"} => Requested(job.fdcTxHash)
    /\ job.votingRound # 0 => Attested(job.votingRound)
    /\ job.status \in PastProof \ {"FAILED"} => job.votingRound # 0
    /\ job.status \in PastMint => job.flareTxHash \in DOMAIN mintTxs

\* What process p has sent or read of the attestation, and how far the row is then.
ReaderBacked(p) ==
    /\ pc[p] \in {"attested", "ownRound"} => Requested(sent[p])
    /\ pc[p] \in {"ownRound", "resolve"} => job.status \in PastRequest
    /\ pc[p] = "resolve" => Requested(seen[p].fdcTxHash)
    /\ seen[p].votingRound # 0 => job.votingRound # 0

ReadersBacked == \A p \in Procs : ReaderBacked(p)

TimelineInv == SettleInv /\ ColumnsBacked /\ ReadersBacked

\* The chains' records of a payment and of its attestation are never taken back.
LEMMA PaymentStays ==
    ASSUME TypeInv, [Next]_vars
    PROVE  /\ 1 \in DOMAIN payments => 1 \in DOMAIN payments'
           /\ PaymentFinal => PaymentFinal'
  <1> USE DEF row, process, world
  <1>0. /\ payments \in Seq([seq : Nat, state : PaymentStates])
        /\ DOMAIN payments = 1 .. Len(payments) /\ Len(payments) \in Nat
    BY DEF TypeInv, TypeOK
  <1>1. CASE UNCHANGED payments
    BY <1>1 DEF PaymentFinal
  <1>2. ASSUME NEW p \in Procs, Sign(p)
        PROVE  \A x \in DOMAIN payments : x \in DOMAIN payments' /\ payments'[x] = payments[x]
    <2> DEFINE e == [seq |-> AccountSequence, state |-> "signed"]
    <2>1. payments' = Append(payments, e)
      BY <1>2 DEF Sign
    <2> HIDE DEF e
    <2> QED BY <1>0, <2>1
  <1>3. ASSUME NEW p \in Procs, SubmitPayment(p)
        PROVE  /\ DOMAIN payments' = DOMAIN payments
               /\ PaymentFinal => payments'[1].state = "validated"
    <2> DEFINE x == seen[p].xrplTxHash
               st == Submitted(payments[x].state, seen[p].txBlob)
    <2>1. payments' = [payments EXCEPT ![x].state = st]
      BY <1>3 DEF SubmitPayment
    <2>2. payments[x].state = "validated" => st = "validated"
      BY DEF Submitted
    <2> HIDE DEF x, st
    <2>3. DOMAIN payments' = DOMAIN payments
      BY <2>1
    <2>4. ASSUME PaymentFinal PROVE payments'[1].state = "validated"
      <3>1. payments[1] \in [seq : Nat, state : PaymentStates] /\ 1 \in DOMAIN payments
        BY <1>0, <2>4, ElementOfSeq DEF PaymentFinal
      <3>2. CASE x = 1
        <4>1. payments'[1] = [payments[1] EXCEPT !.state = st]
          BY <2>1, <3>1, <3>2
        <4> QED BY <2>2, <2>4, <3>1, <3>2, <4>1 DEF PaymentFinal
      <3>3. CASE x # 1
        BY <2>1, <2>4, <3>1, <3>3 DEF PaymentFinal
      <3> QED BY <3>2, <3>3
    <2> QED BY <2>3, <2>4
  <1>4. ASSUME NEW x \in DOMAIN payments, SettlePayment(x)
        PROVE  /\ DOMAIN payments' = DOMAIN payments
               /\ PaymentFinal => payments'[1] = payments[1]
    <2>1. /\ payments[x].state = "submitted"
          /\ \E s : payments' = [payments EXCEPT ![x].state = s]
      BY <1>4 DEF SettlePayment
    <2> QED BY <2>1 DEF PaymentFinal
  <1>5. \/ UNCHANGED payments
        \/ \E p \in Procs : Sign(p) \/ SubmitPayment(p)
        \/ \E x \in DOMAIN payments : SettlePayment(x)
    BY DEF Next, Step, Environment, StartExecutor, StartWorker, Crash, Throw, Read,
           AwaitFinality, RequestAttestation, CheckpointFdcTx, OwnRound, ResolveRound,
           AwaitProof, Simulate, BypassSimulation, Broadcast, CheckpointMintTx,
           AwaitReceipt, Reconcile, MineFdcRequest, MineMint, PassDelay, vars
  <1> QED BY <1>1, <1>2, <1>3, <1>4, <1>5 DEF PaymentFinal

LEMMA RequestStays ==
    ASSUME TypeInv, [Next]_vars, NEW h
    PROVE  (Requested(h) => Requested(h)') /\ (Attested(h) => Attested(h)')
  <1> USE DEF row, process, world
  <1>0. /\ fdcTxs \in Seq([pay : Nat, state : {"pending", "mined", "reverted"}])
        /\ DOMAIN fdcTxs = 1 .. Len(fdcTxs) /\ Len(fdcTxs) \in Nat
    BY DEF TypeInv, TypeOK
  <1>1. CASE UNCHANGED fdcTxs
    BY <1>1 DEF Requested, Attested
  <1>2. ASSUME NEW p \in Procs, RequestAttestation(p)
        PROVE  \A f \in DOMAIN fdcTxs : f \in DOMAIN fdcTxs' /\ fdcTxs'[f] = fdcTxs[f]
    <2> DEFINE e == [pay |-> seen[p].xrplTxHash, state |-> "pending"]
    <2>1. fdcTxs' = Append(fdcTxs, e)
      BY <1>2 DEF RequestAttestation
    <2> HIDE DEF e
    <2> QED BY <1>0, <2>1
  <1>3. ASSUME NEW f \in DOMAIN fdcTxs, MineFdcRequest(f)
        PROVE  (Requested(h) => Requested(h)') /\ (Attested(h) => Attested(h)')
    <2>1. /\ fdcTxs[f].state = "pending"
          /\ \E s : fdcTxs' = [fdcTxs EXCEPT ![f].state = s]
      BY <1>3 DEF MineFdcRequest
    <2>2. fdcTxs[f] \in [pay : Nat, state : {"pending", "mined", "reverted"}]
      BY <1>0, ElementOfSeq
    <2>3. DOMAIN fdcTxs' = DOMAIN fdcTxs /\ fdcTxs'[f].pay = fdcTxs[f].pay
      BY <2>1, <2>2
    <2>4. \A g \in DOMAIN fdcTxs : g # f => fdcTxs'[g] = fdcTxs[g]
      BY <2>1
    <2> QED BY <2>1, <2>3, <2>4 DEF Requested, Attested
  <1>4. \/ UNCHANGED fdcTxs
        \/ \E p \in Procs : RequestAttestation(p)
        \/ \E f \in DOMAIN fdcTxs : MineFdcRequest(f)
    BY DEF Next, Step, Environment, StartExecutor, StartWorker, Crash, Throw, Read, Sign,
           SubmitPayment, AwaitFinality, CheckpointFdcTx, OwnRound, ResolveRound,
           AwaitProof, Simulate, BypassSimulation, Broadcast, CheckpointMintTx,
           AwaitReceipt, Reconcile, SettlePayment, MineMint, PassDelay, vars
  <1> QED BY <1>1, <1>2, <1>3, <1>4 DEF Requested, Attested

\* An attested request has a round, and 0 is none.
LEMMA AttestedIsRound ==
    ASSUME TypeInv, NEW h, Requested(h)
    PROVE  h \in Nat /\ h # 0
  <1>1. DOMAIN fdcTxs = 1 .. Len(fdcTxs) /\ Len(fdcTxs) \in Nat
    BY DEF TypeInv, TypeOK
  <1> QED BY <1>1 DEF Requested

\* The catch block changes no column but the status.
RowGivenUp ==
    /\ job'.status \in {job.status, "FAILED"}
    /\ job'.fdcTxHash = job.fdcTxHash
    /\ job'.votingRound = job.votingRound
    /\ job'.flareTxHash = job.flareTxHash

\* The row a transition writes: each column it sets is a transaction of the chains,
\* and each status it enters has what the status needs.
RowBacked ==
    /\ CanTransition(job.status, job'.status)
    /\ job'.status = "XRPL_SIGNED" => 1 \in DOMAIN payments'
    /\ job'.status = "XRPL_FINALIZED" => PaymentFinal
    /\ \/ Requested(job'.fdcTxHash)
       \/ job'.fdcTxHash = job.fdcTxHash /\ job'.status # "FDC_REQUESTED"
    /\ \/ Attested(job'.votingRound)
       \/ job'.votingRound = job.votingRound /\ job'.status # "PROOF_READY"
    /\ \/ job'.flareTxHash \in DOMAIN mintTxs
       \/ job'.flareTxHash = job.flareTxHash /\ job'.status # "FLARE_SUBMITTED"

LEMMA CaughtGivesUp ==
    ASSUME TypeInv, NEW p \in Procs, Caught(p)
    PROVE  RowGivenUp
  <1>1. job' = job \/ \E st \in {job.status, "FAILED"} : job' = [job EXCEPT !.status = st]
    BY DEF Caught, row
  <1> QED BY <1>1 DEF TypeInv, TypeOK, Job, RowGivenUp

\* A transition that goes through: the row is the one it was to write.
LEMMA TransitionWrites ==
    ASSUME NEW p \in Procs, NEW patched, NEW next, Transition(p, patched, next) \/ Caught(p),
           ~Caught(p)
    PROVE  CanTransition(job.status, patched.status) /\ job' = patched
  BY DEF Transition

\* A process that has the proof has read a round, and then the row has one too.
LEMMA ProofSeenIsRound ==
    ASSUME TimelineInv, NEW p \in Procs, ProofSeen(p)
    PROVE  Attested(job.votingRound)
  <1>1. TypeInv
    BY DEF TimelineInv, SettleInv, PayInv
  <1>2. DOMAIN fdcTxs = 1 .. Len(fdcTxs) /\ Len(fdcTxs) \in Nat
    BY <1>1 DEF TypeInv, TypeOK
  <1>3. seen[p].votingRound \in DOMAIN fdcTxs
    BY DEF ProofSeen, ProofAvailable
  <1>4. seen[p].votingRound # 0
    BY <1>2, <1>3
  <1>5. job.votingRound # 0
    BY <1>4 DEF TimelineInv, ReadersBacked, ReaderBacked
  <1> QED BY <1>5 DEF TimelineInv, ColumnsBacked

\* Every step leaves the row, gives it up or writes a backed one.
LEMMA NextRowBacked ==
    ASSUME SingleSigner, TimelineInv, [Next]_vars
    PROVE  UNCHANGED job \/ RowGivenUp \/ RowBacked
  <1> USE DEF row, process, world
  <1>0. TypeInv /\ TypeOK /\ job \in Job /\ PayInv /\ ReadersNamePayment
    BY DEF TimelineInv, SettleInv, PayInv, TypeInv, TypeOK
  <1>1. ASSUME NEW p \in Procs, Caught(p)
        PROVE  RowGivenUp
    BY <1>0, <1>1, CaughtGivesUp
  <1>2. ASSUME NEW p \in Procs, ~Caught(p), Sign(p)
        PROVE  RowBacked
    <2> DEFINE patched == [job EXCEPT !.status = "XRPL_SIGNED",
                                      !.xrplTxHash = Len(payments) + 1, !.txBlob = TRUE]
               e == [seq |-> AccountSequence, state |-> "signed"]
    <2>1. Transition(p, patched, "top") /\ payments' = Append(payments, e)
      BY <1>2 DEF Sign
    <2>2. job.status = "CREATED" /\ payments = <<>>
      BY <1>0, <1>2 DEF Sign, PayInv, SigningIsCurrent, SignedIsRecorded
    <2>3. 1 \in DOMAIN payments'
      BY <2>1, <2>2
    <2>4. CanTransition(job.status, patched.status) /\ job' = patched
      BY <1>2, <2>1, TransitionWrites
    <2>5. /\ job'.status = "XRPL_SIGNED" /\ job'.fdcTxHash = job.fdcTxHash
          /\ job'.votingRound = job.votingRound /\ job'.flareTxHash = job.flareTxHash
      BY <1>0, <2>4 DEF Job
    <2> HIDE DEF patched
    <2> QED BY <2>3, <2>4, <2>5 DEF RowBacked
  <1>3. ASSUME NEW p \in Procs, ~Caught(p), AwaitFinality(p)
        PROVE  RowBacked
    <2> DEFINE patched == [job EXCEPT !.status = "XRPL_FINALIZED"]
    <2>1. Transition(p, patched, "top") /\ payments[seen[p].xrplTxHash].state = "validated"
      BY <1>3 DEF AwaitFinality, PaysCoreVault
    <2>2. seen[p].xrplTxHash = 1
      BY <1>0, <1>3 DEF AwaitFinality, ReadersNamePayment, Past
    <2>3. job.status # "CREATED" /\ job.status # "FAILED"
      <3>1. CanTransition(job.status, "XRPL_FINALIZED")
        BY <1>0, <1>3, <2>1, TransitionWrites DEF Job
      <3> QED BY <3>1 DEF CanTransition, Transitions
    <2>4. PaymentFinal
      BY <2>1, <2>2, <2>3 DEF PaymentFinal, TimelineInv, ColumnsBacked
    <2>5. CanTransition(job.status, patched.status) /\ job' = patched
      BY <1>3, <2>1, TransitionWrites
    <2>6. /\ job'.status = "XRPL_FINALIZED" /\ job'.fdcTxHash = job.fdcTxHash
          /\ job'.votingRound = job.votingRound /\ job'.flareTxHash = job.flareTxHash
      BY <1>0, <2>5 DEF Job
    <2> HIDE DEF patched
    <2> QED BY <2>4, <2>5, <2>6 DEF RowBacked
  <1>4. ASSUME NEW p \in Procs, ~Caught(p), CheckpointFdcTx(p)
        PROVE  RowBacked
    <2> DEFINE patched == [job EXCEPT !.status = "FDC_REQUESTED",
                                      !.fdcRequest = seen[p].xrplTxHash,
                                      !.fdcTxHash = sent[p]]
    <2>1. Transition(p, patched, "ownRound")
      BY <1>4 DEF CheckpointFdcTx
    <2>2. CanTransition(job.status, patched.status) /\ job' = patched
      BY <1>4, <2>1, TransitionWrites
    <2>3. /\ job'.status = "FDC_REQUESTED" /\ job'.fdcTxHash = sent[p]
          /\ job'.votingRound = job.votingRound /\ job'.flareTxHash = job.flareTxHash
      BY <1>0, <2>2 DEF Job
    <2>4. Requested(sent[p])
      BY <1>4 DEF CheckpointFdcTx, TimelineInv, ReadersBacked, ReaderBacked
    <2> HIDE DEF patched
    <2> QED BY <2>2, <2>3, <2>4 DEF RowBacked
  <1>5. ASSUME NEW p \in Procs, ~Caught(p), OwnRound(p) \/ ResolveRound(p)
        PROVE  RowBacked
    <2> DEFINE h == IF pc[p] = "ownRound" THEN sent[p] ELSE seen[p].fdcTxHash
    <2>1. \/ job' = [job EXCEPT !.status = "FDC_REQUESTED",
                                !.fdcRequest = seen[p].xrplTxHash, !.votingRound = sent[p]]
             /\ pc[p] = "ownRound"
          \/ job' = [job EXCEPT !.status = "FDC_REQUESTED",
                                !.votingRound = seen[p].fdcTxHash]
             /\ pc[p] = "resolve"
      BY <1>5 DEF OwnRound, ResolveRound, Transition
    <2>2. /\ job'.status = "FDC_REQUESTED" /\ job'.votingRound = h
          /\ job'.fdcTxHash = job.fdcTxHash /\ job'.flareTxHash = job.flareTxHash
      BY <1>0, <2>1 DEF Job
    <2>3. CanTransition(job.status, "FDC_REQUESTED")
      <3>1. CASE ResolveRound(p)
        BY <1>5, <3>1 DEF ResolveRound
      <3>2. CASE OwnRound(p)
        <4> DEFINE patched == [job EXCEPT !.status = "FDC_REQUESTED",
                                !.fdcRequest = seen[p].xrplTxHash, !.votingRound = sent[p]]
        <4>1. CanTransition(job.status, patched.status)
          BY <1>5, <3>2 DEF OwnRound, Transition
        <4>2. patched.status = "FDC_REQUESTED"
          BY <1>0 DEF Job
        <4> QED BY <4>1, <4>2
      <3> QED BY <1>5, <3>1, <3>2
    <2>4. Requested(h) /\ job.status \in PastRequest
      BY <2>1 DEF TimelineInv, ReadersBacked, ReaderBacked
    <2>5. fdcTxs[h].state = "mined"
      BY <1>5 DEF OwnRound, ResolveRound
    <2>6. job.status = "FDC_REQUESTED"
      BY <2>3, <2>4 DEF PastRequest, PastFinality, CanTransition, Transitions, MintStatuses
    <2>7. Requested(job.fdcTxHash)
      BY <2>4, <2>6 DEF TimelineInv, ColumnsBacked
    <2> HIDE DEF h
    <2> QED BY <2>2, <2>3, <2>4, <2>5, <2>7 DEF RowBacked, Attested
  <1>6. ASSUME NEW p \in Procs, ~Caught(p),
               AwaitProof(p) \/ Simulate(p) \/ BypassSimulation(p)
        PROVE  RowBacked
    <2> DEFINE n == IF job.simulationAttempts < MaxMints
                    THEN job.simulationAttempts + 1 ELSE job.simulationAttempts
    <2>1. \E st \in {"PROOF_READY", "SIMULATION_PASSED", "DELAYED"} :
             \/ Transition(p, [job EXCEPT !.status = st], "top")
             \/ Transition(p, [job EXCEPT !.status = st, !.simulationAttempts = n], "broadcast")
             \/ Transition(p, [job EXCEPT !.status = st], "broadcast")
      <3>1. BypassSimulation(p) => seen[p].status \in {"PROOF_READY", "SIMULATION_PASSED", "DELAYED"}
        BY <1>0 DEF BypassSimulation, TypeInv, MintFromReady
      <3> HIDE DEF n
      <3>2. Simulate(p) => Transition(p, [job EXCEPT !.status = "SIMULATION_PASSED",
                                          !.simulationAttempts = n], "broadcast")
        BY DEF Simulate, n
      <3>3. AwaitProof(p) => Transition(p, [job EXCEPT !.status = "PROOF_READY"], "top")
        BY DEF AwaitProof
      <3>4. BypassSimulation(p) =>
                Transition(p, [job EXCEPT !.status = seen[p].status], "broadcast")
        BY DEF BypassSimulation
      <3> QED BY <1>6, <3>1, <3>2, <3>3, <3>4
    <2> HIDE DEF n
    <2>2. PICK st \in {"PROOF_READY", "SIMULATION_PASSED", "DELAYED"} :
             \/ Transition(p, [job EXCEPT !.status = st], "top")
             \/ Transition(p, [job EXCEPT !.status = st, !.simulationAttempts = n], "broadcast")
             \/ Transition(p, [job EXCEPT !.status = st], "broadcast")
      BY <2>1
    <2> DEFINE r1 == [job EXCEPT !.status = st]
               r2 == [job EXCEPT !.status = st, !.simulationAttempts = n]
    <2>3. /\ r1.status = st /\ r1.fdcTxHash = job.fdcTxHash
          /\ r1.votingRound = job.votingRound /\ r1.flareTxHash = job.flareTxHash
          /\ r2.status = st /\ r2.fdcTxHash = job.fdcTxHash
          /\ r2.votingRound = job.votingRound /\ r2.flareTxHash = job.flareTxHash
      BY <1>0 DEF Job
    <2>4. \/ CanTransition(job.status, r1.status) /\ job' = r1
          \/ CanTransition(job.status, r2.status) /\ job' = r2
      BY <1>6, <2>2, TransitionWrites
    <2> HIDE DEF r1, r2
    <2>5. /\ CanTransition(job.status, st)
          /\ job'.status = st /\ job'.fdcTxHash = job.fdcTxHash
          /\ job'.votingRound = job.votingRound /\ job'.flareTxHash = job.flareTxHash
      BY <2>3, <2>4
    <2>6. Attested(job.votingRound)
      BY <1>6, ProofSeenIsRound DEF AwaitProof, Simulate, BypassSimulation
    <2> QED BY <2>5, <2>6 DEF RowBacked
  <1>7. ASSUME NEW p \in Procs, ~Caught(p), CheckpointMintTx(p)
        PROVE  RowBacked
    <2> DEFINE patched == [job EXCEPT !.status = "FLARE_SUBMITTED", !.flareTxHash = sent[p]]
    <2>1. Transition(p, patched, "receipt")
      BY <1>7 DEF CheckpointMintTx
    <2>2. CanTransition(job.status, patched.status) /\ job' = patched
      BY <1>7, <2>1, TransitionWrites
    <2>3. /\ job'.status = "FLARE_SUBMITTED" /\ job'.fdcTxHash = job.fdcTxHash
          /\ job'.votingRound = job.votingRound /\ job'.flareTxHash = sent[p]
      BY <1>0, <2>2 DEF Job
    <2>4. sent[p] \in DOMAIN mintTxs
      BY <1>0, <1>7 DEF CheckpointMintTx, TypeInv, SentIsBroadcast
    <2> HIDE DEF patched
    <2> QED BY <2>2, <2>3, <2>4 DEF RowBacked
  <1>8. ASSUME NEW p \in Procs, ~Caught(p), AwaitReceipt(p) \/ Reconcile(p)
        PROVE  RowBacked
    <2> DEFINE o == mintTxs[sent[p]].state
               at == IF o = "DELAYED" THEN delays ELSE job.executionAllowedAt
               patched == [job EXCEPT !.status = Settlement(o), !.executionAllowedAt = at]
    <2>1. Transition(p, patched, "top") /\ o # "pending"
      BY <1>8 DEF AwaitReceipt, Reconcile, ClassifyReceipt
    <2>2. o \in MintStates \ {"pending"}
      <3>1. DOMAIN mintTxs = 1 .. Len(mintTxs)
        BY <1>0 DEF TypeOK
      <3>2. sent[p] \in DOMAIN mintTxs
        BY <1>0, <1>8 DEF AwaitReceipt, Reconcile, TypeInv, SentIsBroadcast
      <3>3. mintTxs[sent[p]] \in [pay : Nat, state : MintStates]
        BY <1>0, <3>1, <3>2, ElementOfSeq DEF TypeOK
      <3> QED BY <2>1, <3>3
    <2>3. Settlement(o) \in {"DELAYED", "SETTLED_SUCCESS", "SETTLED_FALLBACK", "RECOVERY_REQUIRED"}
      BY <2>2 DEF Settlement, MintStates, Consumed
    <2> HIDE DEF o, at
    <2>4. CanTransition(job.status, patched.status) /\ job' = patched
      BY <1>8, <2>1, TransitionWrites
    <2>5. /\ job'.status = Settlement(o) /\ job'.fdcTxHash = job.fdcTxHash
          /\ job'.votingRound = job.votingRound /\ job'.flareTxHash = job.flareTxHash
      BY <1>0, <2>4 DEF Job
    <2> HIDE DEF patched
    <2> QED BY <2>3, <2>4, <2>5 DEF RowBacked
  <1>9. ASSUME NEW p \in Procs,
               \/ StartExecutor(p) \/ StartWorker(p) \/ Crash(p) \/ Read(p)
               \/ SubmitPayment(p) \/ RequestAttestation(p) \/ Broadcast(p)
        PROVE  UNCHANGED job
    BY <1>9 DEF StartExecutor, StartWorker, Crash, Read, SubmitPayment,
                RequestAttestation, Broadcast
  <1>10. ASSUME Environment \/ UNCHANGED vars
         PROVE  UNCHANGED job
    BY <1>10 DEF Environment, SettlePayment, MineFdcRequest, MineMint, PassDelay, vars
  <1>11. ASSUME NEW p \in Procs, Throw(p)
         PROVE  RowGivenUp
    BY <1>1, <1>11 DEF Throw
  <1> QED BY <1>1, <1>2, <1>3, <1>4, <1>5, <1>6, <1>7, <1>8, <1>9, <1>10, <1>11
          DEF Next, Step

\* What the columns say goes on being true, of the columns as they are then.
LEMMA NextColumnsBacked ==
    ASSUME SingleSigner, TimelineInv, [Next]_vars
    PROVE  ColumnsBacked'
  <1>0. /\ TypeInv /\ TypeInv' /\ ColumnsBacked /\ job.status \in MintStatuses
        /\ job'.status \in MintStatuses
    <2>1. TypeInv /\ TypeInv' /\ ColumnsBacked
      BY NextTypeInv DEF TimelineInv, SettleInv, PayInv
    <2> QED BY <2>1 DEF TypeInv, TypeOK, Job
  <1>1. /\ 1 \in DOMAIN payments => 1 \in DOMAIN payments'
        /\ PaymentFinal => PaymentFinal'
        /\ \A i \in DOMAIN mintTxs : i \in DOMAIN mintTxs'
    BY <1>0, PaymentStays, MinedStays
  <1>2. \A h : Requested(h) => h \in DOMAIN fdcTxs' /\ fdcTxs'[h].pay = 1
    BY <1>0, RequestStays DEF Requested
  <1>3. \A h : Attested(h) => /\ h \in DOMAIN fdcTxs' /\ fdcTxs'[h].pay = 1
                              /\ fdcTxs'[h].state = "mined"
    BY <1>0, RequestStays DEF Requested, Attested
  <1>4. CASE UNCHANGED job
    BY <1>0, <1>1, <1>2, <1>3, <1>4 DEF ColumnsBacked, Requested, Attested
  <1>5. CASE RowGivenUp
    <2>1. PastMint \cap {"FAILED"} = {}
      BY DEF PastMint
    <2> QED BY <1>0, <1>1, <1>2, <1>3, <1>5, <2>1 DEF ColumnsBacked, RowGivenUp, Requested, Attested
  <1>6. CASE RowBacked
    <2>0. CanTransition(job.status, job'.status)
      BY <1>6 DEF RowBacked
    <2>1. job'.status \notin {"CREATED", "FAILED"} => 1 \in DOMAIN payments'
      <3>1. job'.status \notin {"CREATED", "FAILED", "XRPL_SIGNED"} =>
                job.status \notin {"CREATED", "FAILED"}
        BY <1>0, <2>0 DEF CanTransition, Transitions, MintStatuses
      <3> QED BY <1>0, <1>1, <1>6, <3>1 DEF RowBacked, ColumnsBacked
    <2>2. job'.status \in PastFinality \ {"FAILED"} => PaymentFinal'
      <3>1. job'.status \in PastFinality \ {"FAILED", "XRPL_FINALIZED"} =>
                job.status \in PastFinality \ {"FAILED"}
        BY <1>0, <2>0 DEF CanTransition, Transitions, MintStatuses, PastFinality
      <3> QED BY <1>0, <1>1, <1>6, <3>1 DEF RowBacked, ColumnsBacked
    <2>3. job'.status \in PastRequest \ {"FAILED"} => Requested(job.fdcTxHash)'
      <3>1. job'.status \in PastRequest \ {"FAILED", "FDC_REQUESTED"} =>
                job.status \in PastRequest \ {"FAILED"}
        BY <1>0, <2>0 DEF CanTransition, Transitions, MintStatuses, PastFinality, PastRequest
      <3>2. job'.status \in PastRequest \ {"FAILED"} => Requested(job'.fdcTxHash)
        BY <1>0, <1>6, <3>1 DEF RowBacked, ColumnsBacked
      <3> QED BY <1>2, <3>2 DEF Requested
    <2>4. job'.votingRound # 0 => Attested(job.votingRound)'
      <3>1. job'.votingRound # 0 => Attested(job'.votingRound)
        BY <1>0, <1>6 DEF RowBacked, ColumnsBacked
      <3> QED BY <1>3, <3>1 DEF Attested, Requested
    <2>5. job'.status \in PastProof \ {"FAILED"} => job'.votingRound # 0
      <3>1. job'.status \in PastProof \ {"FAILED", "PROOF_READY"} =>
                job.status \in PastProof \ {"FAILED"}
        BY <1>0, <2>0 DEF CanTransition, Transitions, MintStatuses, PastFinality, PastRequest,
                          PastProof
      <3>2. Attested(job'.votingRound) => job'.votingRound # 0
        BY <1>0, AttestedIsRound DEF Attested
      <3> QED BY <1>0, <1>6, <3>1, <3>2 DEF RowBacked, ColumnsBacked
    <2>6. job'.status \in PastMint => job'.flareTxHash \in DOMAIN mintTxs'
      <3>1. job'.status \in PastMint \ {"FLARE_SUBMITTED"} => job.status \in PastMint
        BY <1>0, <2>0 DEF CanTransition, Transitions, MintStatuses, PastMint
      <3> QED BY <1>0, <1>1, <1>6, <3>1 DEF RowBacked, ColumnsBacked
    <2> QED BY <2>1, <2>2, <2>3, <2>4, <2>5, <2>6 DEF ColumnsBacked
  <1> QED BY <1>4, <1>5, <1>6, NextRowBacked

\* The row, once past the request, stays past it, and keeps a round once it has one.
LEMMA RowOnlyAdvances ==
    ASSUME SingleSigner, TimelineInv, [Next]_vars
    PROVE  /\ job.status \in PastRequest => job'.status \in PastRequest
           /\ job.votingRound # 0 => job'.votingRound # 0
  <1>0. TypeInv /\ job.status \in MintStatuses /\ job'.status \in MintStatuses
    <2>1. TypeInv /\ TypeInv'
      BY NextTypeInv DEF TimelineInv, SettleInv, PayInv
    <2> QED BY <2>1 DEF TypeInv, TypeOK, Job
  <1>1. CASE UNCHANGED job
    BY <1>1
  <1>2. CASE RowGivenUp
    BY <1>2 DEF RowGivenUp, PastRequest, PastFinality, MintStatuses
  <1>3. CASE RowBacked
    <2>1. job.status \in PastRequest => job'.status \in PastRequest
      BY <1>0, <1>3 DEF RowBacked, CanTransition, Transitions, MintStatuses, PastFinality,
                        PastRequest
    <2>2. Attested(job'.votingRound) => job'.votingRound # 0
      BY <1>0, AttestedIsRound DEF Attested
    <2> QED BY <1>3, <2>1, <2>2 DEF RowBacked
  <1> QED BY <1>1, <1>2, <1>3, NextRowBacked

\* How process q may come by what it has read and sent of the attestation.
Keeps(q) ==
    /\ seen'[q] = seen[q] \/ seen'[q] = NoRow
    /\ \/ pc'[q] = pc[q] /\ sent'[q] = sent[q] /\ seen'[q] = seen[q]
       \/ pc'[q] \notin {"attested", "ownRound", "resolve"}

HasRead(q) ==
    /\ seen'[q] = job /\ UNCHANGED job
    /\ pc'[q] \notin {"attested", "ownRound"}
    /\ pc'[q] = "resolve" => job.status = "FDC_REQUESTED"

HasAsked(q) ==
    /\ RequestAttestation(q)
    /\ pc'[q] = "attested" /\ seen'[q] = seen[q] /\ sent'[q] = Len(fdcTxs) + 1

HasRecorded(q) ==
    /\ pc[q] = "attested" /\ pc'[q] = "ownRound" /\ job'.status = "FDC_REQUESTED"
    /\ seen'[q] = seen[q] /\ sent'[q] = sent[q]

HasResolved(q) ==
    /\ pc'[q] = "awaitProof" /\ job'.votingRound = seen'[q].votingRound

LEMMA NextReader ==
    ASSUME TypeInv, [Next]_vars, NEW q \in Procs
    PROVE  Keeps(q) \/ HasRead(q) \/ HasAsked(q) \/ HasRecorded(q) \/ HasResolved(q)
  <1> USE DEF row, process, world
  <1>0. TypeOK
    BY DEF TypeInv
  <1>1. CASE UNCHANGED process
    BY <1>1 DEF Keeps
  <1>2. ASSUME NEW p \in Procs, p # q,
               \E l, r, t : /\ pc' = [pc EXCEPT ![p] = l] /\ seen' = [seen EXCEPT ![p] = r]
                            /\ sent' = [sent EXCEPT ![p] = t]
        PROVE  Keeps(q)
    BY <1>0, <1>2 DEF TypeOK, Keeps
  <1>3. ASSUME NEW p \in Procs, Leave(p)
        PROVE  Keeps(q)
    <2>1. p # q => Keeps(q)
      BY <1>2, <1>3 DEF Leave
    <2>2. p = q => pc'[q] = "idle" /\ seen'[q] = NoRow
      BY <1>0, <1>3 DEF Leave, TypeOK
    <2> QED BY <2>1, <2>2 DEF Keeps
  <1>4. ASSUME NEW p \in Procs, NEW l \in Labels \ {"attested", "ownRound", "resolve"},
               Goto(p, l)
        PROVE  Keeps(q)
    BY <1>0, <1>4 DEF Goto, TypeOK, Keeps
  <1>5. ASSUME NEW p \in Procs, Read(p)
        PROVE  Keeps(q) \/ HasRead(q)
    <2>1. CASE Leave(p)
      BY <1>3, <2>1
    <2>2. CASE ~Leave(p)
      <3> DEFINE next == IF job.status = "FDC_REQUESTED" /\ job.votingRound = 0
                         THEN "resolve" ELSE Branch[job.status]
                 tx == IF job.status = "FLARE_SUBMITTED" THEN job.flareTxHash ELSE 0
      <3>1. /\ job.status \in DOMAIN Branch
            /\ seen' = [seen EXCEPT ![p] = job]
            /\ sent' = [sent EXCEPT ![p] = tx]
            /\ pc' = [pc EXCEPT ![p] = next]
            /\ UNCHANGED job
        BY <1>5, <2>2 DEF Read
      <3>2. /\ next \notin {"attested", "ownRound"}
            /\ next = "resolve" => job.status = "FDC_REQUESTED"
        BY <3>1 DEF Branch
      <3> HIDE DEF next, tx
      <3>3. CASE p = q
        BY <1>0, <3>1, <3>2, <3>3 DEF TypeOK, HasRead
      <3>4. CASE p # q
        BY <1>2, <3>1, <3>4
      <3> QED BY <3>3, <3>4
    <2> QED BY <2>1, <2>2
  <1>6. ASSUME NEW p \in Procs, StartExecutor(p) \/ StartWorker(p) \/ SubmitPayment(p)
        PROVE  Keeps(q)
    BY <1>4, <1>6 DEF StartExecutor, StartWorker, SubmitPayment, Labels
  <1>7. ASSUME NEW p \in Procs, ~Caught(p),
               \/ Sign(p) \/ AwaitFinality(p) \/ OwnRound(p) \/ AwaitProof(p) \/ Simulate(p)
               \/ BypassSimulation(p) \/ CheckpointMintTx(p) \/ AwaitReceipt(p) \/ Reconcile(p)
        PROVE  Keeps(q)
    <2>1. \E l \in {"top", "broadcast", "receipt"} : Goto(p, l)
      BY <1>7 DEF Sign, AwaitFinality, OwnRound, AwaitProof, Simulate, BypassSimulation,
                  CheckpointMintTx, AwaitReceipt, Reconcile, ClassifyReceipt, Transition
    <2> QED BY <1>4, <2>1 DEF Labels
  <1>8. ASSUME NEW p \in Procs, RequestAttestation(p)
        PROVE  Keeps(q) \/ HasAsked(q)
    <2>1. /\ pc' = [pc EXCEPT ![p] = "attested"] /\ sent' = [sent EXCEPT ![p] = Len(fdcTxs) + 1]
          /\ UNCHANGED seen
      BY <1>8 DEF RequestAttestation
    <2> QED BY <1>0, <1>8, <2>1 DEF TypeOK, Keeps, HasAsked
  <1>9. ASSUME NEW p \in Procs, ~Caught(p), CheckpointFdcTx(p)
        PROVE  Keeps(q) \/ HasRecorded(q)
    <2>1. /\ pc[p] = "attested" /\ pc' = [pc EXCEPT ![p] = "ownRound"] /\ UNCHANGED <<seen, sent>>
          /\ job' = [job EXCEPT !.status = "FDC_REQUESTED", !.fdcRequest = seen[p].xrplTxHash,
                                !.fdcTxHash = sent[p]]
      BY <1>9 DEF CheckpointFdcTx, Transition, Goto
    <2>2. job'.status = "FDC_REQUESTED"
      BY <1>0, <2>1 DEF TypeOK, Job
    <2> QED BY <1>0, <2>1, <2>2 DEF TypeOK, Keeps, HasRecorded
  <1>10. ASSUME NEW p \in Procs, ~Caught(p), ResolveRound(p)
         PROVE  Keeps(q) \/ HasResolved(q)
    <2> DEFINE f == seen[p].fdcTxHash
    <2>1. /\ job' = [job EXCEPT !.status = "FDC_REQUESTED", !.votingRound = f]
          /\ seen' = [seen EXCEPT ![p].votingRound = f]
          /\ pc' = [pc EXCEPT ![p] = "awaitProof"] /\ UNCHANGED sent
      BY <1>10 DEF ResolveRound
    <2>2. job'.votingRound = f
      BY <1>0, <2>1 DEF TypeOK, Job
    <2>3. CASE p = q
      <3>1. seen'[q] = [seen[q] EXCEPT !.votingRound = f] /\ seen[q] \in Job
        BY <1>0, <2>1, <2>3 DEF TypeOK
      <3>2. seen'[q].votingRound = f
        BY <3>1 DEF Job
      <3> QED BY <1>0, <2>1, <2>2, <2>3, <3>2 DEF TypeOK, HasResolved
    <2>4. CASE p # q
      BY <1>0, <2>1, <2>4 DEF TypeOK, Keeps
    <2> QED BY <2>3, <2>4
  <1>11. ASSUME NEW p \in Procs, Broadcast(p)
         PROVE  Keeps(q)
    <2>1. /\ pc' = [pc EXCEPT ![p] = "broadcasted"] /\ UNCHANGED seen
          /\ sent' = [sent EXCEPT ![p] = Len(mintTxs) + 1]
      BY <1>11 DEF Broadcast
    <2> QED BY <1>0, <2>1 DEF TypeOK, Keeps
  <1>12. ASSUME NEW p \in Procs, Caught(p) \/ Crash(p) \/ Throw(p)
         PROVE  Keeps(q)
    BY <1>3, <1>12 DEF Caught, Crash, Throw
  <1>13. CASE Environment \/ UNCHANGED vars
    <2>1. UNCHANGED process
      BY <1>13 DEF Environment, SettlePayment, MineFdcRequest, MineMint, PassDelay, vars
    <2> QED BY <1>1, <2>1
  <1> QED BY <1>5, <1>6, <1>7, <1>8, <1>9, <1>10, <1>11, <1>12, <1>13 DEF Next, Step

LEMMA NextReaderBacked ==
    ASSUME SingleSigner, TimelineInv, [Next]_vars, NEW q \in Procs
    PROVE  ReaderBacked(q)'
  <1>0. /\ TypeInv /\ TypeInv' /\ ColumnsBacked /\ ReaderBacked(q) /\ ReadersNamePayment
    BY NextTypeInv DEF TimelineInv, SettleInv, PayInv, ReadersBacked
  <1>1. /\ job.status \in PastRequest => job'.status \in PastRequest
        /\ job.votingRound # 0 => job'.votingRound # 0
    BY RowOnlyAdvances
  <1>2. \A h : Requested(h) => h \in DOMAIN fdcTxs' /\ fdcTxs'[h].pay = 1
    BY <1>0, RequestStays DEF Requested
  <1>3. CASE Keeps(q)
    <2>1. NoRow.votingRound = 0
      BY DEF NoRow, NewJob
    <2> QED BY <1>0, <1>1, <1>2, <1>3, <2>1 DEF Keeps, ReaderBacked, Requested
  <1>4. CASE HasRead(q)
    <2>1. "FDC_REQUESTED" \in PastRequest \ {"FAILED"}
      BY DEF PastRequest, PastFinality, MintStatuses
    <2> QED BY <1>0, <1>1, <1>2, <1>4, <2>1 DEF HasRead, ReaderBacked, ColumnsBacked, Requested
  <1>5. CASE HasAsked(q)
    <2> DEFINE e == [pay |-> seen[q].xrplTxHash, state |-> "pending"]
    <2>1. fdcTxs' = Append(fdcTxs, e)
      BY <1>5 DEF HasAsked, RequestAttestation
    <2>2. e.pay = 1
      BY <1>0, <1>5 DEF HasAsked, RequestAttestation, ReadersNamePayment, Past
    <2> HIDE DEF e
    <2>3. fdcTxs \in Seq([pay : Nat, state : {"pending", "mined", "reverted"}])
      BY <1>0 DEF TypeInv, TypeOK
    <2>4. Len(fdcTxs) + 1 \in DOMAIN fdcTxs' /\ fdcTxs'[Len(fdcTxs) + 1] = e
      BY <2>1, <2>3
    <2>5. Requested(sent[q])'
      BY <1>5, <2>2, <2>4 DEF HasAsked, Requested
    <2> QED BY <1>0, <1>1, <1>5, <2>5 DEF HasAsked, ReaderBacked
  <1>6. CASE HasRecorded(q)
    <2>1. "FDC_REQUESTED" \in PastRequest
      BY DEF PastRequest, PastFinality, MintStatuses
    <2> QED BY <1>0, <1>1, <1>2, <1>6, <2>1 DEF HasRecorded, ReaderBacked, Requested
  <1>7. CASE HasResolved(q)
    BY <1>7 DEF HasResolved, ReaderBacked
  <1> QED BY <1>0, <1>3, <1>4, <1>5, <1>6, <1>7, NextReader

LEMMA InitTimelineInv == Init => TimelineInv
  <1> SUFFICES ASSUME Init PROVE TimelineInv
    OBVIOUS
  <1>1. PICK a \in AllowFlareRevert :
           \/ job = NewJob(a) /\ payments = <<>>
           \/ /\ job = [NewJob(a) EXCEPT !.status = "XRPL_SIGNED", !.xrplTxHash = 1]
              /\ payments = <<[seq |-> 1, state |-> "submitted"]>>
    BY DEF Init
  <1>2. /\ job.votingRound = 0
        /\ \/ job.status = "CREATED"
           \/ job.status = "XRPL_SIGNED" /\ 1 \in DOMAIN payments
    <2>1. CASE job = NewJob(a)
      BY <2>1 DEF NewJob
    <2>2. CASE /\ job = [NewJob(a) EXCEPT !.status = "XRPL_SIGNED", !.xrplTxHash = 1]
               /\ payments = <<[seq |-> 1, state |-> "submitted"]>>
      <3>1. job.status = "XRPL_SIGNED" /\ job.votingRound = 0
        BY <2>2 DEF NewJob
      <3>2. 1 \in DOMAIN payments
        BY <2>2
      <3> QED BY <3>1, <3>2
    <2> QED BY <1>1, <2>1, <2>2
  <1>3. ColumnsBacked
    BY <1>2 DEF ColumnsBacked, PastFinality, PastRequest, PastProof, PastMint
  <1>4. ReadersBacked
    BY DEF Init, ReadersBacked, ReaderBacked, NoRow, NewJob
  <1> QED BY <1>3, <1>4, InitSettleInv DEF TimelineInv

LEMMA NextTimelineInv ==
    ASSUME SingleSigner
    PROVE  TimelineInv /\ [Next]_vars => TimelineInv'
  <1> SUFFICES ASSUME TimelineInv, [Next]_vars PROVE TimelineInv'
    OBVIOUS
  <1>1. SettleInv'
    BY NextSettleInv DEF TimelineInv
  <1>2. ReadersBacked'
    BY NextReaderBacked DEF ReadersBacked
  <1> QED BY <1>1, <1>2, NextColumnsBacked DEF TimelineInv

\* The seven ordered steps and the place of each.
LEMMA Places ==
    /\ DOMAIN OrderedStatuses = 1 .. 7
    /\ Place("CREATED") = 1 /\ Place("XRPL_SIGNED") = 2 /\ Place("XRPL_FINALIZED") = 3
    /\ Place("FDC_REQUESTED") = 4 /\ Place("PROOF_READY") = 5
    /\ Place("SIMULATION_PASSED") = 6 /\ Place("FLARE_SUBMITTED") = 7
  <1>1. DOMAIN OrderedStatuses = 1 .. 7
    BY DEF OrderedStatuses
  <1>2. /\ OrderedStatuses[1] = "CREATED" /\ OrderedStatuses[2] = "XRPL_SIGNED"
        /\ OrderedStatuses[3] = "XRPL_FINALIZED" /\ OrderedStatuses[4] = "FDC_REQUESTED"
        /\ OrderedStatuses[5] = "PROOF_READY" /\ OrderedStatuses[6] = "SIMULATION_PASSED"
        /\ OrderedStatuses[7] = "FLARE_SUBMITTED"
    BY DEF OrderedStatuses
  <1>3. \A n \in 1 .. 7 : n = 1 \/ n = 2 \/ n = 3 \/ n = 4 \/ n = 5 \/ n = 6 \/ n = 7
    OBVIOUS
  <1>4. ASSUME NEW step, NEW n \in 1 .. 7, OrderedStatuses[n] = step,
               \A m \in 1 .. 7 : OrderedStatuses[m] = step => m = n
        PROVE  Place(step) = n
    BY <1>1, <1>4 DEF Place
  <1>5. \A m, n \in 1 .. 7 : OrderedStatuses[m] = OrderedStatuses[n] => m = n
    BY <1>2, <1>3
  <1>6. \A n \in 1 .. 7 : Place(OrderedStatuses[n]) = n
    BY <1>4, <1>5
  <1> QED BY <1>1, <1>2, <1>6

\* The steps shown before a status, as the statuses beyond each step.
LEMMA CompletedBeyond ==
    ASSUME TypeInv, job.status # "FAILED", NEW step \in Completed(job)
    PROVE  \/ step \in {"CREATED", "RECOVERED"}
           \/ step = "XRPL_SIGNED" /\ job.status \notin {"CREATED", "XRPL_SIGNED", "FAILED"}
           \/ step = "XRPL_FINALIZED" /\ job.status \in PastFinality \ {"FAILED"}
           \/ step = "FDC_REQUESTED" /\ job.status \in PastRequest \ {"FAILED"}
           \/ step = "PROOF_READY" /\ job.status \in PastProof \ {"FAILED"}
           \/ step = "SIMULATION_PASSED" /\ job.simulationAttempts > 0
           \/ step = "FLARE_SUBMITTED" /\ job.status \in PastMint
           \/ step = job.status /\ step \in {"SETTLED_SUCCESS", "SETTLED_FALLBACK"}
  <1> DEFINE Ordered == {"CREATED", "XRPL_SIGNED", "XRPL_FINALIZED", "FDC_REQUESTED",
                         "PROOF_READY", "SIMULATION_PASSED", "FLARE_SUBMITTED"}
  <1>1. {OrderedStatuses[n] : n \in DOMAIN OrderedStatuses} = Ordered
    <2>1. \A n \in 1 .. 7 : n = 1 \/ n = 2 \/ n = 3 \/ n = 4 \/ n = 5 \/ n = 6 \/ n = 7
      OBVIOUS
    <2>2. /\ OrderedStatuses[1] = "CREATED" /\ OrderedStatuses[2] = "XRPL_SIGNED"
          /\ OrderedStatuses[3] = "XRPL_FINALIZED" /\ OrderedStatuses[4] = "FDC_REQUESTED"
          /\ OrderedStatuses[5] = "PROOF_READY" /\ OrderedStatuses[6] = "SIMULATION_PASSED"
          /\ OrderedStatuses[7] = "FLARE_SUBMITTED"
      BY DEF OrderedStatuses
    <2>3. DOMAIN OrderedStatuses = 1 .. 7
      BY Places
    <2> QED BY <2>1, <2>2, <2>3
  <1>2. job.status \in MintStatuses
    BY DEF TypeInv, TypeOK, Job
  <1>3. CASE job.status \in Visible(job)
    <2>1. job.status \in Ordered /\ step \in Ordered /\ Place(step) < Place(job.status)
      BY <1>1, <1>3 DEF Completed, Visible
    <2>2. step = "SIMULATION_PASSED" => HasSimulationEvidence(job)
      BY <1>3 DEF Completed, Visible
    <2>3. step # job.status
      BY <2>1, Places
    <2> QED BY <2>1, <2>2, <2>3, Places
            DEF HasSimulationEvidence, PastFinality, PastRequest, PastProof, PastMint,
                MintStatuses
  <1>4. CASE job.status \notin Visible(job)
    <2>1. /\ job.status \notin Ordered
      BY <1>1, <1>4 DEF Visible, HasSimulationEvidence
    <2>2. \/ step \in Visible(job)
          \/ step = job.status /\ step \in {"SETTLED_SUCCESS", "SETTLED_FALLBACK", "RECOVERED"}
      BY <1>4 DEF Completed
    <2>3. step \in Visible(job) =>
             step \in Ordered /\ (step = "SIMULATION_PASSED" => HasSimulationEvidence(job))
      BY <1>1 DEF Visible
    <2> QED BY <1>2, <2>1, <2>2, <2>3
            DEF HasSimulationEvidence, PastFinality, PastRequest, PastProof, PastMint,
                MintStatuses
  <1> QED BY <1>3, <1>4

\* The public timeline claims nothing that did not happen: every step that it shows
\* as completed is backed by the transaction that the row names for it and by what
\* the chains made of that transaction, for any number of workers, crashes, stale
\* readers and repeated attestations and mints, if one process may sign.
THEOREM TimelineBacked ==
    ASSUME SingleSigner
    PROVE  Spec => []TimelineIsBacked
  <1>1. TimelineInv => TimelineIsBacked
    <2> SUFFICES ASSUME TimelineInv, job.status # "FAILED", NEW step \in Completed(job)
                 PROVE  Backed(step)
      BY DEF TimelineIsBacked
    <2>1. TypeInv /\ ColumnsBacked /\ RowNamesPayment /\ ShownOnChain(job)
      BY DEF TimelineInv, SettleInv, PayInv
    <2>2. job.status # "CREATED" => job.xrplTxHash = 1
      BY <2>1 DEF RowNamesPayment
    <2>3. CASE step \in {"CREATED", "RECOVERED"}
      BY <2>3 DEF Backed, Consumed
    <2>4. CASE step = "XRPL_SIGNED" /\ job.status \notin {"CREATED", "XRPL_SIGNED", "FAILED"}
      BY <2>1, <2>2, <2>4 DEF Backed, Consumed, ColumnsBacked
    <2>5. CASE step = "XRPL_FINALIZED" /\ job.status \in PastFinality \ {"FAILED"}
      <3>1. job.status # "CREATED"
        BY <2>5 DEF PastFinality
      <3> QED BY <2>1, <2>2, <2>5, <3>1 DEF Backed, Consumed, ColumnsBacked, PaymentFinal
    <2>6. CASE step = "FDC_REQUESTED" /\ job.status \in PastRequest \ {"FAILED"}
      BY <2>1, <2>6 DEF Backed, Consumed, ColumnsBacked, Requested
    <2>7. CASE step = "PROOF_READY" /\ job.status \in PastProof \ {"FAILED"}
      <3> DEFINE r == job.votingRound
      <3>1. job.status # "CREATED" /\ job.status \in PastFinality \ {"FAILED"}
        BY <2>7 DEF PastProof, PastRequest, PastFinality
      <3>2. Attested(r) /\ PaymentFinal /\ job.xrplTxHash = 1
        BY <2>1, <2>2, <2>7, <3>1 DEF ColumnsBacked
      <3>3. DOMAIN fdcTxs = 1 .. Len(fdcTxs)
        BY <2>1 DEF TypeInv, TypeOK
      <3> HIDE DEF r
      <3>4. fdcTxs[r] \in [pay : Nat, state : {"pending", "mined", "reverted"}]
        BY <2>1, <3>2, <3>3, ElementOfSeq DEF TypeInv, TypeOK, Attested, Requested
      <3>5. fdcTxs[r] = [pay |-> 1, state |-> "mined"]
        BY <3>2, <3>4 DEF Attested, Requested
      <3>6. ProofAvailable(job.xrplTxHash, r)
        BY <3>2, <3>5 DEF ProofAvailable, Attested, Requested, PaymentFinal
      <3> QED BY <2>7, <3>6 DEF Backed, Consumed, r
    <2>8. CASE step = "SIMULATION_PASSED" /\ job.simulationAttempts > 0
      BY <2>8 DEF Backed, Consumed
    <2>9. CASE step = "FLARE_SUBMITTED" /\ job.status \in PastMint
      BY <2>1, <2>9 DEF Backed, Consumed, ColumnsBacked
    <2>10. CASE step = job.status /\ step \in {"SETTLED_SUCCESS", "SETTLED_FALLBACK"}
      BY <2>1, <2>10 DEF Backed, ShownOnChain, Consumed
    <2> QED BY <2>1, <2>3, <2>4, <2>5, <2>6, <2>7, <2>8, <2>9, <2>10, CompletedBeyond
  <1>2. TimelineInv /\ [Next]_vars => TimelineInv'
    BY NextTimelineInv
  <1> QED BY <1>1, <1>2, InitTimelineInv, PTL DEF Spec
=============================================================================
