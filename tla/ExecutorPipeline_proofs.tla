----------------------- MODULE ExecutorPipeline_proofs -----------------------
(***************************************************************************)
(* Theorems about ExecutorPipeline for every set of processes and every    *)
(* bound: type correctness, and the single payment of a job that only one  *)
(* process may sign.                                                       *)
(***************************************************************************)
EXTENDS ExecutorPipeline, SequenceTheorems, FiniteSetTheorems, TLAPS

---------------------------------------------------------------------------
(* Type correctness.  It is inductive only with the facts that tie a       *)
(* process at an await to the transaction it waits for.                    *)

\* A process holding a mint transaction holds one that was broadcast.
SentIsBroadcast ==
    \A p \in Procs :
        pc[p] \in {"broadcasted", "receipt", "reconcile"} => sent[p] \in DOMAIN mintTxs

\* FLARE_SUBMITTED always names a broadcast transaction.
SubmittedIsBroadcast ==
    job.status = "FLARE_SUBMITTED" => job.flareTxHash \in DOMAIN mintTxs

\* #submitFlare is entered from three statuses only.
MintFromReady ==
    \A p \in Procs :
        pc[p] = "mintProof" =>
            seen[p].status \in {"PROOF_READY", "SIMULATION_PASSED", "DELAYED"}

TypeInv == TypeOK /\ SentIsBroadcast /\ SubmittedIsBroadcast /\ MintFromReady

LEMMA NoRowIsJob == NoRow \in Job
  BY DEF NoRow, NewJob, Job, MintStatuses

\* Setting the state of one element, in or out of range, keeps a sequence typed.
LEMMA PaymentUpdate ==
    ASSUME NEW S, NEW q \in Seq([seq : Nat, state : S]), NEW x, NEW st,
           x \in DOMAIN q => st \in S
    PROVE  [q EXCEPT ![x].state = st] \in Seq([seq : Nat, state : S])
  <1> DEFINE R == [seq : Nat, state : S]
             r == [q EXCEPT ![x].state = st]
  <1>1. Len(q) \in Nat /\ q \in [1 .. Len(q) -> R] /\ DOMAIN q = 1 .. Len(q)
    BY LenProperties
  <1>2. r \in [1 .. Len(q) -> R]
    BY <1>1
  <1> QED BY <1>1, <1>2, SeqDef

\* Settling one transaction keeps the sequence of them.
LEMMA TxUpdate ==
    ASSUME NEW S, NEW q \in Seq([pay : Nat, state : S]), NEW x, NEW st \in S
    PROVE  /\ [q EXCEPT ![x].state = st] \in Seq([pay : Nat, state : S])
           /\ DOMAIN [q EXCEPT ![x].state = st] = DOMAIN q
  <1> DEFINE R == [pay : Nat, state : S]
             r == [q EXCEPT ![x].state = st]
  <1>1. Len(q) \in Nat /\ q \in [1 .. Len(q) -> R] /\ DOMAIN q = 1 .. Len(q)
    BY LenProperties
  <1>2. r \in [1 .. Len(q) -> R]
    BY <1>1
  <1> QED BY <1>1, <1>2, SeqDef

\* Two sequences with the same domain have the same length.
LEMMA SameLength ==
    ASSUME NEW S, NEW q \in Seq(S), NEW r \in Seq(S), DOMAIN q = DOMAIN r
    PROVE  Len(q) = Len(r) /\ (q = <<>> <=> r = <<>>)
  <1>1. DOMAIN q = 1 .. Len(q) /\ DOMAIN r = 1 .. Len(r) /\ Len(q) \in Nat /\ Len(r) \in Nat
    BY LenProperties
  <1>2. \A m, n \in Nat : 1 .. m = 1 .. n => m = n
    <2> SUFFICES ASSUME NEW m \in Nat, NEW n \in Nat, 1 .. m = 1 .. n PROVE m = n
      OBVIOUS
    <2>1. (m \in 1 .. m => m \in 1 .. n) /\ (n \in 1 .. n => n \in 1 .. m)
      OBVIOUS
    <2> QED BY <2>1
  <1>3. Len(q) = Len(r)
    BY <1>1, <1>2
  <1> QED BY <1>3, EmptySeq

\* Leaving run() keeps the process variables typed.
LEMMA LeaveKeepsTypes ==
    ASSUME TypeOK, NEW p \in Procs, Leave(p)
    PROVE  /\ pc' \in [Procs -> Labels]
           /\ seen' \in [Procs -> Job]
           /\ sent' \in [Procs -> Nat]
  <1>1. "idle" \in Labels /\ 0 \in Nat
    BY DEF Labels
  <1> QED BY <1>1, NoRowIsJob DEF TypeOK, Leave

\* The catch block leaves a row.
LEMMA CaughtKeepsTypes ==
    ASSUME TypeOK, NEW p \in Procs, Caught(p)
    PROVE  /\ job' \in Job
           /\ streak' \in [status : MintStatuses, count : Nat]
           /\ failures' \in Nat
           /\ pc' \in [Procs -> Labels]
           /\ seen' \in [Procs -> Job]
           /\ sent' \in [Procs -> Nat]
  <1>1. Leave(p)
    BY DEF Caught
  <1>2. NextErrorStreak \in [status : MintStatuses, count : Nat]
    <2>1. job.status \in MintStatuses /\ streak.count \in Nat
      BY DEF TypeOK, Job
    <2>2. streak.count + 1 \in Nat /\ 1 \in Nat
      BY <2>1
    <2> QED BY <2>1, <2>2 DEF NextErrorStreak
  <1>3. "FAILED" \in MintStatuses
    BY DEF MintStatuses
  <1>4. job' \in Job
    BY <1>3 DEF Caught, row, TypeOK, Job
  <1>5. streak' \in [status : MintStatuses, count : Nat] /\ failures' \in Nat
    BY <1>2 DEF Caught, row, TypeOK
  <1> QED BY <1>1, <1>4, <1>5, LeaveKeepsTypes

\* A row as transition() leaves it, or as the catch block does, is a row.
LEMMA TransitionKeepsTypes ==
    ASSUME TypeOK, NEW p \in Procs, NEW patched \in Job, NEW next \in Labels,
           Transition(p, patched, next)
    PROVE  /\ job' \in Job
           /\ streak' \in [status : MintStatuses, count : Nat]
           /\ failures' \in Nat
           /\ pc' \in [Procs -> Labels]
           /\ seen' \in [Procs -> Job]
           /\ sent' \in [Procs -> Nat]
  <1>1. CASE Caught(p)
    BY <1>1, CaughtKeepsTypes
  <1>2. CASE ~Caught(p)
    <2>1. /\ job' = patched
          /\ failures' = IF patched.status = job.status THEN failures ELSE 0
          /\ UNCHANGED streak
          /\ Goto(p, next)
      BY <1>2 DEF Transition
    <2> QED BY <2>1 DEF TypeOK, Goto
  <1> QED BY <1>1, <1>2

\* Neither outcome of the catch block disturbs the ties to the chain.
LEMMA CaughtKeepsTies ==
    ASSUME TypeInv, NEW p \in Procs, Caught(p), UNCHANGED mintTxs
    PROVE  SentIsBroadcast' /\ SubmittedIsBroadcast' /\ MintFromReady'
  <1>1. /\ pc' = [pc EXCEPT ![p] = "idle"]
        /\ seen' = [seen EXCEPT ![p] = NoRow]
        /\ sent' = [sent EXCEPT ![p] = 0]
    BY DEF Caught, Leave
  <1>2. SentIsBroadcast'
    BY <1>1 DEF TypeInv, TypeOK, SentIsBroadcast
  <1>3. MintFromReady'
    BY <1>1 DEF TypeInv, TypeOK, MintFromReady
  <1>4. job' = job \/ \E st \in {job.status, "FAILED"} : job' = [job EXCEPT !.status = st]
    BY DEF Caught, row
  <1>5. job'.status \in {job.status, "FAILED"} /\ job'.flareTxHash = job.flareTxHash
    BY <1>4 DEF TypeInv, TypeOK, Job
  <1>6. SubmittedIsBroadcast'
    BY <1>5 DEF TypeInv, SubmittedIsBroadcast
  <1> QED BY <1>2, <1>3, <1>6

\* A transition, legal or not, keeps the tie between rows, readers and mints.
LEMMA TransitionKeepsTies ==
    ASSUME TypeInv, NEW p \in Procs, NEW patched \in Job, NEW next \in Labels,
           Transition(p, patched, next), UNCHANGED mintTxs,
           patched.status = "FLARE_SUBMITTED" => patched.flareTxHash \in DOMAIN mintTxs,
           next # "mintProof",
           next \in {"broadcasted", "receipt", "reconcile"} => sent[p] \in DOMAIN mintTxs
    PROVE  SentIsBroadcast' /\ SubmittedIsBroadcast' /\ MintFromReady'
  <1>1. CASE Caught(p)
    BY <1>1, CaughtKeepsTies
  <1>2. CASE ~Caught(p)
    <2>1. job' = patched /\ pc' = [pc EXCEPT ![p] = next] /\ UNCHANGED <<seen, sent>>
      BY <1>2 DEF Transition, Goto
    <2>2. SentIsBroadcast'
      BY <2>1 DEF TypeInv, TypeOK, SentIsBroadcast
    <2>3. SubmittedIsBroadcast'
      BY <2>1 DEF SubmittedIsBroadcast
    <2>4. MintFromReady'
      BY <2>1 DEF TypeInv, TypeOK, MintFromReady
    <2> QED BY <2>2, <2>3, <2>4
  <1> QED BY <1>1, <1>2

\* What the actions of the loop may change, put together: a step that only
\* moves the row and process p, and leaves the chains typed, keeps TypeInv.
LEMMA RowStepKeepsTypeInv ==
    ASSUME TypeInv, NEW p \in Procs, NEW patched \in Job, NEW next \in Labels,
           Transition(p, patched, next) \/ Caught(p),
           patched.status = "FLARE_SUBMITTED" => patched.flareTxHash \in DOMAIN mintTxs,
           next # "mintProof",
           next \in {"broadcasted", "receipt", "reconcile"} => sent[p] \in DOMAIN mintTxs,
           UNCHANGED <<fdcTxs, mintTxs, delays, released, crashes>>,
           payments' \in Seq([seq : Nat, state : PaymentStates])
    PROVE  TypeInv'
  <1>1. TypeOK
    BY DEF TypeInv
  <1>2. /\ job' \in Job
        /\ streak' \in [status : MintStatuses, count : Nat]
        /\ failures' \in Nat
        /\ pc' \in [Procs -> Labels]
        /\ seen' \in [Procs -> Job]
        /\ sent' \in [Procs -> Nat]
    BY <1>1, TransitionKeepsTypes, CaughtKeepsTypes
  <1>3. TypeOK'
    BY <1>1, <1>2 DEF TypeOK
  <1>4. SentIsBroadcast' /\ SubmittedIsBroadcast' /\ MintFromReady'
    BY TransitionKeepsTies, CaughtKeepsTies
  <1> QED BY <1>3, <1>4 DEF TypeInv

LEMMA InitTypeInv == Init => TypeInv
  <1> SUFFICES ASSUME Init PROVE TypeInv
    OBVIOUS
  <1>1. PICK a \in AllowFlareRevert :
           \/ job = NewJob(a) /\ payments = <<>>
           \/ /\ a = FALSE
              /\ job = [NewJob(a) EXCEPT !.status = "XRPL_SIGNED", !.xrplTxHash = 1]
              /\ payments = <<[seq |-> 1, state |-> "submitted"]>>
    BY DEF Init
  <1>2. a \in BOOLEAN
    BY KindsAssumption
  <1>3. NewJob(a) \in Job
    BY <1>2 DEF NewJob, Job, MintStatuses
  <1>4. job \in Job /\ job.status # "FLARE_SUBMITTED"
    <2>1. NewJob(a).status = "CREATED"
      BY DEF NewJob
    <2>2. "XRPL_SIGNED" \in MintStatuses
      BY DEF MintStatuses
    <2>3. CASE job = NewJob(a)
      BY <1>3, <2>1, <2>3
    <2>4. CASE job = [NewJob(a) EXCEPT !.status = "XRPL_SIGNED", !.xrplTxHash = 1]
      BY <1>3, <2>2, <2>4 DEF Job
    <2> QED BY <1>1, <2>3, <2>4
  <1>5. payments \in Seq([seq : Nat, state : PaymentStates])
    <2>1. [seq |-> 1, state |-> "submitted"] \in [seq : Nat, state : PaymentStates]
      BY DEF PaymentStates
    <2>2. ASSUME NEW S, NEW e \in S PROVE <<e>> \in Seq(S) /\ <<>> \in Seq(S)
      OBVIOUS
    <2> DEFINE e == [seq |-> 1, state |-> "submitted"]
    <2>3. <<e>> \in Seq([seq : Nat, state : PaymentStates])
      BY <2>1, <2>2
    <2>4. <<>> \in Seq([seq : Nat, state : PaymentStates])
      OBVIOUS
    <2>5. payments = <<>> \/ payments = <<e>>
      BY <1>1
    <2> QED BY <2>3, <2>4, <2>5
  <1>6. pc \in [Procs -> Labels] /\ seen \in [Procs -> Job] /\ sent \in [Procs -> Nat]
    BY NoRowIsJob DEF Init, Labels
  <1>7. streak \in [status : MintStatuses, count : Nat]
    BY DEF Init, MintStatuses
  <1>8. TypeOK
    BY <1>4, <1>5, <1>6, <1>7 DEF TypeOK, Init
  <1> QED BY <1>4, <1>8 DEF TypeInv, SentIsBroadcast, SubmittedIsBroadcast, MintFromReady, Init

\* A mined outcome classifies to a status, never back to FLARE_SUBMITTED.
LEMMA SettlementType ==
    ASSUME NEW o \in MintStates \ {"pending"}
    PROVE  Settlement(o) \in MintStatuses \ {"FLARE_SUBMITTED"}
  BY DEF MintStates, Consumed, Settlement, MintStatuses

\* Following a mined transaction keeps TypeInv.
LEMMA ClassifyKeepsTypeInv ==
    ASSUME TypeInv, NEW p \in Procs, NEW o \in MintStates \ {"pending"},
           ClassifyReceipt(p, o) \/ Caught(p), UNCHANGED <<world, crashes>>
    PROVE  TypeInv'
  <1> DEFINE allowedAt == IF o = "DELAYED" THEN delays ELSE job.executionAllowedAt
             patched == [job EXCEPT !.status = Settlement(o),
                                    !.executionAllowedAt = allowedAt]
  <1>1. Transition(p, patched, "top") \/ Caught(p)
    BY DEF ClassifyReceipt
  <1>2. job \in Job /\ allowedAt \in Nat
    BY DEF TypeInv, TypeOK, Job
  <1> HIDE DEF allowedAt
  <1>3. patched \in Job /\ patched.status # "FLARE_SUBMITTED"
    BY <1>2, SettlementType DEF Job
  <1> HIDE DEF patched
  <1>4. payments' \in Seq([seq : Nat, state : PaymentStates])
    BY DEF world, TypeInv, TypeOK
  <1>5. UNCHANGED <<fdcTxs, mintTxs, delays, released, crashes>> /\ "top" \in Labels
    BY DEF world, Labels
  <1> QED BY <1>1, <1>3, <1>4, <1>5, RowStepKeepsTypeInv

LEMMA OutcomesType == \A x : Outcomes(x) \subseteq MintStates
  <1> SUFFICES ASSUME NEW x, NEW o \in Outcomes(x) PROVE o \in MintStates
    OBVIOUS
  <1>1. o \in {"REVERTED", "UNMATCHED", "SETTLED_SUCCESS", "SETTLED_FALLBACK", "DELAYED"}
    <2>1. CASE Executable(x) /\ job.allowFlareRevert /\ delays < MaxDelays
      BY <2>1 DEF Outcomes
    <2>2. CASE Executable(x) /\ job.allowFlareRevert /\ ~(delays < MaxDelays)
      BY <2>2 DEF Outcomes
    <2>3. CASE Executable(x) /\ ~job.allowFlareRevert /\ delays < MaxDelays
      BY <2>3 DEF Outcomes
    <2>4. CASE Executable(x) /\ ~job.allowFlareRevert /\ ~(delays < MaxDelays)
      BY <2>4 DEF Outcomes
    <2>5. CASE ~Executable(x)
      BY <2>5 DEF Outcomes
    <2> QED BY <2>1, <2>2, <2>3, <2>4, <2>5
  <1> QED BY <1>1 DEF MintStates, Consumed

\* Every action keeps TypeInv: one step per action.
LEMMA NextTypeInv == TypeInv /\ [Next]_vars => TypeInv'
  <1> SUFFICES ASSUME TypeInv, [Next]_vars PROVE TypeInv'
    OBVIOUS
  <1> USE DEF row, process, world
  <1>0. TypeOK
    BY DEF TypeInv
  <1>1. ASSUME NEW p \in Procs, StartExecutor(p) \/ StartWorker(p)
        PROVE  TypeInv'
    <2>1. pc' = [pc EXCEPT ![p] = "top"] /\ UNCHANGED <<seen, sent, row, world, crashes>>
      BY <1>1 DEF StartExecutor, StartWorker, Goto
    <2>2. TypeOK'
      BY <1>0, <2>1 DEF TypeOK, Labels
    <2> QED BY <2>1, <2>2, <1>0 DEF TypeInv, TypeOK, SentIsBroadcast, SubmittedIsBroadcast,
                                   MintFromReady
  <1>2. ASSUME NEW p \in Procs, Crash(p)
        PROVE  TypeInv'
    <2>1. pc' \in [Procs -> Labels] /\ seen' \in [Procs -> Job] /\ sent' \in [Procs -> Nat]
      BY <1>0, <1>2, LeaveKeepsTypes DEF Crash
    <2>2. crashes' \in Nat /\ UNCHANGED <<row, world>>
      BY <1>0, <1>2 DEF Crash, TypeOK
    <2>3. TypeOK'
      BY <1>0, <2>1, <2>2 DEF TypeOK
    <2> QED BY <1>0, <1>2, <2>2, <2>3 DEF Crash, Leave, TypeInv, TypeOK, SentIsBroadcast,
                                          SubmittedIsBroadcast, MintFromReady
  <1>3. ASSUME NEW p \in Procs, Throw(p)
        PROVE  TypeInv'
    <2>1. Caught(p) /\ UNCHANGED <<world, crashes>>
      BY <1>3 DEF Throw
    <2>2. NoRow \in Job /\ NoRow.status # "FLARE_SUBMITTED" /\ "top" \in Labels
      BY NoRowIsJob DEF NoRow, NewJob, Labels
    <2> QED BY <1>0, <2>1, <2>2, RowStepKeepsTypeInv DEF TypeOK
  <1>4. ASSUME NEW p \in Procs, Read(p)
        PROVE  TypeInv'
    <2>1. UNCHANGED <<row, world, crashes>>
      BY <1>4 DEF Read
    <2>2. CASE Leave(p)
      <3>1. TypeOK'
        BY <1>0, <2>1, <2>2, LeaveKeepsTypes DEF TypeOK
      <3> QED BY <1>0, <2>1, <2>2, <3>1 DEF Leave, TypeInv, TypeOK, SentIsBroadcast,
                                            SubmittedIsBroadcast, MintFromReady
    <2>3. CASE ~Leave(p)
      <3> DEFINE next == IF job.status = "FDC_REQUESTED" /\ job.votingRound = 0
                         THEN "resolve" ELSE Branch[job.status]
      <3>1. /\ job.status \in DOMAIN Branch
            /\ seen' = [seen EXCEPT ![p] = job]
            /\ sent' = [sent EXCEPT ![p] =
                          IF job.status = "FLARE_SUBMITTED" THEN job.flareTxHash ELSE 0]
            /\ pc' = [pc EXCEPT ![p] = next]
        BY <1>4, <2>3 DEF Read
      <3>2. next \in Labels \ {"broadcasted", "receipt"}
        BY <3>1 DEF Branch, Labels
      <3>3. next = "reconcile" => job.status = "FLARE_SUBMITTED"
        BY <3>1 DEF Branch
      <3>4. next = "mintProof" =>
                job.status \in {"PROOF_READY", "SIMULATION_PASSED", "DELAYED"}
        BY <3>1 DEF Branch
      <3> HIDE DEF next
      <3>5. job \in Job /\ job.flareTxHash \in Nat
        BY <1>0 DEF TypeOK, Job
      <3>6. TypeOK'
        BY <1>0, <2>1, <3>1, <3>2, <3>5 DEF TypeOK
      <3>7. SentIsBroadcast'
        BY <1>0, <2>1, <3>1, <3>2, <3>3 DEF TypeInv, TypeOK, SentIsBroadcast,
                                            SubmittedIsBroadcast
      <3>8. SubmittedIsBroadcast'
        BY <2>1 DEF TypeInv, SubmittedIsBroadcast
      <3>9. MintFromReady'
        BY <1>0, <2>1, <3>1, <3>4 DEF TypeInv, TypeOK, MintFromReady
      <3> QED BY <3>6, <3>7, <3>8, <3>9 DEF TypeInv
    <2> QED BY <2>2, <2>3
  <1>5. ASSUME NEW p \in Procs, Sign(p)
        PROVE  TypeInv'
    <2> DEFINE e == [seq |-> AccountSequence, state |-> "signed"]
               patched == [job EXCEPT !.status = "XRPL_SIGNED",
                                      !.xrplTxHash = Len(payments) + 1, !.txBlob = TRUE]
    <2>1. /\ payments' = Append(payments, e)
          /\ Transition(p, patched, "top")
          /\ UNCHANGED <<fdcTxs, mintTxs, delays, released, crashes>>
      BY <1>5 DEF Sign
    <2>2. AccountSequence \in Nat
      <3> DEFINE D == {i \in DOMAIN payments : payments[i].state \in {"validated", "failed"}}
      <3>1. DOMAIN payments = 1 .. Len(payments) /\ Len(payments) \in Nat
        BY <1>0 DEF TypeOK
      <3>2. D \subseteq 1 .. Len(payments)
        BY <3>1
      <3>3. IsFiniteSet(1 .. Len(payments))
        BY <3>1, FS_Interval
      <3>4. IsFiniteSet(D)
        BY <3>2, <3>3, FS_Subset
      <3> QED BY <3>4, FS_CardinalityType DEF AccountSequence
    <2>3. payments' \in Seq([seq : Nat, state : PaymentStates])
      <3>1. e \in [seq : Nat, state : PaymentStates]
        BY <2>2 DEF PaymentStates
      <3> QED BY <1>0, <2>1, <3>1, AppendProperties DEF TypeOK
    <2>4. patched \in Job /\ patched.status # "FLARE_SUBMITTED" /\ "top" \in Labels
      <3>1. Len(payments) + 1 \in Nat /\ "XRPL_SIGNED" \in MintStatuses
        BY <1>0 DEF TypeOK, MintStatuses
      <3> QED BY <1>0, <3>1 DEF TypeOK, Job, Labels
    <2> HIDE DEF patched
    <2> QED BY <2>1, <2>3, <2>4, RowStepKeepsTypeInv
  <1>6. ASSUME NEW p \in Procs, SubmitPayment(p)
        PROVE  TypeInv'
    <2>1. /\ pc' = [pc EXCEPT ![p] = "finality"]
          /\ UNCHANGED <<seen, sent, row, fdcTxs, mintTxs, delays, released, crashes>>
      BY <1>6 DEF SubmitPayment, Goto
    <2> DEFINE x == seen[p].xrplTxHash
               st == IF payments[x].state = "signed" /\ seen[p].txBlob
                     THEN "submitted" ELSE payments[x].state
    <2>2. payments' = [payments EXCEPT ![x].state = st]
      BY <1>6 DEF SubmitPayment, Submitted
    <2>3. payments' \in Seq([seq : Nat, state : PaymentStates])
      <3>1. x \in DOMAIN payments => st \in PaymentStates
        <4>1. x \in DOMAIN payments => payments[x].state \in PaymentStates
          <5>1. DOMAIN payments = 1 .. Len(payments)
            BY <1>0 DEF TypeOK
          <5>2. x \in DOMAIN payments => payments[x] \in [seq : Nat, state : PaymentStates]
            BY <1>0, <5>1, ElementOfSeq DEF TypeOK
          <5> QED BY <5>2
        <4> QED BY <4>1 DEF PaymentStates
      <3> HIDE DEF x, st
      <3> QED BY <1>0, <2>2, <3>1, PaymentUpdate DEF TypeOK
    <2>4. TypeOK'
      BY <1>0, <2>1, <2>3 DEF TypeOK, Labels
    <2> QED BY <1>0, <2>1, <2>4 DEF TypeInv, TypeOK, SentIsBroadcast, SubmittedIsBroadcast,
                                    MintFromReady
  <1>7. ASSUME NEW p \in Procs, AwaitFinality(p)
        PROVE  TypeInv'
    <2> DEFINE patched == [job EXCEPT !.status = "XRPL_FINALIZED"]
    <2>1. /\ Transition(p, patched, "top") \/ Caught(p)
          /\ UNCHANGED <<world, crashes>>
      BY <1>7 DEF AwaitFinality
    <2>2. patched \in Job /\ patched.status # "FLARE_SUBMITTED"
      BY <1>0 DEF TypeOK, Job, MintStatuses
    <2> HIDE DEF patched
    <2> QED BY <1>0, <2>1, <2>2, RowStepKeepsTypeInv DEF TypeOK, Labels
  <1>8. ASSUME NEW p \in Procs, RequestAttestation(p)
        PROVE  TypeInv'
    <2> DEFINE e == [pay |-> seen[p].xrplTxHash, state |-> "pending"]
    <2>1. /\ fdcTxs' = Append(fdcTxs, e)
          /\ sent' = [sent EXCEPT ![p] = Len(fdcTxs) + 1]
          /\ pc' = [pc EXCEPT ![p] = "attested"]
          /\ UNCHANGED <<row, seen, payments, mintTxs, delays, released, crashes>>
      BY <1>8 DEF RequestAttestation
    <2>2. e \in [pay : Nat, state : {"pending", "mined", "reverted"}]
      BY <1>0 DEF TypeOK, Job
    <2>3. /\ fdcTxs' \in Seq([pay : Nat, state : {"pending", "mined", "reverted"}])
          /\ Len(fdcTxs) + 1 \in Nat
      BY <1>0, <2>1, <2>2, AppendProperties DEF TypeOK
    <2>4. TypeOK'
      BY <1>0, <2>1, <2>3 DEF TypeOK, Labels
    <2> QED BY <1>0, <2>1, <2>4 DEF TypeInv, TypeOK, SentIsBroadcast, SubmittedIsBroadcast,
                                    MintFromReady
  <1>9. ASSUME NEW p \in Procs, CheckpointFdcTx(p)
        PROVE  TypeInv'
    <2> DEFINE patched == [job EXCEPT !.status = "FDC_REQUESTED",
                                      !.fdcRequest = seen[p].xrplTxHash,
                                      !.fdcTxHash = sent[p]]
    <2>1. Transition(p, patched, "ownRound") /\ UNCHANGED <<world, crashes>>
      BY <1>9 DEF CheckpointFdcTx
    <2>2. patched \in Job /\ patched.status # "FLARE_SUBMITTED"
      BY <1>0 DEF TypeOK, Job, MintStatuses
    <2> HIDE DEF patched
    <2> QED BY <1>0, <2>1, <2>2, RowStepKeepsTypeInv DEF TypeOK, Labels
  <1>10. ASSUME NEW p \in Procs, OwnRound(p)
         PROVE  TypeInv'
    <2> DEFINE patched == [job EXCEPT !.status = "FDC_REQUESTED",
                                      !.fdcRequest = seen[p].xrplTxHash,
                                      !.votingRound = sent[p]]
    <2>1. Transition(p, patched, "top") \/ Caught(p)
      BY <1>10 DEF OwnRound
    <2>2. UNCHANGED <<world, crashes>>
      BY <1>10 DEF OwnRound
    <2>3. patched \in Job /\ patched.status # "FLARE_SUBMITTED"
      BY <1>0 DEF TypeOK, Job, MintStatuses
    <2> HIDE DEF patched
    <2> QED BY <1>0, <2>1, <2>2, <2>3, RowStepKeepsTypeInv DEF TypeOK, Labels
  <1>11. ASSUME NEW p \in Procs, ResolveRound(p)
         PROVE  TypeInv'
    <2>1. UNCHANGED <<world, crashes>>
      BY <1>11 DEF ResolveRound
    <2>2. CASE Caught(p)
      <3>1. NoRow \in Job /\ NoRow.status # "FLARE_SUBMITTED" /\ "top" \in Labels
        BY NoRowIsJob DEF NoRow, NewJob, Labels
      <3> QED BY <1>0, <2>1, <2>2, <3>1, RowStepKeepsTypeInv DEF TypeOK
    <2>3. CASE ~Caught(p)
      <3> DEFINE f == seen[p].fdcTxHash
      <3>1. /\ job' = [job EXCEPT !.status = "FDC_REQUESTED", !.votingRound = f]
            /\ seen' = [seen EXCEPT ![p].votingRound = f]
            /\ failures' = IF job.status = "FDC_REQUESTED" THEN failures ELSE 0
            /\ pc' = [pc EXCEPT ![p] = "awaitProof"]
            /\ UNCHANGED <<streak, sent>>
        BY <1>11, <2>3 DEF ResolveRound
      <3>2. f \in Nat
        BY <1>0 DEF TypeOK, Job
      <3>3. job' \in Job /\ job'.status = "FDC_REQUESTED"
        BY <1>0, <3>1, <3>2 DEF TypeOK, Job, MintStatuses
      <3>4. seen' \in [Procs -> Job]
        BY <1>0, <3>1, <3>2 DEF TypeOK, Job
      <3>5. pc' \in [Procs -> Labels] /\ failures' \in Nat
        BY <1>0, <3>1 DEF TypeOK, Labels
      <3>6. TypeOK'
        BY <1>0, <2>1, <3>1, <3>3, <3>4, <3>5 DEF TypeOK
      <3>7. SentIsBroadcast'
        BY <1>0, <2>1, <3>1 DEF TypeInv, TypeOK, SentIsBroadcast
      <3>8. SubmittedIsBroadcast'
        BY <3>3 DEF SubmittedIsBroadcast
      <3>9. MintFromReady'
        BY <1>0, <3>1 DEF TypeInv, TypeOK, MintFromReady
      <3> QED BY <3>6, <3>7, <3>8, <3>9 DEF TypeInv
    <2> QED BY <2>2, <2>3
  <1>12. ASSUME NEW p \in Procs, AwaitProof(p)
         PROVE  TypeInv'
    <2> DEFINE patched == [job EXCEPT !.status = "PROOF_READY"]
    <2>1. Transition(p, patched, "top") /\ UNCHANGED <<world, crashes>>
      BY <1>12 DEF AwaitProof
    <2>2. patched \in Job /\ patched.status # "FLARE_SUBMITTED"
      BY <1>0 DEF TypeOK, Job, MintStatuses
    <2> HIDE DEF patched
    <2> QED BY <1>0, <2>1, <2>2, RowStepKeepsTypeInv DEF TypeOK, Labels
  <1>13. ASSUME NEW p \in Procs, Simulate(p)
         PROVE  TypeInv'
    <2> DEFINE n == IF job.simulationAttempts < MaxMints
                    THEN job.simulationAttempts + 1 ELSE job.simulationAttempts
               patched == [job EXCEPT !.status = "SIMULATION_PASSED",
                                      !.simulationAttempts = n]
    <2>1. Transition(p, patched, "broadcast") /\ UNCHANGED <<world, crashes>>
      BY <1>13 DEF Simulate
    <2>2. n \in Nat
      <3>1. job.simulationAttempts \in Nat
        BY <1>0 DEF TypeOK, Job
      <3> QED BY <3>1
    <2> HIDE DEF n
    <2>3. patched \in Job /\ patched.status # "FLARE_SUBMITTED"
      BY <1>0, <2>2 DEF TypeOK, Job, MintStatuses
    <2> HIDE DEF patched
    <2> QED BY <1>0, <2>1, <2>3, RowStepKeepsTypeInv DEF TypeOK, Labels
  <1>14. ASSUME NEW p \in Procs, BypassSimulation(p)
         PROVE  TypeInv'
    <2> DEFINE patched == [job EXCEPT !.status = seen[p].status]
    <2>1. Transition(p, patched, "broadcast") /\ UNCHANGED <<world, crashes>>
      BY <1>14 DEF BypassSimulation
    <2>2. seen[p].status \in {"PROOF_READY", "SIMULATION_PASSED", "DELAYED"}
      BY <1>14 DEF BypassSimulation, TypeInv, MintFromReady
    <2>3. patched \in Job /\ patched.status # "FLARE_SUBMITTED"
      BY <1>0, <2>2 DEF TypeOK, Job, MintStatuses
    <2> HIDE DEF patched
    <2> QED BY <1>0, <2>1, <2>3, RowStepKeepsTypeInv DEF TypeOK, Labels
  <1>15. ASSUME NEW p \in Procs, Broadcast(p)
         PROVE  TypeInv'
    <2> DEFINE e == [pay |-> seen[p].xrplTxHash, state |-> "pending"]
    <2>1. /\ mintTxs' = Append(mintTxs, e)
          /\ sent' = [sent EXCEPT ![p] = Len(mintTxs) + 1]
          /\ pc' = [pc EXCEPT ![p] = "broadcasted"]
          /\ UNCHANGED <<row, seen, payments, fdcTxs, delays, released, crashes>>
      BY <1>15 DEF Broadcast
    <2>2. e \in [pay : Nat, state : MintStates]
      BY <1>0 DEF TypeOK, Job, MintStates
    <2>3. /\ mintTxs' \in Seq([pay : Nat, state : MintStates])
          /\ Len(mintTxs') = Len(mintTxs) + 1
          /\ Len(mintTxs) \in Nat
      BY <1>0, <2>1, <2>2, AppendProperties DEF TypeOK
    <2>4. DOMAIN mintTxs = 1 .. Len(mintTxs) /\ DOMAIN mintTxs' = 1 .. Len(mintTxs) + 1
      BY <1>0, <2>3 DEF TypeOK
    <2>5. TypeOK'
      BY <1>0, <2>1, <2>3 DEF TypeOK, Labels
    <2>6. SentIsBroadcast'
      BY <1>0, <2>1, <2>3, <2>4 DEF TypeInv, TypeOK, SentIsBroadcast
    <2>7. SubmittedIsBroadcast'
      BY <2>1, <2>3, <2>4 DEF TypeInv, SubmittedIsBroadcast
    <2>8. MintFromReady'
      BY <1>0, <2>1 DEF TypeInv, TypeOK, MintFromReady
    <2> QED BY <2>5, <2>6, <2>7, <2>8 DEF TypeInv
  <1>16. ASSUME NEW p \in Procs, CheckpointMintTx(p)
         PROVE  TypeInv'
    <2> DEFINE patched == [job EXCEPT !.status = "FLARE_SUBMITTED", !.flareTxHash = sent[p]]
    <2>1. Transition(p, patched, "receipt") /\ UNCHANGED <<world, crashes>>
      BY <1>16 DEF CheckpointMintTx
    <2>2. patched \in Job /\ patched.flareTxHash = sent[p]
      BY <1>0 DEF TypeOK, Job, MintStatuses
    <2>3. sent[p] \in DOMAIN mintTxs
      BY <1>16 DEF CheckpointMintTx, TypeInv, SentIsBroadcast
    <2> HIDE DEF patched
    <2> QED BY <1>0, <2>1, <2>2, <2>3, RowStepKeepsTypeInv DEF TypeOK, Labels
  <1>17. ASSUME NEW p \in Procs, AwaitReceipt(p) \/ Reconcile(p)
         PROVE  TypeInv'
    <2> DEFINE o == mintTxs[sent[p]].state
    <2>1. sent[p] \in DOMAIN mintTxs
      BY <1>17 DEF AwaitReceipt, Reconcile, TypeInv, SentIsBroadcast
    <2>2. o \in MintStates
      <3>1. DOMAIN mintTxs = 1 .. Len(mintTxs)
        BY <1>0 DEF TypeOK
      <3>2. mintTxs[sent[p]] \in [pay : Nat, state : MintStates]
        BY <1>0, <2>1, <3>1, ElementOfSeq DEF TypeOK
      <3> QED BY <3>2
    <2>3. /\ UNCHANGED <<world, crashes>>
          /\ o # "pending"
          /\ ClassifyReceipt(p, o) \/ Caught(p)
      BY <1>17 DEF AwaitReceipt, Reconcile
    <2> HIDE DEF o
    <2> QED BY <2>2, <2>3, ClassifyKeepsTypeInv
  <1>18. ASSUME NEW x \in DOMAIN payments, SettlePayment(x)
         PROVE  TypeInv'
    <2>1. PICK st \in {"validated", "failed", "expired"} :
             payments' = [payments EXCEPT ![x].state = st]
      BY <1>18 DEF SettlePayment
    <2>2. payments' \in Seq([seq : Nat, state : PaymentStates])
      BY <1>0, <2>1, PaymentUpdate DEF TypeOK, PaymentStates
    <2>3. UNCHANGED <<row, process, fdcTxs, mintTxs, delays, released, crashes>>
      BY <1>18 DEF SettlePayment
    <2>4. TypeOK'
      BY <1>0, <2>2, <2>3 DEF TypeOK
    <2> QED BY <2>3, <2>4 DEF TypeInv, SentIsBroadcast, SubmittedIsBroadcast, MintFromReady
  <1>19. ASSUME NEW f \in DOMAIN fdcTxs, MineFdcRequest(f)
         PROVE  TypeInv'
    <2>1. PICK st \in {"mined", "reverted"} : fdcTxs' = [fdcTxs EXCEPT ![f].state = st]
      BY <1>19 DEF MineFdcRequest
    <2>2. fdcTxs' \in Seq([pay : Nat, state : {"pending", "mined", "reverted"}])
      BY <1>0, <2>1, TxUpdate DEF TypeOK
    <2>3. UNCHANGED <<row, process, payments, mintTxs, delays, released, crashes>>
      BY <1>19 DEF MineFdcRequest
    <2>4. TypeOK'
      BY <1>0, <2>2, <2>3 DEF TypeOK
    <2> QED BY <2>3, <2>4 DEF TypeInv, SentIsBroadcast, SubmittedIsBroadcast, MintFromReady
  <1>20. ASSUME NEW i \in DOMAIN mintTxs, MineMint(i)
         PROVE  TypeInv'
    <2>1. PICK o \in Outcomes(mintTxs[i].pay) :
             /\ mintTxs' = [mintTxs EXCEPT ![i].state = o]
             /\ delays' = IF o = "DELAYED" THEN delays + 1 ELSE delays
      BY <1>20 DEF MineMint
    <2>2. o \in MintStates
      <3>1. Outcomes(mintTxs[i].pay) \subseteq MintStates
        BY OutcomesType
      <3> QED BY <3>1
    <2>3. /\ mintTxs' \in Seq([pay : Nat, state : MintStates])
          /\ DOMAIN mintTxs' = DOMAIN mintTxs
      BY <1>0, <2>1, <2>2, TxUpdate DEF TypeOK
    <2>4. UNCHANGED <<row, process, payments, fdcTxs, released, crashes>>
      BY <1>20 DEF MineMint
    <2>5. TypeOK'
      BY <1>0, <2>1, <2>3, <2>4 DEF TypeOK
    <2> QED BY <2>3, <2>4, <2>5 DEF TypeInv, SentIsBroadcast, SubmittedIsBroadcast,
                                    MintFromReady
  <1>21. ASSUME PassDelay
         PROVE  TypeInv'
    BY <1>0, <1>21 DEF PassDelay, TypeInv, TypeOK, SentIsBroadcast, SubmittedIsBroadcast,
                       MintFromReady
  <1>22. CASE UNCHANGED vars
    BY <1>0, <1>22 DEF vars, TypeInv, TypeOK, SentIsBroadcast, SubmittedIsBroadcast,
                       MintFromReady
  <1> QED BY <1>1, <1>2, <1>3, <1>4, <1>5, <1>6, <1>7, <1>8, <1>9, <1>10, <1>11, <1>12,
             <1>13, <1>14, <1>15, <1>16, <1>17, <1>18, <1>19, <1>20, <1>21, <1>22
          DEF Next, Step, Environment

\* Rows, processes and chain records keep their types in every behaviour.
THEOREM TypeCorrect == Spec => []TypeOK
  <1>1. TypeInv => TypeOK
    BY DEF TypeInv
  <1> QED BY <1>1, InitTypeInv, NextTypeInv, PTL DEF Spec

\* The facts the type invariant leans on hold in every behaviour too.
THEOREM TypeInvCorrect == Spec => []TypeInv
  BY InitTypeInv, NextTypeInv, PTL DEF Spec

---------------------------------------------------------------------------
(* One payment.  The README's claim holds when one process at most may     *)
(* sign.  The invariant behind it: while the row is CREATED nobody but     *)
(* that signer runs the job, so the status a signature is based on is      *)
(* still the row's status when the signature is recorded, and once it is   *)
(* recorded no process can reach the signing await again.                  *)

SingleSigner == \A p, q \in Signers : p = q

\* While the job is CREATED only a signer is inside run(), before or at signing.
OnlySignerIsIn ==
    job.status = "CREATED" =>
        \A p \in Procs : /\ pc[p] \in {"idle", "top", "sign"}
                         /\ pc[p] # "idle" => p \in Signers

\* A process about to sign is a signer and the row is still CREATED.
SigningIsCurrent ==
    \A p \in Procs : pc[p] = "sign" => p \in Signers /\ job.status = "CREATED"

\* Nothing is signed before the row says so, and the row names what was signed.
SignedIsRecorded ==
    /\ job.status = "CREATED" => payments = <<>>
    /\ Len(payments) <= 1
    /\ payments # <<>> => job.xrplTxHash = 1

PayInv == TypeInv /\ OnlySignerIsIn /\ SigningIsCurrent /\ SignedIsRecorded

LEMMA PayInvImplies == PayInv => PaymentIsRecorded /\ AtMostOnePayment
  <1> SUFFICES ASSUME PayInv PROVE PaymentIsRecorded /\ AtMostOnePayment
    OBVIOUS
  <1>1. DOMAIN payments = 1 .. Len(payments) /\ Len(payments) \in Nat
    BY DEF PayInv, TypeInv, TypeOK
  <1>2. \A x \in DOMAIN payments : x = 1 /\ payments # <<>>
    BY <1>1 DEF PayInv, SignedIsRecorded
  <1> QED BY <1>2 DEF PaymentIsRecorded, AtMostOnePayment, Released, Paid, PayInv,
                      SignedIsRecorded

\* No status but CREATED itself has CREATED as a successor.
LEMMA NeverCreatedAgain ==
    ASSUME NEW s \in MintStatuses, CanTransition(s, "CREATED")
    PROVE  s = "CREATED"
  BY DEF MintStatuses, CanTransition, Transitions

LEMMA InitPayInv == Init => PayInv
  <1> SUFFICES ASSUME Init PROVE PayInv
    OBVIOUS
  <1>1. TypeInv
    BY InitTypeInv
  <1>2. SignedIsRecorded
    <2>1. PICK a \in AllowFlareRevert :
             \/ job = NewJob(a) /\ payments = <<>>
             \/ /\ a = FALSE
                /\ job = [NewJob(a) EXCEPT !.status = "XRPL_SIGNED", !.xrplTxHash = 1]
                /\ payments = <<[seq |-> 1, state |-> "submitted"]>>
      BY DEF Init
    <2>2. CASE job = NewJob(a) /\ payments = <<>>
      BY <2>2 DEF SignedIsRecorded
    <2>3. CASE /\ job = [NewJob(a) EXCEPT !.status = "XRPL_SIGNED", !.xrplTxHash = 1]
               /\ payments = <<[seq |-> 1, state |-> "submitted"]>>
      <3>1. Len(payments) = 1
        BY <2>3
      <3>2. job.status = "XRPL_SIGNED" /\ job.xrplTxHash = 1
        BY <2>3 DEF NewJob
      <3> QED BY <3>1, <3>2 DEF SignedIsRecorded
    <2> QED BY <2>1, <2>2, <2>3
  <1> QED BY <1>1, <1>2 DEF PayInv, OnlySignerIsIn, SigningIsCurrent, Init

\* The catch block leaves CREATED or stays, and touches no payment column.
LEMMA CaughtRow ==
    ASSUME TypeOK, NEW p \in Procs, Caught(p)
    PROVE  /\ job'.status \in {job.status, "FAILED"}
           /\ job'.xrplTxHash = job.xrplTxHash
           /\ pc' = [pc EXCEPT ![p] = "idle"]
  <1>1. job' = job \/ \E st \in {job.status, "FAILED"} : job' = [job EXCEPT !.status = st]
    BY DEF Caught, row
  <1> QED BY <1>1 DEF TypeOK, Job, Caught, Leave

\* A process past the reading and signing awaits cannot disturb the invariant.
LEMMA LaterStepKeepsPayInv ==
    ASSUME PayInv, TypeInv', NEW p \in Procs,
           pc[p] \notin {"idle", "top", "sign"},
           UNCHANGED job \/ (job'.status # "CREATED" /\ job'.xrplTxHash = job.xrplTxHash),
           pc'[p] # "sign",
           \A q \in Procs \ {p} : pc'[q] = pc[q],
           Len(payments') = Len(payments), payments' = <<>> <=> payments = <<>>
    PROVE  PayInv'
  <1>1. job.status # "CREATED"
    BY DEF PayInv, OnlySignerIsIn
  <1>2. job'.status # "CREATED" /\ job'.xrplTxHash = job.xrplTxHash
    BY <1>1
  <1>3. \A q \in Procs : pc'[q] # "sign"
    BY <1>1 DEF PayInv, SigningIsCurrent
  <1>4. OnlySignerIsIn' /\ SigningIsCurrent'
    BY <1>2, <1>3 DEF OnlySignerIsIn, SigningIsCurrent
  <1>5. SignedIsRecorded'
    BY <1>2 DEF PayInv, SignedIsRecorded
  <1> QED BY <1>4, <1>5 DEF PayInv

\* The same for a step that goes through transition() or the catch block.
LEMMA LaterRowStepKeepsPayInv ==
    ASSUME PayInv, TypeInv', NEW p \in Procs, NEW patched \in Job, NEW next \in Labels,
           pc[p] \notin {"idle", "top", "sign"},
           Transition(p, patched, next) \/ Caught(p),
           patched.status # "CREATED", patched.xrplTxHash = job.xrplTxHash,
           next # "sign", UNCHANGED payments
    PROVE  PayInv'
  <1>1. TypeOK /\ job.status # "CREATED"
    BY DEF PayInv, TypeInv, OnlySignerIsIn
  <1>2. CASE Caught(p)
    <2>1. /\ job'.status # "CREATED" /\ job'.xrplTxHash = job.xrplTxHash
          /\ pc' = [pc EXCEPT ![p] = "idle"]
      BY <1>1, <1>2, CaughtRow
    <2>2. pc'[p] # "sign" /\ \A q \in Procs \ {p} : pc'[q] = pc[q]
      BY <1>1, <2>1 DEF TypeOK
    <2> QED BY <2>1, <2>2, LaterStepKeepsPayInv
  <1>3. CASE ~Caught(p)
    <2>1. job' = patched /\ pc' = [pc EXCEPT ![p] = next]
      BY <1>3 DEF Transition, Goto
    <2>2. pc'[p] # "sign" /\ \A q \in Procs \ {p} : pc'[q] = pc[q]
      BY <1>1, <2>1 DEF TypeOK
    <2> QED BY <2>1, <2>2, LaterStepKeepsPayInv
  <1> QED BY <1>2, <1>3

LEMMA NextPayInv ==
    ASSUME SingleSigner
    PROVE  PayInv /\ [Next]_vars => PayInv'
  <1> SUFFICES ASSUME PayInv, [Next]_vars PROVE PayInv'
    OBVIOUS
  <1> USE DEF row, process, world
  <1>0. TypeInv' /\ TypeInv /\ TypeOK
    BY NextTypeInv DEF PayInv, TypeInv
  <1>1. ASSUME NEW p \in Procs, StartExecutor(p)
        PROVE  PayInv'
    BY <1>0, <1>1 DEF StartExecutor, Goto, PayInv, TypeOK, OnlySignerIsIn, SigningIsCurrent,
                      SignedIsRecorded
  <1>2. ASSUME NEW p \in Procs, StartWorker(p)
        PROVE  PayInv'
    <2>1. job.status # "CREATED"
      BY <1>2 DEF StartWorker, RunnableStatuses
    <2> QED BY <1>0, <1>2, <2>1 DEF StartWorker, Goto, PayInv, TypeOK, OnlySignerIsIn,
                                    SigningIsCurrent, SignedIsRecorded
  <1>3. ASSUME NEW p \in Procs, Crash(p)
        PROVE  PayInv'
    BY <1>0, <1>3 DEF Crash, Leave, PayInv, TypeOK, OnlySignerIsIn, SigningIsCurrent,
                      SignedIsRecorded
  <1>4. ASSUME NEW p \in Procs, Throw(p)
        PROVE  PayInv'
    <2>1. /\ job'.status \in {job.status, "FAILED"}
          /\ job'.xrplTxHash = job.xrplTxHash
          /\ pc' = [pc EXCEPT ![p] = "idle"]
          /\ UNCHANGED payments
      BY <1>0, <1>4, CaughtRow DEF Throw
    <2>2. \A q \in Procs : q # p => pc'[q] = pc[q]
      BY <1>0, <2>1 DEF TypeOK
    <2>3. pc'[p] = "idle"
      BY <1>0, <2>1 DEF TypeOK
    <2>4. OnlySignerIsIn' /\ SignedIsRecorded'
      BY <2>1, <2>2, <2>3 DEF PayInv, OnlySignerIsIn, SignedIsRecorded
    <2>5. SigningIsCurrent'
      <3>1. \A q \in Procs : pc'[q] = "sign" => pc[q] = "sign" /\ q # p
        BY <2>2, <2>3
      \* p stopped at its own await; another process at signing would be a second signer.
      <3>2. \A q \in Procs : pc[q] = "sign" /\ q # p => job.status = "CREATED" /\ FALSE
        <4> SUFFICES ASSUME NEW q \in Procs, pc[q] = "sign", q # p PROVE FALSE
          OBVIOUS
        <4>1. job.status = "CREATED" /\ q \in Signers
          BY DEF PayInv, SigningIsCurrent
        <4>2. p \in Signers
          BY <1>4, <4>1 DEF Throw, PayInv, OnlySignerIsIn
        <4> QED BY <4>1, <4>2 DEF SingleSigner
      <3> QED BY <3>1, <3>2 DEF SigningIsCurrent
    <2> QED BY <1>0, <2>4, <2>5 DEF PayInv
  <1>5. ASSUME NEW p \in Procs, Read(p)
        PROVE  PayInv'
    <2>1. UNCHANGED <<row, payments>> /\ \A q \in Procs : q # p => pc'[q] = pc[q]
      BY <1>0, <1>5 DEF Read, Leave, TypeOK
    <2>2. pc'[p] = "sign" => job.status = "CREATED"
      BY <1>0, <1>5 DEF Read, Leave, TypeOK, Branch
    <2>3. job.status = "CREATED" => pc'[p] \in {"idle", "sign"}
      BY <1>0, <1>5 DEF Read, Leave, TypeOK, Branch
    <2>4. job.status = "CREATED" => p \in Signers
      BY <1>5 DEF Read, PayInv, OnlySignerIsIn
    <2> QED BY <1>0, <2>1, <2>2, <2>3, <2>4 DEF PayInv, OnlySignerIsIn, SigningIsCurrent,
                                                SignedIsRecorded
  <1>6. ASSUME NEW p \in Procs, Sign(p)
        PROVE  PayInv'
    <2> DEFINE patched == [job EXCEPT !.status = "XRPL_SIGNED",
                                      !.xrplTxHash = Len(payments) + 1, !.txBlob = TRUE]
    <2>1. job.status = "CREATED" /\ payments = <<>> /\ p \in Signers
      BY <1>6 DEF Sign, PayInv, SigningIsCurrent, SignedIsRecorded
    <2>2. CanTransition(job.status, patched.status)
      BY <1>0, <2>1 DEF CanTransition, Transitions, TypeOK, Job
    <2>3. job' = patched /\ pc' = [pc EXCEPT ![p] = "top"]
      BY <1>6, <2>2 DEF Sign, Transition, Goto
    <2>4. job'.status = "XRPL_SIGNED" /\ job'.xrplTxHash = 1
      BY <1>0, <2>1, <2>3 DEF TypeOK, Job
    <2>5. Len(payments') = 1
      BY <1>6, <2>1 DEF Sign
    <2>6. \A q \in Procs : pc'[q] # "sign"
      BY <1>0, <2>1, <2>3 DEF TypeOK, PayInv, SigningIsCurrent, SingleSigner
    <2> QED BY <1>0, <2>4, <2>5, <2>6 DEF PayInv, OnlySignerIsIn, SigningIsCurrent,
                                          SignedIsRecorded
  <1>7. ASSUME NEW p \in Procs, SubmitPayment(p)
        PROVE  PayInv'
    <2>1. /\ pc[p] = "submit" /\ pc' = [pc EXCEPT ![p] = "finality"] /\ UNCHANGED job
          /\ DOMAIN payments' = DOMAIN payments
      BY <1>7 DEF SubmitPayment, Goto
    <2>2. Len(payments') = Len(payments) /\ (payments' = <<>> <=> payments = <<>>)
      BY <1>0, <2>1, SameLength DEF TypeInv, TypeOK
    <2>3. pc'[p] # "sign" /\ \A q \in Procs \ {p} : pc'[q] = pc[q]
      BY <1>0, <2>1 DEF TypeOK
    <2> QED BY <1>0, <2>1, <2>2, <2>3, LaterStepKeepsPayInv
  <1>8. ASSUME NEW p \in Procs,
               RequestAttestation(p) \/ Broadcast(p)
        PROVE  PayInv'
    <2>1. /\ pc[p] \in {"attest", "broadcast"} /\ UNCHANGED <<job, payments>>
          /\ \E l \in {"attested", "broadcasted"} : pc' = [pc EXCEPT ![p] = l]
      BY <1>8 DEF RequestAttestation, Broadcast
    <2>2. pc'[p] # "sign" /\ \A q \in Procs \ {p} : pc'[q] = pc[q]
      BY <1>0, <2>1 DEF TypeOK
    <2> QED BY <1>0, <2>1, <2>2, LaterStepKeepsPayInv
  <1>9. ASSUME NEW p \in Procs, ResolveRound(p)
        PROVE  PayInv'
    <2>1. pc[p] = "resolve" /\ UNCHANGED payments
      BY <1>9 DEF ResolveRound
    <2>2. CASE Caught(p)
      <3>1. NoRow \in Job /\ "top" \in Labels /\ job \in Job /\ job.status # "CREATED"
        BY <1>0, <2>1, NoRowIsJob DEF Labels, TypeOK, PayInv, OnlySignerIsIn
      <3> QED BY <1>0, <2>1, <2>2, <3>1, LaterRowStepKeepsPayInv
    <2>3. CASE ~Caught(p)
      <3>1. /\ job' = [job EXCEPT !.status = "FDC_REQUESTED", !.votingRound = seen[p].fdcTxHash]
            /\ pc' = [pc EXCEPT ![p] = "awaitProof"]
        BY <1>9, <2>3 DEF ResolveRound
      <3>2. job'.status # "CREATED" /\ job'.xrplTxHash = job.xrplTxHash
        BY <1>0, <3>1 DEF TypeOK, Job
      <3>3. pc'[p] # "sign" /\ \A q \in Procs \ {p} : pc'[q] = pc[q]
        BY <1>0, <3>1 DEF TypeOK
      <3> QED BY <1>0, <2>1, <3>2, <3>3, LaterStepKeepsPayInv
    <2> QED BY <2>2, <2>3
  <1>10. ASSUME NEW p \in Procs,
                \/ AwaitFinality(p) \/ CheckpointFdcTx(p) \/ OwnRound(p)
                \/ AwaitProof(p) \/ Simulate(p) \/ BypassSimulation(p)
                \/ CheckpointMintTx(p) \/ AwaitReceipt(p) \/ Reconcile(p)
         PROVE  PayInv'
    <2>1. UNCHANGED payments /\ pc[p] \notin {"idle", "top", "sign"}
      BY <1>10 DEF AwaitFinality, CheckpointFdcTx, OwnRound, AwaitProof, Simulate,
                   BypassSimulation, CheckpointMintTx, AwaitReceipt, Reconcile
    <2>2. CASE Caught(p)
      <3>1. job \in Job /\ "top" \in Labels /\ job.status # "CREATED"
        BY <1>0, <2>1 DEF Labels, TypeOK, PayInv, OnlySignerIsIn
      <3> QED BY <1>0, <2>1, <2>2, <3>1, LaterRowStepKeepsPayInv
    <2>3. CASE ~Caught(p)
      <3>1. \E next \in Labels \ {"sign"} : pc' = [pc EXCEPT ![p] = next]
        BY <1>10, <2>3 DEF AwaitFinality, CheckpointFdcTx, OwnRound, AwaitProof, Simulate,
                   BypassSimulation, CheckpointMintTx, AwaitReceipt, Reconcile,
                   ClassifyReceipt, Transition, Goto, Labels
      <3>2. pc'[p] # "sign" /\ \A q \in Procs \ {p} : pc'[q] = pc[q]
        BY <1>0, <3>1 DEF TypeOK
      <3>3. job'.status # "CREATED" /\ job'.xrplTxHash = job.xrplTxHash
        <4>1. CASE \/ AwaitFinality(p) \/ CheckpointFdcTx(p) \/ OwnRound(p)
                   \/ AwaitProof(p) \/ Simulate(p) \/ CheckpointMintTx(p)
          BY <1>0, <2>3, <4>1 DEF AwaitFinality, CheckpointFdcTx, OwnRound, AwaitProof,
                   Simulate, CheckpointMintTx, Transition, TypeOK, Job
        <4>2. CASE BypassSimulation(p)
          <5>1. seen[p].status # "CREATED"
            BY <1>0, <4>2 DEF BypassSimulation, TypeInv, MintFromReady
          <5>2. job' = [job EXCEPT !.status = seen[p].status]
            BY <2>3, <4>2 DEF BypassSimulation, Transition
          <5> QED BY <1>0, <5>1, <5>2 DEF TypeOK, Job
        <4>3. CASE AwaitReceipt(p) \/ Reconcile(p)
          <5> DEFINE o == mintTxs[sent[p]].state
          <5>1. ClassifyReceipt(p, o)
            BY <2>3, <4>3 DEF AwaitReceipt, Reconcile
          <5>2. o \in MintStates
            <6>1. sent[p] \in DOMAIN mintTxs
              BY <1>0, <4>3 DEF AwaitReceipt, Reconcile, TypeInv, SentIsBroadcast
            <6>2. DOMAIN mintTxs = 1 .. Len(mintTxs)
              BY <1>0 DEF TypeOK
            <6>3. mintTxs[sent[p]] \in [pay : Nat, state : MintStates]
              BY <1>0, <6>1, <6>2, ElementOfSeq DEF TypeOK
            <6> QED BY <6>3
          <5>3. Settlement(o) # "CREATED"
            BY <5>2 DEF Settlement, MintStates, Consumed
          <5> HIDE DEF o
          <5>4. \E d : job' = [job EXCEPT !.status = Settlement(o), !.executionAllowedAt = d]
            BY <2>3, <5>1 DEF ClassifyReceipt, Transition
          <5> QED BY <1>0, <5>3, <5>4 DEF TypeOK, Job
        <4> QED BY <1>10, <4>1, <4>2, <4>3
      <3> QED BY <1>0, <2>1, <3>2, <3>3, LaterStepKeepsPayInv
    <2> QED BY <2>2, <2>3
  <1>11. ASSUME NEW x \in DOMAIN payments, SettlePayment(x)
         PROVE  PayInv'
    <2>1. DOMAIN payments' = DOMAIN payments /\ UNCHANGED <<job, pc>>
      BY <1>11 DEF SettlePayment
    <2>2. Len(payments') = Len(payments) /\ (payments' = <<>> <=> payments = <<>>)
      BY <1>0, <2>1, SameLength DEF TypeInv, TypeOK
    <2> QED BY <1>0, <2>1, <2>2 DEF PayInv, OnlySignerIsIn, SigningIsCurrent, SignedIsRecorded
  <1>12. ASSUME \/ \E f \in DOMAIN fdcTxs : MineFdcRequest(f)
                \/ \E i \in DOMAIN mintTxs : MineMint(i)
                \/ PassDelay
                \/ UNCHANGED vars
         PROVE  PayInv'
    <2>1. UNCHANGED <<job, pc, payments>>
      BY <1>12 DEF MineFdcRequest, MineMint, PassDelay, vars
    <2> QED BY <1>0, <2>1 DEF PayInv, OnlySignerIsIn, SigningIsCurrent, SignedIsRecorded
  <1> QED BY <1>1, <1>2, <1>3, <1>4, <1>5, <1>6, <1>7, <1>8, <1>9, <1>10, <1>11, <1>12
          DEF Next, Step, Environment

\* Every payment that left the process is the one the row names: for any number
\* of workers, crashes, retries and lost responses, if one process may sign.
THEOREM PaymentRecorded ==
    ASSUME SingleSigner
    PROVE  Spec => []PaymentIsRecorded
  <1>1. PayInv /\ [Next]_vars => PayInv'
    BY NextPayInv
  <1> QED BY <1>1, InitPayInv, PayInvImplies, PTL DEF Spec

\* The job pays the Core Vault at most once, under the same assumption.
THEOREM OnePayment ==
    ASSUME SingleSigner
    PROVE  Spec => []AtMostOnePayment
  <1>1. PayInv /\ [Next]_vars => PayInv'
    BY NextPayInv
  <1> QED BY <1>1, InitPayInv, PayInvImplies, PTL DEF Spec
=============================================================================
