# MintShield in TLA+

MintShield turns one XRPL payment into one protected action on Flare (Coston2).
A user signs an XRPL payment whose memo commits to a user operation; an executor
proves the payment with the Flare Data Connector (FDC) and mints FXRP to the
user's Personal Account, which calls the Router; the Router sends the FXRP
through an adapter into a vault, or gives the exact amount back and says why.

This directory models the parts of that path that keep state, checks them with
TLC on small instances, and proves the safety properties and the refinements with
TLAPS for every value of the constants. Paths are relative to the repository; in
`PROJECT.json` they begin with one more `src/`.

## 1. Inventory

| Part | Code | State | Operations | What makes it correct |
|---|---|---|---|---|
| Job store | `src/executor/state-store.ts` | one SQLite row per intent key: status, XRPL hash, FDC hash and round, Flare hash, metadata | `createOrGet`, `transition`, `listRunnable`, `releaseRecoveredIntentKey` | only moves of the table; an intent key has one row |
| Executor pipeline | `src/executor/{pipeline,xrpl,fdc,flare-submit}.ts` | none of its own between steps: the row, and what it has broadcast | `run`: sign, submit, finality, attest, proof, simulate, broadcast, classify | one payment, recorded before it can leave; settled rows are what the chain did; bounded retries; every signed job comes to rest |
| Worker, executor processes | `scripts/run-worker.ts`, `scripts/run-executor.ts` | none | poll and run; create or resume and run | no lost and no doubled work when they overlap |
| Bare recovery | `scripts/recover-bare-comparison.ts`, `src/executor/recovery.ts` | recovery metadata of the row | second payment with an `0xE0` memo, flag, stuck retry | one recovery payment; each reported stage is backed by the chains; restarts pick up where it died |
| Adapter registry | `contracts/AdapterRegistry.sol` | live and pending configuration per adapterId | configure, cancel, activate, enable | nothing live is replaced before its notice; what is disabled stays so |
| Router | `contracts/MintShieldRouter.sol` | consumed intents, pause | `execute`, `setPaused` | never reverts a mint for a business failure; conserves FXRP; a fallback leaves no trace; no replay |
| ERC-4626 adapter | `contracts/adapters/ERC4626DepositAdapter.sol` | none | `execute` | believes no vault: shares and assets are measured |
| Status API, signing | `scripts/status-api.ts`, `src/xaman/client.ts` | the row; handlers suspended at awaits | POST and GET `/api/xaman/sign-request` | each returned payload belongs to the row; the row's payment is its own |
| Web client, signing flow | `web/app.js` | the tab: preview, signing request, sockets, status, what is drawn | preview, request a signature, socket events, check, redraw, reload | what is reviewed is what is signed; it says verified only of what is recorded |
| Public timelines | `src/api/public-model.ts`, `src/api/evidence-model.ts` | none: derived from the row | the completed steps of a row | no step is shown that did not happen |
| Planning and quotes | `src/api/deposit-preview.ts`, `src/flare/preflight.ts` | none (pure) | plan, quote | the quoted payment is enough and not more than needed |
| Evidence and jobs endpoints, the rest of the web client, chain clients, deployment scripts | `api/index.ts`, `src/api/*.ts`, `web/`, `src/flare/*.ts`, `scripts/*` | none | read and render; set up once | — |

Interactions. The dashboard asks the status API for a preview, a payload and a
result, and hears Xaman's socket beside it. The status API inserts the row and moves
it to `XRPL_SIGNED`; the worker picks it up from the same SQLite file by polling;
`executor:run` may run the same row at the same time. Processes share nothing but
the file and the chains: no lock is held across an await, and `transition` compares
the move with the row as it is at that moment, not with the row the caller read. The
pipeline asks XRPL, the FDC verifier and data-availability layer, and the
AssetManager; the mint calls the Personal Account, which calls the Router, which
reads the registry and calls an adapter, which calls a vault.

What is hard: two processes on one row; a process that dies, or loses the answer,
between an effect and its record; a mint that reverts, is delayed, or settles after
its sender gave up; retries that count errors; a registry that changes while a
payment is in flight; adapters and vaults that lie; FXRP that was never part of an
operation; a recovery script restarted at every checkpoint; two signing requests for
one nonce; answers that reach a page that has moved on. Each is listed with its line
under `hazards` in `PROJECT.json`.

## 2. Modules

| Module | Stands for |
|---|---|
| `JobStatus` | the statuses, the transition table, `CanTransition` (the test inside `transition`), the worker's `RUNNABLE_STATUSES` |
| `ExecutorPipeline` | `MintShieldExecutorPipeline.run` over one row, in any number of processes |
| `PublicTimeline` | extends it: what the public timeline of a row claims |
| `DirectMintPromise` | abstract specification: pay once, mint once, report only what the chain did |
| `ExecutorPipeline_proofs` | its types and its single payment |
| `ExecutorSettlement_proofs` | what its row and its timeline claim of the chain, bounded retries, a bound on payments for any number of signers, the refinement of `DirectMintPromise` |
| `AdapterRegistry` | the registry contract |
| `AdapterKillSwitch` | extends it: which adapters the owner has disabled since he last asked for anything else |
| `AdapterRegistry_proofs` | its theorems |
| `MintShieldRouter` | extends the registry: Router, ERC-4626 adapter, untrusted adapters, vault |
| `RouterPromise` | abstract specification: an intent is spent once or given back for good, nobody pays for another |
| `MintShieldRouter_proofs` | its theorems, the refinement of `RouterPromise`, and that it composes with the registry |
| `DirectMintQuote` | `quoteGrossDirectMint` and `computeMintingFeeUBA` |
| `DirectMintQuote_proofs` | the quote is exact |
| `RecoveryScript` | extends it: the recovery script's broadcast loop |
| `RecoveryTimeline` | extends it: what the public timeline of a row in recovery claims |
| `RecoveryPromise` | abstract specification: payment, ignored memo, stuck mint in this order, each reported after it happened, the key freed last |
| `RecoveryScript_proofs` | the theorems of `RecoveryScript` and `RecoveryTimeline`, the refinement of `RecoveryPromise` |
| `XamanSigning` | the two Xaman handlers for several intent keys, and the worker on the same rows |
| `SigningPromise` | abstract specification: an intent key is committed to one user operation and goes on with one payment at a time, signed for it |
| `XamanSigning_proofs` | its theorems, the refinement of `SigningPromise` |
| `SigningPage` | extends it: one dashboard tab as the handlers' client |
| `SigningPage_proofs` | its theorems, and that the handlers below it still behave as `XamanSigning` |
| `MC*` | constants for TLC |

Definitions whose comment begins with "Mutated" are not used by any
specification: each is a plausible bug in the definition that follows it, and is
what the property named with it in `PROJECT.json` has been seen to catch.

### ExecutorPipeline

`job` is the row, `streak` its `metadata.errorStreak`. For each process `pc` is
the await it is suspended at, `seen` the row it read at the top of its loop, and
`sent` the Coston2 transaction it waits for. `payments`, `fdcTxs` and `mintTxs`
are everything ever signed or broadcast; a hash is a position, 0 is an undefined
column. JavaScript runs without preemption from one await to the next, so that is
one action: it uses `seen`, however stale, and writes `job` as it is now. `Read`
is the top of the loop and its branch; `Sign`, `SubmitPayment`, `AwaitFinality`,
`RequestAttestation`, `CheckpointFdcTx`, `OwnRound`, `ResolveRound`,
`AwaitProof`, `Simulate`, `BypassSimulation`, `Broadcast`, `CheckpointMintTx`,
`AwaitReceipt`, `Reconcile` are the stretches of the branches in order. `Throw`
rejects the pending await, whether or not the request behind it took effect:
because the effect is a step of its own before the checkpoint, "took effect,
answer lost" is the step followed by `Throw` or `Crash`. `Caught` is the catch
block. An illegal move makes `transition` throw into the same catch block.

The chains are external: a payment ends validated, failed or expired (a used
Sequence can never be validated); an FDC request is mined or reverts; a mint
reverts, is delayed, or settles, and a mint of a spent payment reverts. A round is
the number of the request that opened it. Confirmation counts, fees, and
timeouts as numbers are abstracted: a timeout is a `Throw`. `Init` holds the
three rows `run` can meet first: created as protected, created as bare, and
recorded by the status API as signed in Xaman.

### AdapterRegistry and MintShieldRouter

A transaction is one action; a transaction that reverts changes nothing, so it is
not written. `adapters` and `pendingAdapters` are the contract's mappings,
`codeOf` what `EXTCODEHASH` returns, `proposed` a history of what the owner last
asked for and when, kept apart from `effectiveAt` so that the timelock property
does not merely restate the contract's own comparison. `AdapterKillSwitch` adds another
history, `killed`: the adapterIds whose owner's last word was `setAdapterEnabled(false)`.
A proposal he makes after that takes an adapterId out again, one he made before does
not.

In the Router a call frame is an operator from the ledger it starts with to the
set of its outcomes; a frame that fails gives back its caller's ledger, which is
the rollback of `try this.executeAdapter(...)`. `Execute` has the checks in the
code's order (`InvalidIntent`, `CanPull`, `Refusal`, then the adapter).
`AfterDeposit` is the adapter's post-conditions against any answer of a vault,
`FailureVaultDeposit` what the repository's vault can answer and `VaultDeposit`
what a lying one could. `Dispatched` is the ledger of a mint and the account's
approval, from which `execute` starts; `Takes` and `PassesOn` are what foreign code
does with what it was lent. Other adapter code takes what it likes of what it was lent,
pays it to whom it likes, and returns or reverts with any word (`UntrustedExecute`).
Gas is one bit: enough for the fallback reserve or not.

### RecoveryScript

The same conventions as `ExecutorPipeline`: `seen`, `quoteOf` (the quote is
computed once per start, by `DirectMintQuote` from the settings of that moment),
`sent`, one action per await. `Reject` are awaits that can only reject in the present
state, `Fault` any await that rejects or dies. The settings, and with them the price,
may change at any moment (`ChangeSettings`).

### DirectMintQuote

The fee and the quote as functions of amounts and settings. The loop of
`quoteGrossDirectMint` is the first sufficient amount from the candidate on, of
`MaxRaises + 1` tried: the theorem below shows that it is always the candidate
itself, so that bound excludes nothing.

### PublicTimeline and RecoveryTimeline

`Completed` and `CompletedSteps` are the set of steps that `timeline` shows as
completed for a row; `Backed` and `BackedStep` say what must have happened for each.
The recovery part stands for both copies of that code, that of a live row and that
of an exported one.

### XamanSigning

`job` has the row of each intent key, `post` and `poll` the await each open request
is suspended at with what it has read so far, `payloads` what Xaman holds of the
payloads returned, `work` what the worker is about to write. `Plan` is planning and
the check for an existing row, `Bind` the insert and the transition after Xaman's
answer (no await between them), `Ask` and `Answer` the two halves of the GET. The
server and the worker are two processes on one file: the SELECT and the UPDATE of a
transition, which nothing holds together, are two steps for each (`Answer` and
`UpdateRow`, `WorkerSelect` and `WorkerUpdate`), and the UPDATE writes back every
column that was selected. Within the server nothing else runs between the two
(`ServerFree`). `Die` ends every open request and may leave the row of an insert
without its UUID. A member of `UserOps` stands for the bytes of a user operation. The
deadline among them counts whole seconds and nothing else sets two plans apart, so
requests that ask the same thing in one second plan the same member, and `Plan` takes
any of them at any time; plans of different seconds are different members of one key.
The row names one payload (`NamedByRow`): asking for another one of the same bytes is
answered 404.

### SigningPage

`page` is the part of `state` that the signing flow uses, and what the preview panel
shows. A handler that waits for an answer does not own the page meanwhile: the
answer (`PreviewAnswers`, `RequestAnswers`, `CheckAnswers`) or the socket's event
(`SocketOpened`, `SocketResolved`) changes the page as it is when it arrives. What
the code draws is drawn in the same step (`Rendered`, `ErrorPanel`, `WithStatus`),
since a redraw brings back buttons that were disabled. A request that the page sends
is `XamanSigning`'s own action with a condition on the page, so the composition is
`ServerStep`, the page's own steps, and the two requests.

## 3. What is checked

| Run | Shows | States |
|---|---|---|
| `pipeline` | one `executor:run` process and one worker on one row, protected or bare, with a crash: the safety properties, `SignedJobRests`, the public timeline, and `KeepsPromise` (refinement of `DirectMintPromise`) | 685 k |
| `router_settlement` | two instances (`MCRouterScopes`): two user operations over four intents under a changing registry, donations, pauses and every answer of vault and adapter, with `KeepsRouterPromise` (refinement of `RouterPromise`); and one payment in flight over three versions of an adapter and five ticks: the timelock, and what it gives a payment that settles within the delay | 769 k |
| `recovery` | an operator who restarts the script after each of two faults, under six fee settings that may change, the recovery timeline of every row on the way, and `KeepsRecoveryPromise` (refinement of `RecoveryPromise`) | 117 k |
| `xaman_signing` | a tab with two signing requests and two status checks that overlap, over two user operations of one nonce, either of which both requests may plan; two payloads, failures, server deaths, the worker, and `KeepsSigningPromise` (refinement of `SigningPromise`) | 216 k |
| `pipeline_streak`, `pipeline_lost_response`, `pipeline_two_executors`, `registry_kill_switch`, `router_in_flight`, `recovery_restart`, `xaman_forgotten`, `xaman_same_second` | one disagreement each (section 5) | until the counterexample |

### Properties

* `AtMostOnePayment`, `PaymentIsRecorded`: the hash and blob are in the row before
  the payment can leave the process, so whoever resumes submits that payment and
  none other. With one wallet-holding process; with two see section 5.
* `SettledMatchesChain`: two processes may overwrite `flareTxHash` of each other;
  whatever they wrote, a settled row has a mint of its own payment that settled so.
* `EveryBroadcastWasSimulated`: per broadcast, across restarts at
  `SIMULATION_PASSED` and retries from `DELAYED`.
* `RetriesAreBounded`: no number of crashes, workers and shutdown signals retries
  an unmoving status forever.
* `RecoveryHasACause`: a row in `RECOVERY_REQUIRED` has a mint that reverted or
  did not match.
* `TimelineIsBacked`: the status page derives completed steps from the order of the
  statuses; for every row but a failed one each of them did happen, also where a
  bare comparison skips the simulation.
* `SignedJobRests`: a signed job settles, asks for recovery or fails.
* `KeepsPromise`: the whole, against an abstract machine with three variables. It
  adds that a settled report is never changed again, that one mint at most
  consumes the payment, and that it mints only after the payment.
* `SwapWaitsForItsProposal`: a live configuration is replaced only by the latest
  request still standing, once, and after that request's whole delay.
* `RouterHoldsOnlyDonations`, `NothingStaysLent`, `MintIsNeverTakenBack`,
  `IntentSucceedsOnce`, `FallbackChangesNothingElse`, `SuccessIsWorthIt`: the
  Router's promises to a user, whatever code it calls.
* `KeepsRouterPromise`: the same from outside, without intents' checks, calls or
  adapters: each intent is spent or given back once and by its own account, a spend
  costs that account its input at most, and every other step costs nobody anything.
* `NoticedSwapsOnly`: what the delay really gives: a payment signed while no change
  was scheduled and settled within the delay runs the code it was signed for.
* `QuoteIsExact`: under any settings a quoted payment leaves the account what was
  asked for, and at most one unit more; a tested example in `test/Preflight.ts`,
  here the general claim.
* `OneRecoveryPayment`, `StageMatchesChain`, `FlagIsConfirmed`,
  `AttestedPaymentIsUsed`: of the recovery script. The last is conditional: as
  long as the price stays what the job paid. If it changes, the proof of the
  payment already made no longer equals the fresh quote and the script refuses it.
* `KeepsRecoveryPromise`: what the script may bring about, and in which order, against
  a machine of five facts. A second payment by a second operator is a stutter of it:
  that there is none is `OneRecoveryPayment`.
* `RecoveryTimelineIsBacked`: each recovery step shown as completed is backed by the
  very transaction that the page links to, also after a restart that sent another.
* `ReturnedCommits`, `RecordedPaymentCommits`, `PaymentIsKept`: of the signing
  handlers. The row commits to the bytes of every payload that a client was given, and
  names that payload or a later one of the same bytes; it goes on only with a payment
  that the expected account signed for them; and neither process, writing back a row it
  read earlier, leaves it without the payment it had, or with one of other bytes. That
  the row names every returned payload, as the README of the repository says, is
  `ReturnedIsBound`, the violation of `xaman_same_second`. Nor does a payment once
  recorded stay the same: two equal payloads may both be signed, and two checks that
  both read `CREATED` record one after the other.
* `KeepsSigningPromise`: the same across keys, requests and processes: a key is
  committed to one user operation for good, and goes on with one payment at a time,
  which was signed for that user operation.
* `ReviewMatchesRequest`, `EventsAreOfTheRequest`, `VerifiedIsRecorded`: of the page.
  What it shows for review is what the request beside it commits to; no socket of an
  earlier request is heard; "verified" is shown only for a recorded payment, however
  late the answer.
* `SignatureIsShown`: a payment signed in the request on the page is recorded and
  shown, unless the user leaves the request, an error panel replaces it, or another
  payload of the same bytes takes its place (`Displaced`): every later check of the
  earlier one is answered 404, for ever. The exceptions are the code's:
  `SignedIsRecorded`, without them, is the violation of `xaman_forgotten`.

### Bounds, and why they are enough

`MaxErrors = 2` (8 in the code) is the least value at which a streak exists. Two
payments, two mints, one delay and one crash let a second payment, a second broadcast, a
retry and a restart happen; one signer and one worker are the least that interleave.
`MaxFdcRequests = 1` in `pipeline` leaves the second FDC request to
`pipeline_lost_response`, where it is 2. A process at a bound can still throw, so a
bound never ends a job that the code would end otherwise. `simulationAttempts` saturates
at `MaxMints`, above which no broadcast can be compared with it. In the Router one
adapterId, two implementations (the ERC-4626 adapter and any other code), four intents
that differ in the fields the checks tell apart, and amounts 0 and 2: 2 because half of
it, the vault's short share mode, is neither 0 nor 2. Two operations allow a replay. The
two instances of `router_settlement` share one run, and neither has a step that
`RouterNext` has not (`ScopedNext`). The one of the user operations ends its clock at 2,
which is past the short deadline, schedules nothing after the first configuration, and
keeps the code of the untrusted adapter, which may do anything anyway: a changed code
hash is met at the ERC-4626 adapter. The one of the flight has a user operation with one
intent and two requests of the owner, and three versions, which let two changes follow
one another. In `recovery` four mints are a flag and a retry, each sent twice; two
faults are a fault and a fault in the restart; six settings combine no, some and nearly
all relative fee (of `MaxBips = 10`, 10000 in the code) with and without a minimum fee.
In `xaman_signing` two requests are the least that overlap, and two user operations of
one nonce let the second meet the row of the first, with the same bytes or others; two
payloads and two status checks let a row lose its UUID to a second payload and take one
payment over another. A second nonce beside them does not fit (`xaman_forgotten` and
`xaman_same_second` have one); rows of different keys meet only in the worker and on the
page. The safety properties of that run hold for any number of nonces, requests, checks
and payloads: they are theorems.

### Fairness

`ExecutorPipeline`: weak fairness on the worker's poll and on its next step, and on the
end of a delay. `run-worker.ts` polls for ever and every await has a timeout, so a
worker's step is taken or throws; `executor:run` is owed nothing, nor is any chain.
`pipeline` has one worker for that reason, and the bounded crashes mean it is started
again by its supervisor. `RecoveryScript`: weak fairness on the operator's restart and
on the script's steps; the chains answer. `SigningPage`: the server's `Answer` and
`UpdateRow` are steps of a process that runs (strong fairness, because a request may
fail or die in between and be made again), owed to the status checks together and not to
each of them; an answer on its way reaches the tab; a user who looks at a signing
request asks about it again and again; and not every answer to him is lost. Nothing
makes the user sign, preview or reload. `router_*` state no liveness.

`CHECK_DEADLOCK FALSE` appears only in runs without a wallet-holding process, where
a job at rest leaves nobody with anything to do.

## 4. What is proved

`ExecutorPipeline_proofs`, for every set of processes and every bound:

* `TypeCorrect`, `TypeInvCorrect`: `TypeOK`, strengthened to `TypeInv`. `TypeOK`
  alone is not inductive: a receipt becomes the row's status, so the transaction a
  process waits for must be one that was broadcast (`SentIsBroadcast`,
  `SubmittedIsBroadcast`), and a bypassed simulation writes back a status read
  earlier, which is one of three (`MintFromReady`).
* `PaymentRecorded` and `OnePayment`: `PaymentIsRecorded` and `AtMostOnePayment`,
  under `SingleSigner` (at most one process holds a wallet) and with any number of
  workers and crashes. The invariant is `PayInv`: while
  the row is `CREATED` only a signer is inside `run` (`OnlySignerIsIn`), a process at
  the `sign` await works from a row that is still `CREATED` (`SigningIsCurrent`), and
  nothing is signed before the row names it, nor a second time (`SignedIsRecorded`).
  `AtMostOnePayment` follows from `PaymentIsRecorded`, since both payments would be
  the one in the row. The assumption is needed: `pipeline_two_executors` is the
  counterexample without it.

`ExecutorSettlement_proofs`, for the same:

* The argument of the whole module is `NextRowStep`: a step of the system leaves the
  row alone, or is a catch block, or writes a row that `transition` accepts and that
  claims nothing the chain does not show (`Legitimate`).
* `RetriesBounded`: `RetriesAreBounded`. The invariant `StreakCounts` ties the history
  of errors to the streak in the row: once there is an error on the present status,
  they are all in the streak. A status change leaves the streak stale; the next error
  sees that it is of another status, or goes on counting too high, never too low.
* `RecoveryCaused`: `RecoveryHasACause`.
* `SettledByChain`: `SettledMatchesChain`, under `SingleSigner`. Row, readers and mints
  all name the one payment (`RowNamesPayment`, `ReadersNamePayment`,
  `MintsNamePayment`), so a settled mint is of the row's own.
* `BroadcastsSimulated`: `EveryBroadcastWasSimulated`. The count of the row covers the
  broadcasts made and the processes that stand at a broadcast (`SimulationsCover`): the
  second part is what a crash between a simulation and its broadcast gives back.
* `PipelineKeepsPromise`: `KeepsPromise`, under `SingleSigner`: every step maps to a
  step of `DirectMintPromise` or to none. Beside the above it needs that one mint at
  most consumes the payment (`OneConsumed`). `ReportsAreTrue` and `SettlementsAreFinal`
  follow from the abstract machine alone: a reported settlement is the outcome of the
  mint, and no process replaces it.
* `PaymentsBounded`, without `SingleSigner`: `n` processes that may sign sign at most
  `n` payments, however they crash and restart. Those at the `sign` await and the
  payments signed are together at most `n` (`SignBound`): whoever reads the row after
  the first signature finds it signed. `pipeline_two_executors` is therefore also the
  worst case of two.
* `TimelineBacked`: `TimelineIsBacked`, under `SingleSigner`. The timeline says something
  of several columns at once, which two processes may have written. `TimelineInv` ties
  each column to the chain (`ColumnsBacked`) and each process to the attestation it has
  sent or read (`ReadersBacked`). A row past the request stays past it and keeps its
  round (`RowOnlyAdvances`), so what a stale reader has relied on is still so when he
  writes.

`AdapterRegistry_proofs`, for every delay, set of implementations and requests:

* `RegistryTypeCorrect`, and `TimelockHolds`: `SwapWaitsForItsProposal`. The
  invariant is `PendingIsProposed`: what is pending is the latest standing request
  and its `effectiveAt` is the moment of that request plus the delay.

`MintShieldRouter_proofs`, for any accounts, intents, amounts, adapters and delay: every
property of `router_settlement`. The proof follows the call frames: a lemma for
each frame says of its outcomes what its caller relies on (`Outcome`), up to the whole
user operation (`UserOpOutcome`); `RouterInv` adds that a success has used its intent
(`SuccessesAreUsed`) and what a payment in flight may still count on
(`FlightsAreNoticed`: until its delay is over the configuration it was signed for is
live, and nothing pending is due earlier). `RouterImplementsRegistry` says that the
composition is a behaviour of the registry alone, so `TimelockHolds` carries over
(`RouterTimelockHolds`). `RouterKeepsPromise` proves `KeepsRouterPromise` from the
outcomes of the frames; `IntentsSettleForGood` follows from the abstract machine: no
intent is both spent and given back, and neither is undone.

`DirectMintQuote_proofs` and `RecoveryScript_proofs`, for every amount, executor fee
and fee setting:

* `QuoteIsExactForAll`: the first candidate is enough, so the raising loop of the
  code never runs, and what is left over is 0 or 1. The argument is `RelativeFee`:
  a payment `p` with `p * (M - f) >= net * M` keeps at least `net` after a fee of
  `p * f` over `M` rounded down, and rounding the candidate up costs one unit at
  most; the minimum-fee candidate leaves exactly `net` once it is the larger one.
* `QuoteStaysExact`: `QuoteIsExact` in every behaviour of the recovery script.
* `RecoveryTypeCorrect` and `StagesMatchChain` for any number of operators. The
  invariant says what the row's status claims (`RowBacked`) and that what a process has
  read and sent is still good for its next step (`ReadBacked`): a payment is fixed once
  it is final, so a request made for the payment read earlier is one for the row's.
* `OneRecovery`: `OneRecoveryPayment`, under `SingleOperator`. Two operators who both
  read `RECOVERY_REQUIRED` each sign, as two executors do; `RecoveryPaymentsBounded` is
  what holds of them: no more payments than operators.
* `RecoveryTimelineBacked`: `RecoveryTimelineIsBacked`, under `SingleOperator`. `NamesInv`
  says that a row past a mint names the one that took effect and that the process which
  waits for a mint waits for the one in the row (`Follows`). Two operators break it: both
  send a flag, the checkpoint of the second replaces the hash, the first confirms its
  own, and the row names a flag that reverted.
* `RecoveryKeepsPromise`: `KeepsRecoveryPromise`, for any number of operators. Beside the
  invariant it needs that nothing is minted, or about to be, without a validated payment
  (`MintingIsPaid`). `RecoveryInOrder` follows: no report comes early, and a key that is
  free belongs to a deposit that was minted.

`XamanSigning_proofs`, for every number of requests, keys, user operations and payloads,
equal plans included and without any further assumption:

* `SigningTypeCorrect`, `ReturnedCommit`, `PaymentCommits`, `PaymentKept`. The invariant:
  a row is of its own key and has a payment exactly from `XRPL_SIGNED` on (`RowsFit`);
  and what a status check or the worker has selected is still true as far as it counts
  (`PollsRead`, `WorkRead`): the row it will write back names the same payload as the
  present one and carries a payment signed for the row, though perhaps not the one that
  is there by now. That is why the unguarded UPDATE may replace a payment by another of
  the same bytes, and can do no worse.
* `SigningKeepsPromise`: `KeepsSigningPromise`. A key without a row is committed to
  nothing (`FreeKey`), a row that is written back takes a payment of its payloads or
  changes nothing of what was promised (`ReplacedKeepsPromise`). `OnePaymentAtATime`
  follows: one payment per intent key at a time, signed for its user operation, and
  never none again.

`SigningPage_proofs`, for the same:

* `PageImplementsSigning`: every behaviour of the composition is one of `XamanSigning`,
  so those theorems hold beside the dashboard.
* `PageTypeCorrect`, `ReviewMatches`, `EventsMatch`, `VerifiedRecorded`, from the
  invariant that the page is `Truthful`.

The assumptions are the named `ASSUME`s of the modules, which the runs evaluate.

Only model-checked is liveness: `SignedJobRests`, `FlagIsConfirmed`,
`AttestedPaymentIsUsed`, `SignatureIsShown`. The prover has neither fairness nor
`ENABLED`. Every other property of a passing run is a theorem.

## 5. Where the code and its documentation disagree

Each is a run that ends in a counterexample, with the quotation in `PROJECT.json`.

* `pipeline_two_executors`: two `executor:run` processes read `CREATED` before
  either has stored a signature. The second `transition` to `XRPL_SIGNED` is
  accepted as a same-status update and replaces hash and blob; both are submitted
  with successive Sequences if one is signed after the other's ledger, and two
  payments are made.
* `pipeline_streak`: `errorStreak` is compared with the present status only and not
  cleared by progress, so errors before and after a delay add up at
  `FLARE_SUBMITTED`.
* `pipeline_lost_response`: `writeContract` takes effect, its answer is lost, the
  job broadcasts again; the second mint reverts and its reconciliation sends a job
  that settled to `RECOVERY_REQUIRED`.
* `registry_kill_switch`: the owner proposes an enabled configuration, then disables the
  adapter and asks for nothing else; when the delay is over, anyone's activation of the
  proposal writes its `enabled` over the disabling.
* `router_in_flight`: the delay of 15 minutes is shorter than a payment may be in
  flight, and a change may already be pending when it is signed.
* `recovery_restart`: at `RECOVERY_STUCK_SUBMITTED` the guard against a used
  transaction stops the very restart that would confirm it.
* `xaman_forgotten`: only the page that holds the request asks Xaman for its result; a
  preview or a reload drops the request, and a payment signed after that is never
  recorded.
* `xaman_same_second`: two POSTs of one form in one second, from two sign buttons or two
  tabs, plan the same bytes; both find no row, both payloads are returned, and the
  second UUID replaces the first, which no row names from then on. It goes further in
  `xaman_signing`: when the status of the first was being asked before the replacement,
  both payloads can be signed and both recorded, one hash over the other, although the
  handler means to refuse a second payment (`status-api.ts:436`).

Three more that no run shows. With two status checks and the worker, a
row goes back from `XRPL_FINALIZED` to `XRPL_SIGNED` when the UPDATE of a GET that
selected it as `XRPL_SIGNED` lands after the worker's; the payment is the same, and the
worker submits its blob again. `scripts/recover-bare-comparison.ts:395`
writes simulation evidence into the row of a bare comparison, so its timeline then
shows a simulation before a mint that had none. And
`scripts/migrate-coston2-router.ts:226` expects the version that under the timelock
is only scheduled. They are listed under `hazards`.

## 6. What is not modelled

SQL, JSON and RPC encodings; XRPL confirmation counts; FDC round arithmetic; gas as
a number; FXRP as anything but an exact ERC-20; reentrant calls (they revert);
ownership transfer; the read-only evidence endpoints (`api/index.ts`), the redaction
of metadata, and the list of jobs, its dialog and the languages of the dashboard,
which render what the API answers; service readiness; chain clients, ABIs and
environment parsing; deployment, migration and verification scripts, which run once
and keep no state of the system. `transition` is atomic in every module but
`XamanSigning`: within one Node process it is, since it has no await, but two
processes interleave between its read and its update.

## 7. Plan

In this order; a new question replaces or joins an existing run, so that the
project stays checkable in half an hour.

1. `ExecutorStateStore`: `transition`, `createOrGet` and `recordError` as separate
   reads and writes of two executors on one row (`XamanSigning` has them for the
   server and the worker), with the uniqueness of `intent_key` and `xrpl_tx_hash`, and
   the atomic transition of `ExecutorPipeline` as its abstract specification.
2. The quote across a deposit: settings that change between the plan and the mint,
   and what the Router then does with less than the intent's input.
3. Composition of `XamanSigning` with the whole pipeline instead of its first
   transition: the row the handlers write is the row the worker runs, and
   `DirectMintPromise` pays what `SigningPromise` has recorded.
4. Theorems: what holds of a settled row when several processes sign, beyond the bound
   on their payments.
