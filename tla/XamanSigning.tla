----------------------------- MODULE XamanSigning -----------------------------
(***************************************************************************)
(* The two Xaman handlers of the status API (scripts/status-api.ts).  POST *)
(* plans a deposit, has Xaman create a payload and binds it to the job row *)
(* of the Personal Account nonce, the intent key; GET asks Xaman about a   *)
(* payload and records the signed payment.  The server is one Node         *)
(* process: a handler runs without interruption between awaits, and any    *)
(* number of requests wait at the same time.  The worker is another        *)
(* process on the same SQLite file, so the SELECT and the UPDATE of a      *)
(* transition (state-store.ts) are two steps.  A payload's UUID and the    *)
(* hash of the payment it leads to are its position in `payloads`, which   *)
(* holds those that a client was given: nobody has seen the others.  Xaman *)
(* and the wallet are external.  A request that fails answers at once: it  *)
(* may as well fail later.                                                 *)
(*                                                                         *)
(* A user operation stands for its bytes.  The deadline among them counts  *)
(* whole seconds, and nothing else sets two requests apart: two plans that *)
(* ask the same thing in one second are one user operation, and plans of   *)
(* different seconds are different ones under the same key.                *)
(***************************************************************************)
EXTENDS Naturals, Sequences, JobStatus

CONSTANTS
    Posts,        \* POST requests that may be open at the same time
    Polls,        \* GET requests that may be open at the same time
    UserOps,      \* the user operations that plans may encode
    KeyOf,        \* the intent key of a user operation: its account and nonce
    MaxPayloads   \* bound: payloads returned

Keys == {KeyOf[op] : op \in UserOps}

ASSUME KeyOfAssumption == KeyOf \in [UserOps -> Keys]
ASSUME MaxPayloadsAssumption == MaxPayloads \in Nat \ {0}

VARIABLES
    job,        \* the row of each intent key; uuid and hash 0 are undefined
    payloads,   \* what Xaman holds of the payloads returned
    post,       \* per POST: the plan it waits for Xaman with, or its response
    poll,       \* per GET: the same, with what it has read of the row
    work        \* the UPDATE the worker is about to make

vars == <<job, payloads, post, poll, work>>

NoJob == [status |-> "none"]

Row == [status : MintStatuses, op : UserOps, uuid : Nat, hash : Nat]

\* A declined payload was rejected or has expired.
Ended == {"signed", "misSigned", "declined"}

PayloadStates == {"open", "opened"} \cup Ended

\* What the 200 response of a GET says of the payload, or that no row has it.
Results == {"waiting", "opened", "verified", "rejected", "notFound"}

Idle == [at |-> "idle"]

\* createProtectedMintJob with the metadata that the handler adds.
CreatedRow(op, uuid) == [status |-> "CREATED", op |-> op, uuid |-> uuid, hash |-> 0]

Init ==
    /\ job = [k \in Keys |-> NoJob] /\ payloads = <<>>
    /\ post = [p \in Posts |-> Idle]
    /\ poll = [g \in Polls |-> Idle]
    /\ work = Idle

\* No handler of the server's one thread is inside a transition.
ServerFree == \A g \in Polls : poll[g].at # "update"

---------------------------------------------------------------------------
(* POST /api/xaman/sign-request                                            *)

\* createLivePlan, and no job with this intent key: Xaman is asked.
Plan(p, op) ==
    /\ post[p] = Idle /\ ServerFree
    /\ job[KeyOf[op]] = NoJob
    /\ post' = [post EXCEPT ![p] = [at |-> "xaman", op |-> op]]
    /\ UNCHANGED <<job, payloads, poll, work>>

\* Mutated MayBind: a row of the intent key is taken whatever bytes it commits to.
MayBindAnyOp(row, op) == row # NoJob => CanTransition(row.status, "CREATED")

\* createOrGet accepts no row or one with the same bytes, and the transition that
\* stores the UUID must leave the row CREATED.
MayBind(row, op) == row # NoJob => row.op = op /\ CanTransition(row.status, "CREATED")

\* Mutated Bound: the UUID is not stored; a status of its own.
BoundWithoutUuid(row, op, uuid) == CreatedRow(op, 0)

BoundAsRequested(row, op, uuid) == [CreatedRow(op, uuid) EXCEPT !.status = "SIGN_REQUESTED"]

Bound(row, op, uuid) ==
    IF row = NoJob THEN CreatedRow(op, uuid) ELSE [row EXCEPT !.uuid = uuid]

\* The answer of Xaman: the payload is bound and returned.
Bind(p) ==
    /\ post[p].at = "xaman" /\ ServerFree
    /\ Len(payloads) < MaxPayloads
    /\ LET op == post[p].op
           uuid == Len(payloads) + 1 IN
         /\ MayBind(job[KeyOf[op]], op)
         /\ job' = [job EXCEPT ![KeyOf[op]] = Bound(@, op, uuid)]
         /\ payloads' = Append(payloads, [op |-> op, state |-> "open"])
         /\ post' = [post EXCEPT ![p] = [at |-> "reply", uuid |-> uuid]]
    /\ UNCHANGED <<poll, work>>

\* Xaman refuses or does not answer in time, or the row does not take the payload.
PostFails(p) ==
    /\ post[p].at = "xaman" /\ ServerFree
    /\ post' = [post EXCEPT ![p] = Idle]
    /\ UNCHANGED <<job, payloads, poll, work>>

\* The response arrives.
PostDone(p) ==
    /\ post[p].at = "reply"
    /\ post' = [post EXCEPT ![p] = Idle]
    /\ UNCHANGED <<job, payloads, poll, work>>

---------------------------------------------------------------------------
(* GET /api/xaman/sign-request/:uuid                                       *)

PollReply(result) == [at |-> "reply", result |-> result]

\* getByXamanPayloadUuid: the row of the payload's key still names it.
NamedByRow(u) ==
    LET row == job[KeyOf[payloads[u].op]] IN row # NoJob /\ row.uuid = u

\* The row that has the UUID is read before Xaman is asked; if none has it, a 404.
Ask(g, u) ==
    /\ poll[g] = Idle /\ ServerFree
    /\ u \in DOMAIN payloads
    /\ \/ /\ NamedByRow(u)
          /\ LET row == job[KeyOf[payloads[u].op]] IN
               poll' = [poll EXCEPT ![g] =
                 [at |-> "answer", uuid |-> u, status |-> row.status, hash |-> row.hash]]
       \/ /\ ~NamedByRow(u)
          /\ poll' = [poll EXCEPT ![g] = PollReply("notFound")]
    /\ UNCHANGED <<job, payloads, post, work>>

\* Mutated Verified: the checks of signer and network are left out.
AnySigner(u) == payloads[u].state \in {"signed", "misSigned"}

\* toPublicXamanStatus: resolved, signed, and every check of the signer holds.
Verified(u) == payloads[u].state = "signed"

\* The answer of Xaman about a payload that is not signed; one signed by another
\* account is a 409.
Unsigned(u) ==
    CASE payloads[u].state = "open" -> "waiting"
      [] payloads[u].state = "opened" -> "opened"
      [] payloads[u].state = "declined" -> "rejected"

\* A payment signed by the expected account moves a row that was read as CREATED to
\* XRPL_SIGNED: the SELECT of transition checks the row as it is now.  The rest fails.
Answer(g) ==
    /\ poll[g].at = "answer" /\ ServerFree
    /\ LET u == poll[g].uuid
           row == job[KeyOf[payloads[u].op]] IN
         \/ /\ Verified(u) /\ poll[g].status = "CREATED"
            /\ CanTransition(row.status, "XRPL_SIGNED")
            /\ poll' = [poll EXCEPT ![g] = [at |-> "update", uuid |-> u,
                   row |-> [row EXCEPT !.status = "XRPL_SIGNED", !.hash = u]]]
         \/ /\ Verified(u) /\ poll[g].status # "CREATED" /\ poll[g].hash \in {0, u}
            /\ poll' = [poll EXCEPT ![g] = [at |-> "reply", result |-> "verified"]]
         \/ /\ payloads[u].state \in {"open", "opened", "declined"}
            /\ poll' = [poll EXCEPT ![g] = [at |-> "reply", result |-> Unsigned(u)]]
         \/ /\ payloads[u].state \in {"signed", "misSigned"}
            /\ ~Verified(u) \/ ~IF poll[g].status = "CREATED"
                                THEN CanTransition(row.status, "XRPL_SIGNED")
                                ELSE poll[g].hash \in {0, u}
            /\ poll' = [poll EXCEPT ![g] = Idle]
    /\ UNCHANGED <<job, payloads, post, work>>

\* The UPDATE by id: every column of the row that was selected is written back.
UpdateRow(g) ==
    /\ poll[g].at = "update"
    /\ job' = [job EXCEPT ![KeyOf[payloads[poll[g].uuid].op]] = poll[g].row]
    /\ poll' = [poll EXCEPT ![g] = [at |-> "reply", result |-> "verified"]]
    /\ UNCHANGED <<payloads, post, work>>

\* Xaman does not answer in time.
PollFails(g) ==
    /\ poll[g].at = "answer" /\ ServerFree
    /\ poll' = [poll EXCEPT ![g] = Idle]
    /\ UNCHANGED <<job, payloads, post, work>>

PollDone(g) ==
    /\ poll[g].at = "reply"
    /\ poll' = [poll EXCEPT ![g] = Idle]
    /\ UNCHANGED <<job, payloads, post, work>>

---------------------------------------------------------------------------
(* The end of the server process, the worker and the wallet                *)

\* Every open request fails; between the insert and the transition of a POST the row
\* has no UUID.
Die ==
    /\ \/ UNCHANGED job
       \/ \E p \in Posts :
            /\ post[p].at = "xaman" /\ job[KeyOf[post[p].op]] = NoJob
            /\ job' = [job EXCEPT ![KeyOf[post[p].op]] = CreatedRow(post[p].op, 0)]
    /\ post' = [p \in Posts |->
          IF post[p].at = "xaman" THEN Idle ELSE post[p]]
    /\ poll' = [g \in Polls |->
          IF poll[g].at \in {"answer", "update"} THEN Idle ELSE poll[g]]
    /\ UNCHANGED <<payloads, work>>

\* Mutated WorkerTakes: rows that wait for a signature are taken too.
WorkerTakesCreated(row) == row.status \in {"CREATED", "XRPL_SIGNED"}

\* runRunnable: the row has a signed payment.
WorkerTakes(row) == row.status = "XRPL_SIGNED"

\* The worker moves a signed row on, by the SELECT of a transition and its UPDATE, unless
\* it dies in between.  The statuses it goes on to (FAILED too) are alike here:
\* none leads back to XRPL_SIGNED.
WorkerSelect(k) ==
    /\ work = Idle /\ WorkerTakes(job[k])
    /\ work' = [at |-> "update", key |-> k,
                row |-> [job[k] EXCEPT !.status = "XRPL_FINALIZED"]]
    /\ UNCHANGED <<job, payloads, post, poll>>

WorkerUpdate ==
    /\ work # Idle
    /\ job' \in {job, [job EXCEPT ![work.key] = work.row]}
    /\ work' = Idle
    /\ UNCHANGED <<payloads, post, poll>>

\* The user opens the payload and signs it, with the expected account or another one, or
\* declines, or lets it expire.
Resolve(u) ==
    /\ payloads[u].state \notin Ended
    /\ \E s \in PayloadStates \ {"open", payloads[u].state} :
         /\ s \in {"signed", "misSigned"} => payloads[u].state = "opened"
         /\ payloads' = [payloads EXCEPT ![u].state = s]
    /\ UNCHANGED <<job, post, poll, work>>

\* The steps that no client takes part in.
ServerNext ==
    \/ \E p \in Posts : Bind(p) \/ PostFails(p)
    \/ \E g \in Polls : Answer(g) \/ UpdateRow(g) \/ PollFails(g)
    \/ \E u \in DOMAIN payloads : Resolve(u)
    \/ \E k \in Keys : WorkerSelect(k)
    \/ WorkerUpdate
    \/ Die

Next ==
    \/ ServerNext
    \/ \E p \in Posts, op \in UserOps : Plan(p, op)
    \/ \E g \in Polls, u \in 1 .. MaxPayloads : Ask(g, u)
    \/ \E p \in Posts : PostDone(p)
    \/ \E g \in Polls : PollDone(g)

Spec == Init /\ [][Next]_vars

---------------------------------------------------------------------------
(* Properties                                                              *)

\* Every variable keeps its type.
TypeOK ==
    /\ job \in [Keys -> {NoJob} \cup Row]
    /\ payloads \in Seq([op : UserOps, state : PayloadStates])
    /\ post \in [Posts -> {Idle} \cup [at : {"xaman"}, op : UserOps]
                               \cup [at : {"reply"}, uuid : Nat]]
    /\ poll \in [Polls -> {Idle}
            \cup [at : {"answer"}, uuid : Nat, status : MintStatuses, hash : Nat]
            \cup [at : {"update"}, uuid : Nat, row : Row]
            \cup [at : {"reply"}, result : Results]]
    /\ work \in {Idle} \cup [at : {"update"}, key : Keys, row : Row]

\* The user signed payload u, of user operation op, with the expected account.
SignedFor(u, op) ==
    /\ u \in DOMAIN payloads
    /\ payloads[u].state = "signed" /\ payloads[u].op = op

\* "The status API binds every returned Xaman payload UUID to the exact userOpHash":
\* the row of its key names every payload that a client was given, and commits to its
\* bytes.  Two equal plans break it: the second payload takes the place of the first.
ReturnedIsBound ==
    \A u \in DOMAIN payloads :
        LET row == job[KeyOf[payloads[u].op]] IN
        row # NoJob /\ row.uuid = u /\ row.op = payloads[u].op

\* What holds instead, however requests overlap and fail: the row of its key commits to
\* the bytes of every payload that a client was given, and the payload it names is that
\* one or was returned later, for the same bytes.
ReturnedCommits ==
    \A u \in DOMAIN payloads :
        LET row == job[KeyOf[payloads[u].op]] IN
        /\ row # NoJob /\ row.op = payloads[u].op
        /\ row.uuid \in u .. Len(payloads)
        /\ payloads[row.uuid].op = row.op

\* The payment that a row goes on with was signed by the expected account and
\* commits to the row's own user operation, however stale the row was when read.
RecordedPaymentCommits ==
    \A k \in Keys : job[k] # NoJob /\ job[k].hash # 0 => SignedFor(job[k].hash, job[k].op)

\* A row never loses the payment it has, whichever of the two processes writes back a
\* row that it read earlier; it goes over to another one only if the user signed the very
\* same bytes twice, in two payloads.
PaymentIsKept ==
    [][\A k \in Keys : job[k] # NoJob /\ job[k].hash # 0 =>
         /\ job'[k].op = job[k].op /\ job'[k].hash # 0
         /\ job'[k].hash # job[k].hash =>
              SignedFor(job[k].hash, job[k].op) /\ SignedFor(job'[k].hash, job[k].op)]_vars

---------------------------------------------------------------------------
(* Refinement                                                              *)

Filled == {k \in Keys : job[k] # NoJob}

Committed == {job[k].op : k \in Filled}

Recorded == {<<job[k].op, job[k].hash>> : k \in {x \in Filled : job[x].hash # 0}}

Signed ==
    {<<payloads[u].op, u>> : u \in {v \in DOMAIN payloads : payloads[v].state = "signed"}}

Abstract == INSTANCE SigningPromise WITH
    Payments <- 1 .. MaxPayloads,
    committed <- Committed, signed <- Signed, recorded <- Recorded

\* "the unique intent key ... is bound to one userOpHash": for good, and to one payment at
\* a time, signed for it, whichever process writes back which row that it read earlier.
KeepsSigningPromise == Abstract!Promise
=============================================================================
