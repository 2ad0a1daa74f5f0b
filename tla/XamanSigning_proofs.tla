-------------------------- MODULE XamanSigning_proofs --------------------------
(***************************************************************************)
(* Theorems about XamanSigning for every number of open requests, every    *)
(* set of user operations and every number of payloads, plans of the same  *)
(* bytes included.                                                         *)
(***************************************************************************)
EXTENDS XamanSigning, SequenceTheorems, TLAPS

---------------------------------------------------------------------------
(* The inductive invariant                                                 *)

RowOf(u) == job[KeyOf[payloads[u].op]]

\* A row is of its own key, and has a payment from XRPL_SIGNED on and not before.
RowsFit ==
    \A k \in Keys : job[k] # NoJob =>
        /\ KeyOf[job[k].op] = k
        /\ job[k].status \in {"CREATED", "XRPL_SIGNED", "XRPL_FINALIZED"}
        /\ job[k].status = "CREATED" <=> job[k].hash = 0

\* A response names a payload that exists.
ReturnedExists ==
    \A p \in Posts : post[p].at = "reply" => post[p].uuid \in DOMAIN payloads

\* Some row has a payment.
Paid == \E k \in Keys : job[k] # NoJob /\ job[k].hash # 0

\* What a status request has read is still true as far as it counts: a row that had a
\* payment has one, what it will write is a payment signed for the row, which names the
\* same payload as when it was selected, and what it has answered happened.
PollsRead ==
    \A g \in Polls :
        /\ poll[g].at \in {"answer", "update"} => poll[g].uuid \in DOMAIN payloads
        /\ poll[g].at = "answer" /\ poll[g].status # "CREATED" =>
             RowOf(poll[g].uuid).hash # 0
        /\ poll[g].at = "update" =>
             LET u == poll[g].uuid IN
               /\ payloads[u].state = "signed"
               /\ poll[g].row = [status |-> "XRPL_SIGNED", op |-> payloads[u].op,
                                 uuid |-> RowOf(u).uuid, hash |-> u]
        /\ poll[g].at = "reply" /\ poll[g].result = "verified" => Paid

\* The row that the worker will write is the present one, except that its payment may
\* be another one signed for it.
WorkRead ==
    work # Idle =>
        /\ job[work.key] # NoJob /\ job[work.key].hash # 0
        /\ work.row.status = "XRPL_FINALIZED"
        /\ work.row.op = job[work.key].op
        /\ work.row.uuid = job[work.key].uuid
        /\ SignedFor(work.row.hash, work.row.op)

Inv ==
    /\ TypeOK /\ RowsFit /\ ReturnedExists /\ PollsRead /\ WorkRead
    /\ ReturnedCommits /\ RecordedPaymentCommits
    /\ Len(payloads) \in 0 .. MaxPayloads

---------------------------------------------------------------------------
(* Cells and rows                                                          *)

\* What an open POST is, by where it is.
LEMMA PostCell ==
    ASSUME TypeOK, NEW p \in Posts
    PROVE  /\ post[p].at \in {"idle", "xaman", "reply"}
           /\ post[p].at = "idle" <=> post[p] = Idle
           /\ post[p].at = "xaman" => post[p].op \in UserOps
           /\ post[p].at = "reply" => post[p].uuid \in Nat
  BY DEF TypeOK, Idle

\* The same of an open GET.
LEMMA PollCell ==
    ASSUME TypeOK, NEW g \in Polls
    PROVE  /\ poll[g].at \in {"idle", "answer", "update", "reply"}
           /\ poll[g].at = "idle" <=> poll[g] = Idle
           /\ poll[g].at = "answer" =>
                poll[g].uuid \in Nat /\ poll[g].status \in MintStatuses /\ poll[g].hash \in Nat
           /\ poll[g].at = "update" => poll[g].uuid \in Nat /\ poll[g].row \in Row
           /\ poll[g].at = "reply" => poll[g].result \in Results
  BY DEF TypeOK, Idle

\* NoJob is no row: a row has an operation.
LEMMA RowCell ==
    ASSUME TypeOK, NEW k \in Keys
    PROVE  /\ job[k] = NoJob \/ job[k] \in Row
           /\ NoJob \notin Row
           /\ job[k] # NoJob <=> job[k].status # "none"
  BY DEF TypeOK, NoJob, Row, MintStatuses

\* What the worker is about to write.
LEMMA WorkCell ==
    ASSUME TypeOK, work # Idle
    PROVE  work.key \in Keys /\ work.row \in Row /\ work.at = "update"
  BY DEF TypeOK, Idle

\* A payload and its key.
LEMMA PayloadCell ==
    ASSUME TypeOK, NEW u \in DOMAIN payloads
    PROVE  /\ payloads[u].op \in UserOps /\ payloads[u].state \in PayloadStates
           /\ KeyOf[payloads[u].op] \in Keys
           /\ u \in Nat \ {0}
  <1>1. payloads \in Seq([op : UserOps, state : PayloadStates])
    BY DEF TypeOK
  <1>2. u \in 1 .. Len(payloads) /\ Len(payloads) \in Nat
    BY <1>1, LenProperties
  <1>3. payloads[u] \in [op : UserOps, state : PayloadStates]
    BY <1>1, <1>2, ElementOfSeq
  <1> QED BY <1>2, <1>3, KeyOfAssumption

\* The payloads are numbered from 1.
LEMMA PayloadsDomain ==
    ASSUME TypeOK
    PROVE  Len(payloads) \in Nat /\ DOMAIN payloads = 1 .. Len(payloads)
  <1>1. payloads \in Seq([op : UserOps, state : PayloadStates])
    BY DEF TypeOK
  <1> QED BY <1>1, LenProperties

\* The row of a payload that a client was given.
LEMMA PayloadRow ==
    ASSUME Inv, NEW u \in DOMAIN payloads
    PROVE  /\ u \in Nat \ {0} /\ KeyOf[payloads[u].op] \in Keys
           /\ RowOf(u) \in Row /\ RowOf(u) # NoJob
           /\ RowOf(u).op = payloads[u].op
  <1>1. KeyOf[payloads[u].op] \in Keys /\ u \in Nat \ {0}
    BY PayloadCell DEF Inv
  <1> QED BY <1>1, RowCell DEF Inv, ReturnedCommits, RowOf

\* Where the rows of XamanSigning may go.
LEMMA Moves ==
    /\ \A s \in {"CREATED", "XRPL_SIGNED", "XRPL_FINALIZED"} :
         /\ CanTransition(s, "CREATED") <=> s = "CREATED"
         /\ CanTransition(s, "XRPL_SIGNED") <=> s \in {"CREATED", "XRPL_SIGNED"}
  BY DEF CanTransition, Transitions

LEMMA InitInv == Init => Inv
  <1> SUFFICES ASSUME Init PROVE Inv
    OBVIOUS
  <1>1. payloads = <<>> /\ DOMAIN payloads = {} /\ Len(payloads) = 0
    BY DEF Init
  <1>2. TypeOK
    <2>1. payloads \in Seq([op : UserOps, state : PayloadStates])
      BY <1>1
    <2> QED BY <2>1 DEF Init, TypeOK, Idle, NoJob
  <1>3. RowsFit /\ RecordedPaymentCommits
    BY DEF Init, RowsFit, RecordedPaymentCommits
  <1>4. ReturnedExists /\ PollsRead /\ WorkRead /\ ReturnedCommits
    BY <1>1 DEF Init, Idle, ReturnedExists, PollsRead, WorkRead, ReturnedCommits
  <1> QED BY <1>1, <1>2, <1>3, <1>4, MaxPayloadsAssumption DEF Inv

---------------------------------------------------------------------------
(* The steps of a POST                                                     *)

\* A plan changes nothing but its own request.
LEMMA PlanKeepsInv ==
    ASSUME Inv, NEW p \in Posts, NEW op \in UserOps, Plan(p, op)
    PROVE  Inv'
  <1> USE DEF Inv
  <1>1. /\ post' = [post EXCEPT ![p] = [at |-> "xaman", op |-> op]]
        /\ UNCHANGED <<job, payloads, poll, work>>
    BY DEF Plan
  <1>2. /\ post'[p] = [at |-> "xaman", op |-> op]
        /\ \A q \in Posts \ {p} : post'[q] = post[q]
    BY <1>1 DEF TypeOK
  <1>3. TypeOK'
    BY <1>1 DEF TypeOK
  <1>4. ReturnedExists'
    BY <1>1, <1>2 DEF ReturnedExists
  <1> QED BY <1>1, <1>3, <1>4
       DEF RowsFit, PollsRead, WorkRead, ReturnedCommits, RecordedPaymentCommits, RowOf,
           Paid, SignedFor

\* A request that fails, or a response that arrives.
LEMMA PostEndsKeepsInv ==
    ASSUME Inv, NEW p \in Posts, PostFails(p) \/ PostDone(p)
    PROVE  Inv'
  <1> USE DEF Inv
  <1>1. /\ post' = [post EXCEPT ![p] = Idle]
        /\ UNCHANGED <<job, payloads, poll, work>>
    BY DEF PostFails, PostDone
  <1>2. /\ post'[p] = Idle
        /\ \A q \in Posts \ {p} : post'[q] = post[q]
    BY <1>1 DEF TypeOK
  <1>3. TypeOK'
    BY <1>1 DEF TypeOK
  <1>4. ReturnedExists'
    BY <1>1, <1>2 DEF ReturnedExists, Idle
  <1> QED BY <1>1, <1>3, <1>4
       DEF RowsFit, PollsRead, WorkRead, ReturnedCommits, RecordedPaymentCommits, RowOf,
           Paid, SignedFor

\* A payload is bound only to a row of its own bytes that has no payment.
LEMMA BindKeepsInv ==
    ASSUME Inv, NEW p \in Posts, Bind(p)
    PROVE  Inv'
  <1> USE DEF Inv
  <1> DEFINE op == post[p].op
             key == KeyOf[op]
             uuid == Len(payloads) + 1
             new == [op |-> op, state |-> "open"]
  <1>1. /\ post[p].at = "xaman" /\ ServerFree
        /\ Len(payloads) < MaxPayloads
        /\ MayBind(job[key], op)
        /\ job' = [job EXCEPT ![key] = Bound(job[key], op, uuid)]
        /\ payloads' = Append(payloads, new)
        /\ post' = [post EXCEPT ![p] = [at |-> "reply", uuid |-> uuid]]
        /\ UNCHANGED <<poll, work>>
    BY DEF Bind
  <1>2. op \in UserOps /\ key \in Keys
    BY <1>1, PostCell, KeyOfAssumption
  <1>3. /\ Len(payloads) \in Nat /\ uuid \in Nat \ {0} /\ uuid \notin DOMAIN payloads
        /\ DOMAIN payloads' = DOMAIN payloads \cup {uuid}
        /\ payloads'[uuid] = new
        /\ \A u \in DOMAIN payloads : payloads'[u] = payloads[u]
        /\ Len(payloads') = uuid
        /\ DOMAIN payloads = 1 .. Len(payloads) /\ DOMAIN payloads' = 1 .. uuid
        /\ payloads' \in Seq([op : UserOps, state : PayloadStates])
    <2>1. new \in [op : UserOps, state : PayloadStates]
      BY <1>2 DEF PayloadStates
    <2>2. payloads \in Seq([op : UserOps, state : PayloadStates])
      BY DEF TypeOK
    <2> HIDE DEF new
    <2>3. Len(payloads) \in Nat /\ DOMAIN payloads = 1 .. Len(payloads)
      BY <2>2, LenProperties
    <2>4. /\ payloads' \in Seq([op : UserOps, state : PayloadStates])
          /\ Len(payloads') = uuid
          /\ \A u \in 1 .. Len(payloads) : payloads'[u] = payloads[u]
          /\ payloads'[uuid] = new
      BY <1>1, <2>1, <2>2, AppendProperties
    <2>5. DOMAIN payloads' = 1 .. uuid
      BY <2>4, LenProperties
    <2> QED BY <2>3, <2>4, <2>5
  \* The row as it was, if there was one, waits for a payment of the same bytes.
  <1>4. job[key] # NoJob =>
          /\ job[key] \in Row /\ job[key].op = op
          /\ job[key].status = "CREATED" /\ job[key].hash = 0
    BY <1>1, <1>2, RowCell, Moves DEF MayBind, RowsFit
  <1>5. /\ job'[key] \in Row /\ job'[key] # NoJob
        /\ job'[key].op = op /\ job'[key].uuid = uuid
        /\ job'[key].status = "CREATED" /\ job'[key].hash = 0
        /\ \A k \in Keys \ {key} : job'[k] = job[k]
    <2>1. job'[key] = Bound(job[key], op, uuid) /\ \A k \in Keys \ {key} : job'[k] = job[k]
      BY <1>1, <1>2 DEF TypeOK
    <2>2. CASE job[key] = NoJob
      BY <2>1, <2>2, <1>2, <1>3 DEF Bound, CreatedRow, Row, NoJob, MintStatuses
    <2>3. CASE job[key] # NoJob
      BY <2>1, <2>3, <1>2, <1>3, <1>4 DEF Bound, Row, NoJob
    <2> QED BY <2>1, <2>2, <2>3
  \* The key's row has no payment, so whatever has one is left as it is.
  <1>6. /\ \A k \in Keys : job[k] # NoJob /\ job[k].hash # 0 => job'[k] = job[k]
        /\ Paid => Paid'
    <2>1. \A k \in Keys : job[k] # NoJob /\ job[k].hash # 0 => job'[k] = job[k]
      BY <1>4, <1>5
    <2> QED BY <2>1 DEF Paid
  <1>7. /\ \A u \in DOMAIN payloads : RowOf(u).hash # 0 => RowOf(u)'.hash # 0
        /\ \A u, o : SignedFor(u, o) => SignedFor(u, o)'
    <2>1. \A u \in DOMAIN payloads : RowOf(u).hash # 0 => RowOf(u)'.hash # 0
      BY <1>3, <1>6, PayloadRow DEF RowOf
    <2>2. \A u, o : SignedFor(u, o) => SignedFor(u, o)'
      BY <1>3 DEF SignedFor
    <2> QED BY <2>1, <2>2
  <1>8. post'[p] = [at |-> "reply", uuid |-> uuid] /\ \A q \in Posts \ {p} : post'[q] = post[q]
    BY <1>1 DEF TypeOK
  <1>9. TypeOK'
    <2>1. job' \in [Keys -> {NoJob} \cup Row]
      BY <1>1, <1>2, <1>5 DEF TypeOK
    <2>2. [at |-> "reply", uuid |-> uuid] \in [at : {"reply"}, uuid : Nat]
      BY <1>3
    <2> HIDE DEF uuid
    <2> QED BY <1>1, <1>3, <2>1, <2>2 DEF TypeOK
  <1>10. RowsFit'
    BY <1>2, <1>3, <1>5 DEF RowsFit
  <1>11. ReturnedExists'
    BY <1>3, <1>8 DEF ReturnedExists
  <1>12. PollsRead'
    <2> SUFFICES ASSUME NEW g \in Polls PROVE PollsRead!(g)'
      BY DEF PollsRead
    <2>1. poll[g].at # "update" /\ poll' = poll
      BY <1>1 DEF ServerFree
    <2> QED BY <2>1, <1>3, <1>6, <1>7 DEF PollsRead
  <1>13. WorkRead'
    <2> SUFFICES ASSUME work # Idle PROVE WorkRead'
      BY <1>1 DEF WorkRead
    <2>1. work.key \in Keys /\ job'[work.key] = job[work.key]
      BY <1>6, WorkCell DEF WorkRead
    <2> QED BY <2>1, <1>1, <1>7 DEF WorkRead
  <1>14. ReturnedCommits'
    <2> SUFFICES ASSUME NEW u \in DOMAIN payloads' PROVE ReturnedCommits!(u)'
      BY DEF ReturnedCommits
    <2>1. CASE u = uuid
      <3>1. payloads'[u].op = op
        BY <2>1, <1>3
      <3>2. uuid \in uuid .. uuid
        BY <1>3
      <3> QED BY <2>1, <3>1, <3>2, <1>3, <1>5
    <2>2. CASE u # uuid
      <3>1. u \in DOMAIN payloads /\ u \in Nat /\ payloads'[u] = payloads[u]
        BY <2>2, <1>3
      <3>2. KeyOf[payloads[u].op] \in Keys
        BY <3>1, PayloadCell
      <3>3. /\ RowOf(u) # NoJob /\ RowOf(u).op = payloads[u].op
            /\ RowOf(u).uuid \in u .. Len(payloads)
            /\ payloads[RowOf(u).uuid].op = RowOf(u).op
        BY <3>1 DEF ReturnedCommits, RowOf
      <3>4. CASE KeyOf[payloads[u].op] = key
        <4>1. payloads[u].op = op
          BY <3>3, <3>4, <1>4 DEF RowOf
        <4>2. uuid \in u .. uuid
          BY <3>1, <1>3
        <4> QED BY <3>1, <4>1, <4>2, <1>3, <1>5
      <3>5. CASE KeyOf[payloads[u].op] # key
        <4>1. job'[KeyOf[payloads[u].op]] = RowOf(u)
          BY <3>2, <3>5, <1>5 DEF RowOf
        <4>2. RowOf(u).uuid \in u .. uuid /\ RowOf(u).uuid \in DOMAIN payloads
          BY <3>1, <3>3, <1>3
        <4>3. payloads'[RowOf(u).uuid] = payloads[RowOf(u).uuid]
          BY <4>2, <1>3
        <4> QED BY <3>1, <3>3, <4>1, <4>2, <4>3, <1>3
      <3> QED BY <3>4, <3>5
    <2> QED BY <2>1, <2>2
  <1>15. RecordedPaymentCommits'
    BY <1>5, <1>6, <1>7 DEF RecordedPaymentCommits
  <1> QED BY <1>1, <1>3, <1>9, <1>10, <1>11, <1>12, <1>13, <1>14, <1>15,
             MaxPayloadsAssumption

---------------------------------------------------------------------------
(* The steps of a GET                                                      *)

\* What stays when only one GET changes.
LEMMA OnePollKeepsRest ==
    ASSUME Inv, NEW g \in Polls, NEW c,
           poll' = [poll EXCEPT ![g] = c],
           c \in {Idle}
               \cup [at : {"answer"}, uuid : Nat, status : MintStatuses, hash : Nat]
               \cup [at : {"update"}, uuid : Nat, row : Row]
               \cup [at : {"reply"}, result : Results],
           UNCHANGED <<job, payloads, post, work>>
    PROVE  /\ TypeOK' /\ RowsFit' /\ ReturnedExists' /\ WorkRead'
           /\ ReturnedCommits' /\ RecordedPaymentCommits'
           /\ (Len(payloads) \in 0 .. MaxPayloads)'
           /\ poll'[g] = c /\ \A h \in Polls \ {g} : poll'[h] = poll[h]
           /\ \A u : RowOf(u)' = RowOf(u)
           /\ Paid' <=> Paid
  <1> USE DEF Inv
  <1>1. TypeOK'
    BY DEF TypeOK
  <1>2. poll'[g] = c /\ \A h \in Polls \ {g} : poll'[h] = poll[h]
    BY DEF TypeOK
  <1> QED BY <1>1, <1>2
       DEF RowsFit, ReturnedExists, WorkRead, ReturnedCommits, RecordedPaymentCommits,
           RowOf, Paid, SignedFor

\* A GET that is answered: that a payment was verified is true.
LEMMA ReplyKeepsInv ==
    ASSUME Inv, NEW g \in Polls, NEW result \in Results, result = "verified" => Paid,
           poll' = [poll EXCEPT ![g] = PollReply(result)],
           UNCHANGED <<job, payloads, post, work>>
    PROVE  Inv'
  <1> USE DEF Inv
  <1>1. PollReply(result) \in [at : {"reply"}, result : Results]
    BY DEF PollReply
  <1>2. poll'[g] = PollReply(result) /\ \A h \in Polls \ {g} : poll'[h] = poll[h]
    BY <1>1, OnePollKeepsRest
  <1>3. PollsRead'
    <2> SUFFICES ASSUME NEW h \in Polls PROVE PollsRead!(h)'
      BY DEF PollsRead
    <2>1. CASE h = g
      BY <2>1, <1>2 DEF PollReply, Paid
    <2>2. CASE h # g
      BY <2>2, <1>2 DEF PollsRead, RowOf, Paid
    <2> QED BY <2>1, <2>2
  <1> QED BY <1>1, <1>3, OnePollKeepsRest

\* What a GET reads is true of the row.
LEMMA AskKeepsInv ==
    ASSUME Inv, NEW g \in Polls, NEW u, Ask(g, u)
    PROVE  Inv'
  <1> USE DEF Inv
  <1> DEFINE r == RowOf(u)
             c == [at |-> "answer", uuid |-> u, status |-> r.status, hash |-> r.hash]
  <1>1. /\ u \in DOMAIN payloads
        /\ UNCHANGED <<job, payloads, post, work>>
        /\ \/ poll' = [poll EXCEPT ![g] = c]
           \/ poll' = [poll EXCEPT ![g] = PollReply("notFound")]
    BY DEF Ask, RowOf
  <1>2. CASE poll' = [poll EXCEPT ![g] = c]
    <2>1. /\ r \in Row /\ u \in Nat
          /\ r.status # "CREATED" => r.hash # 0
      BY <1>1, PayloadRow DEF RowOf, RowsFit
    <2>2. c \in [at : {"answer"}, uuid : Nat, status : MintStatuses, hash : Nat]
      BY <2>1 DEF Row
    <2> HIDE DEF c
    <2>3. PollsRead'
      <3> SUFFICES ASSUME NEW h \in Polls PROVE PollsRead!(h)'
        BY DEF PollsRead
      <3>1. poll'[g] = c /\ \A i \in Polls \ {g} : poll'[i] = poll[i]
        BY <1>1, <1>2, <2>2, OnePollKeepsRest
      <3>2. CASE h = g
        BY <3>1, <3>2, <1>1, <2>1 DEF RowOf, c
      <3>3. CASE h # g
        BY <3>1, <3>3, <1>1 DEF PollsRead, RowOf, Paid
      <3> QED BY <3>2, <3>3
    <2> QED BY <1>1, <1>2, <2>2, <2>3, OnePollKeepsRest
  <1>3. CASE poll' = [poll EXCEPT ![g] = PollReply("notFound")]
    BY <1>1, <1>3, ReplyKeepsInv DEF Results
  <1> QED BY <1>1, <1>2, <1>3

\* A request that fails, or a response that arrives.
LEMMA PollEndsKeepsInv ==
    ASSUME Inv, NEW g \in Polls, poll' = [poll EXCEPT ![g] = Idle],
           UNCHANGED <<job, payloads, post, work>>
    PROVE  Inv'
  <1> USE DEF Inv
  <1>1. poll'[g] = Idle /\ \A h \in Polls \ {g} : poll'[h] = poll[h]
    BY OnePollKeepsRest
  <1>2. PollsRead'
    <2> SUFFICES ASSUME NEW h \in Polls PROVE PollsRead!(h)'
      BY DEF PollsRead
    <2>1. CASE h = g
      BY <2>1, <1>1 DEF Idle
    <2>2. CASE h # g
      BY <2>2, <1>1 DEF PollsRead, RowOf, Paid
    <2> QED BY <2>1, <2>2
  <1> QED BY <1>2, OnePollKeepsRest

\* A payment is taken up only if it was signed in the payload that was asked about.
LEMMA AnswerKeepsInv ==
    ASSUME Inv, NEW g \in Polls, Answer(g)
    PROVE  Inv'
  <1> USE DEF Inv
  <1> DEFINE u == poll[g].uuid
             r == RowOf(u)
             w == [at |-> "update", uuid |-> u,
                   row |-> [r EXCEPT !.status = "XRPL_SIGNED", !.hash = u]]
  <1>1. poll[g].at = "answer" /\ UNCHANGED <<job, payloads, post, work>>
    BY DEF Answer
  <1>2. u \in DOMAIN payloads
    BY <1>1 DEF PollsRead
  <1>3. u \in Nat /\ r \in Row /\ r # NoJob /\ r.op = payloads[u].op
    BY <1>2, PayloadRow
  <1>4. CASE Verified(u) /\ poll' = [poll EXCEPT ![g] = w]
    <2>1. w.row \in Row /\ w.row = [status |-> "XRPL_SIGNED", op |-> payloads[u].op,
                                    uuid |-> r.uuid, hash |-> u]
      BY <1>3 DEF Row, MintStatuses
    <2>2. w \in [at : {"update"}, uuid : Nat, row : Row]
      BY <2>1, <1>3
    <2> HIDE DEF w
    <2>3. poll'[g] = w /\ \A h \in Polls \ {g} : poll'[h] = poll[h]
      BY <2>2, <1>1, <1>4, OnePollKeepsRest
    <2>4. PollsRead'
      <3> SUFFICES ASSUME NEW h \in Polls PROVE PollsRead!(h)'
        BY DEF PollsRead
      <3>1. CASE h = g
        <4>1. w.at = "update" /\ w.uuid = u
          BY DEF w
        <4> QED BY <3>1, <4>1, <2>1, <2>3, <1>1, <1>2, <1>4 DEF Verified, RowOf
      <3>2. CASE h # g
        BY <3>2, <2>3, <1>1 DEF PollsRead, RowOf, Paid
      <3> QED BY <3>1, <3>2
    <2> QED BY <2>2, <2>4, <1>1, <1>4, OnePollKeepsRest
  <1>5. CASE /\ poll[g].status # "CREATED"
             /\ poll' = [poll EXCEPT ![g] = [at |-> "reply", result |-> "verified"]]
    <2>1. RowOf(u).hash # 0
      BY <1>1, <1>5 DEF PollsRead
    <2>2. Paid
      BY <2>1, <1>2, PayloadRow DEF Paid, RowOf
    <2> QED BY <2>2, <1>1, <1>5, ReplyKeepsInv DEF Results, PollReply
  <1>6. CASE /\ payloads[u].state \in {"open", "opened", "declined"}
             /\ poll' = [poll EXCEPT ![g] = [at |-> "reply", result |-> Unsigned(u)]]
    <2>1. Unsigned(u) \in {"waiting", "opened", "rejected"}
      BY <1>6 DEF Unsigned
    <2> QED BY <2>1, <1>1, <1>6, ReplyKeepsInv DEF Results, PollReply
  <1>7. CASE poll' = [poll EXCEPT ![g] = Idle]
    BY <1>7, <1>1, PollEndsKeepsInv
  <1> QED BY <1>4, <1>5, <1>6, <1>7 DEF Answer, RowOf

---------------------------------------------------------------------------
(* A row that is written back                                              *)

\* A row may be replaced by one of the same payload and bytes with a payment that was
\* signed for it.
MayReplace(k, new) ==
    /\ k \in Keys /\ job[k] # NoJob /\ new \in Row
    /\ new.op = job[k].op /\ new.uuid = job[k].uuid
    /\ new.status \in {"XRPL_SIGNED", "XRPL_FINALIZED"}
    /\ new.hash # 0 /\ SignedFor(new.hash, new.op)

\* Such a replacement keeps what is said of the rows, and a row that had a payment has one.
LEMMA ReplacedKeepsRows ==
    ASSUME Inv, NEW k, NEW new, MayReplace(k, new),
           job' = [job EXCEPT ![k] = new], UNCHANGED payloads
    PROVE  /\ job' \in [Keys -> {NoJob} \cup Row]
           /\ RowsFit' /\ ReturnedCommits' /\ RecordedPaymentCommits' /\ Paid'
           /\ \A l \in Keys : job[l] # NoJob =>
                /\ job'[l] # NoJob /\ job'[l].op = job[l].op /\ job'[l].uuid = job[l].uuid
                /\ job[l].hash # 0 => job'[l].hash # 0
           /\ \A u \in DOMAIN payloads :
                /\ RowOf(u)'.uuid = RowOf(u).uuid
                /\ RowOf(u).hash # 0 => RowOf(u)'.hash # 0
  <1> USE DEF Inv, MayReplace
  <1>1. job'[k] = new /\ \A l \in Keys \ {k} : job'[l] = job[l]
    BY DEF TypeOK
  <1>2. job' \in [Keys -> {NoJob} \cup Row] /\ new # NoJob
    BY RowCell DEF TypeOK
  <1>3. RowsFit'
    BY <1>1, <1>2 DEF RowsFit
  <1>4. RecordedPaymentCommits'
    BY <1>1, <1>2 DEF RecordedPaymentCommits, SignedFor
  <1>5. \A l \in Keys : job[l] # NoJob =>
          /\ job'[l] # NoJob /\ job'[l].op = job[l].op /\ job'[l].uuid = job[l].uuid
          /\ job[l].hash # 0 => job'[l].hash # 0
    BY <1>1, <1>2
  <1>6. \A u \in DOMAIN payloads : KeyOf[payloads[u].op] \in Keys /\ RowOf(u) # NoJob
    BY PayloadRow
  <1>7. ReturnedCommits'
    BY <1>5, <1>6 DEF ReturnedCommits
  <1>8. \A u \in DOMAIN payloads :
          /\ RowOf(u)'.uuid = RowOf(u).uuid
          /\ RowOf(u).hash # 0 => RowOf(u)'.hash # 0
    BY <1>5, <1>6 DEF RowOf
  <1>9. Paid'
    BY <1>1, <1>2 DEF Paid
  <1> QED BY <1>2, <1>3, <1>4, <1>5, <1>7, <1>8, <1>9

\* The row that a GET writes back is such a replacement, however late.
LEMMA UpdateRowMayReplace ==
    ASSUME Inv, NEW g \in Polls, poll[g].at = "update"
    PROVE  MayReplace(KeyOf[payloads[poll[g].uuid].op], poll[g].row)
  <1> DEFINE u == poll[g].uuid
  <1>1. /\ u \in DOMAIN payloads /\ payloads[u].state = "signed"
        /\ poll[g].row = [status |-> "XRPL_SIGNED", op |-> payloads[u].op,
                          uuid |-> RowOf(u).uuid, hash |-> u]
    BY DEF Inv, PollsRead
  <1>2. /\ KeyOf[payloads[u].op] \in Keys /\ u # 0
        /\ RowOf(u) # NoJob /\ RowOf(u).op = payloads[u].op
    BY <1>1, PayloadRow
  <1>3. poll[g].row \in Row
    BY PollCell DEF Inv
  <1> QED BY <1>1, <1>2, <1>3 DEF MayReplace, RowOf, SignedFor

\* The UPDATE of a GET.
LEMMA UpdateRowKeepsInv ==
    ASSUME Inv, NEW g \in Polls, UpdateRow(g)
    PROVE  Inv'
  <1> USE DEF Inv
  <1> DEFINE u == poll[g].uuid
             k == KeyOf[payloads[u].op]
             c == [at |-> "reply", result |-> "verified"]
  <1>1. /\ poll[g].at = "update"
        /\ job' = [job EXCEPT ![k] = poll[g].row]
        /\ poll' = [poll EXCEPT ![g] = c]
        /\ UNCHANGED <<payloads, post, work>>
    BY DEF UpdateRow
  <1>2. MayReplace(k, poll[g].row)
    BY <1>1, UpdateRowMayReplace
  <1>3. c \in [at : {"reply"}, result : Results]
    BY DEF Results
  <1>4. TypeOK'
    BY <1>1, <1>2, <1>3, ReplacedKeepsRows DEF TypeOK
  <1>5. PollsRead'
    <2> SUFFICES ASSUME NEW h \in Polls PROVE PollsRead!(h)'
      BY DEF PollsRead
    <2>1. poll'[g] = c /\ \A i \in Polls \ {g} : poll'[i] = poll[i]
      BY <1>1 DEF TypeOK
    <2>2. /\ Paid'
          /\ \A v \in DOMAIN payloads :
               /\ RowOf(v)'.uuid = RowOf(v).uuid
               /\ RowOf(v).hash # 0 => RowOf(v)'.hash # 0
      BY <1>1, <1>2, ReplacedKeepsRows
    <2>3. CASE h = g
      BY <2>1, <2>2, <2>3
    <2>4. CASE h # g
      BY <2>1, <2>2, <2>4, <1>1 DEF PollsRead
    <2> QED BY <2>3, <2>4
  <1>6. WorkRead'
    BY <1>1, <1>2, ReplacedKeepsRows, WorkCell DEF WorkRead, SignedFor
  <1> QED BY <1>1, <1>2, <1>4, <1>5, <1>6, ReplacedKeepsRows DEF ReturnedExists

---------------------------------------------------------------------------
(* The worker                                                              *)

\* The SELECT of the worker.
LEMMA WorkerSelectKeepsInv ==
    ASSUME Inv, NEW k \in Keys, WorkerSelect(k)
    PROVE  Inv'
  <1> USE DEF Inv
  <1> DEFINE w == [job[k] EXCEPT !.status = "XRPL_FINALIZED"]
             c == [at |-> "update", key |-> k, row |-> w]
  <1>1. /\ job[k].status = "XRPL_SIGNED"
        /\ work' = c
        /\ UNCHANGED <<job, payloads, post, poll>>
    BY DEF WorkerSelect, WorkerTakes
  <1>2. /\ job[k] \in Row /\ job[k] # NoJob /\ job[k].hash # 0
        /\ SignedFor(job[k].hash, job[k].op)
    BY <1>1, RowCell DEF RowsFit, RecordedPaymentCommits, NoJob
  <1>3. /\ w \in Row /\ w.status = "XRPL_FINALIZED"
        /\ w.op = job[k].op /\ w.uuid = job[k].uuid /\ w.hash = job[k].hash
    BY <1>2 DEF Row, MintStatuses
  <1> HIDE DEF w
  <1>4. TypeOK'
    BY <1>1, <1>3 DEF TypeOK
  <1>5. WorkRead'
    BY <1>1, <1>2, <1>3 DEF WorkRead, SignedFor
  <1> QED BY <1>1, <1>4, <1>5
       DEF RowsFit, ReturnedExists, PollsRead, ReturnedCommits, RecordedPaymentCommits,
           RowOf, Paid, SignedFor

\* The row that the worker writes back is such a replacement, however late.
LEMMA WorkMayReplace ==
    ASSUME Inv, work # Idle
    PROVE  MayReplace(work.key, work.row)
  <1>1. work.key \in Keys /\ work.row \in Row
    BY WorkCell DEF Inv
  <1>2. work.row.hash # 0
    BY PayloadCell DEF Inv, WorkRead, SignedFor
  <1> QED BY <1>1, <1>2 DEF Inv, WorkRead, MayReplace

\* The UPDATE of the worker, or its death before it.
LEMMA WorkerUpdateKeepsInv ==
    ASSUME Inv, WorkerUpdate
    PROVE  Inv'
  <1> USE DEF Inv
  <1>1. /\ work # Idle /\ work' = Idle
        /\ UNCHANGED <<payloads, post, poll>>
    BY DEF WorkerUpdate
  <1>2. CASE UNCHANGED job
    <2>1. TypeOK' /\ WorkRead'
      BY <1>1, <1>2 DEF TypeOK, WorkRead
    <2> QED BY <1>1, <1>2, <2>1
         DEF RowsFit, ReturnedExists, PollsRead, ReturnedCommits, RecordedPaymentCommits,
             RowOf, Paid, SignedFor
  <1>3. CASE job' = [job EXCEPT ![work.key] = work.row]
    <2>1. MayReplace(work.key, work.row)
      BY <1>1, WorkMayReplace
    <2>2. TypeOK'
      BY <1>1, <1>3, <2>1, ReplacedKeepsRows DEF TypeOK
    <2>3. PollsRead'
      <3>1. /\ Paid'
            /\ \A v \in DOMAIN payloads :
                 /\ RowOf(v)'.uuid = RowOf(v).uuid
                 /\ RowOf(v).hash # 0 => RowOf(v)'.hash # 0
        BY <1>1, <1>3, <2>1, ReplacedKeepsRows
      <3> QED BY <3>1, <1>1 DEF PollsRead
    <2>4. WorkRead'
      BY <1>1 DEF WorkRead
    <2> QED BY <1>1, <1>3, <2>1, <2>2, <2>3, <2>4, ReplacedKeepsRows DEF ReturnedExists
  <1> QED BY <1>2, <1>3 DEF WorkerUpdate

---------------------------------------------------------------------------
(* The wallet and the end of the server process                            *)

\* A payload that is resolved was not signed before.
LEMMA ResolveKeepsInv ==
    ASSUME Inv, NEW u \in DOMAIN payloads, Resolve(u)
    PROVE  Inv'
  <1> USE DEF Inv
  <1>1. PICK s \in PayloadStates :
          /\ payloads[u].state \notin Ended
          /\ payloads' = [payloads EXCEPT ![u].state = s]
          /\ UNCHANGED <<job, post, poll, work>>
    BY DEF Resolve
  <1>2. payloads \in Seq([op : UserOps, state : PayloadStates])
    BY DEF TypeOK
  <1>3. /\ Len(payloads) \in Nat /\ DOMAIN payloads = 1 .. Len(payloads)
        /\ payloads \in [1 .. Len(payloads) -> [op : UserOps, state : PayloadStates]]
    BY <1>2, LenProperties
  <1>4. /\ payloads' \in [1 .. Len(payloads) -> [op : UserOps, state : PayloadStates]]
        /\ \A v \in DOMAIN payloads : payloads'[v].op = payloads[v].op
        /\ \A v \in DOMAIN payloads : v # u => payloads'[v] = payloads[v]
    BY <1>1, <1>3
  <1>5. /\ payloads' \in Seq([op : UserOps, state : PayloadStates])
        /\ DOMAIN payloads' = DOMAIN payloads /\ Len(payloads') = Len(payloads)
    <2> DEFINE R == [op : UserOps, state : PayloadStates]
    <2>1. payloads' \in Seq(R)
      <3>1. Len(payloads) \in Nat /\ payloads' \in [1 .. Len(payloads) -> R]
        BY <1>3, <1>4
      <3> HIDE DEF R
      <3> QED BY <3>1, SeqDef
    <2>2. DOMAIN payloads' = 1 .. Len(payloads) /\ Len(payloads') \in Nat
          /\ DOMAIN payloads' = 1 .. Len(payloads')
      BY <1>4, <2>1, LenProperties
    <2> QED BY <2>1, <2>2, <1>3
  <1>6. \A v \in DOMAIN payloads : payloads[v].state = "signed" => payloads'[v] = payloads[v]
    BY <1>1, <1>4 DEF Ended
  <1>7. /\ \A v \in DOMAIN payloads : RowOf(v)' = RowOf(v)
        /\ \A v, o : SignedFor(v, o) => SignedFor(v, o)'
    BY <1>1, <1>4, <1>5, <1>6 DEF RowOf, SignedFor
  <1>8. TypeOK'
    BY <1>1, <1>5 DEF TypeOK
  <1>9. PollsRead'
    <2> SUFFICES ASSUME NEW g \in Polls PROVE PollsRead!(g)'
      BY DEF PollsRead
    <2> DEFINE v == poll[g].uuid
    <2>1. PollsRead!(g)
      BY DEF PollsRead
    <2>2. poll' = poll /\ (Paid => Paid')
      BY <1>1 DEF Paid
    <2>3. poll[g].at \in {"answer", "update"} =>
             v \in DOMAIN payloads /\ v \in DOMAIN payloads' /\ RowOf(v)' = RowOf(v)
      BY <2>1, <2>2, <1>5, <1>7 DEF RowOf
    <2>4. poll[g].at = "update" => payloads'[v] = payloads[v]
      BY <2>1, <2>3, <1>6
    <2> QED BY <2>1, <2>2, <2>3, <2>4
  <1>10. ReturnedExists'
    BY <1>1, <1>5 DEF ReturnedExists
  <1>11. ReturnedCommits'
    <2> SUFFICES ASSUME NEW v \in DOMAIN payloads PROVE ReturnedCommits!(v)'
      BY <1>5 DEF ReturnedCommits
    <2>1. /\ RowOf(v) # NoJob /\ RowOf(v).op = payloads[v].op
          /\ RowOf(v).uuid \in v .. Len(payloads)
          /\ payloads[RowOf(v).uuid].op = RowOf(v).op
      BY DEF ReturnedCommits, RowOf
    <2>2. RowOf(v).uuid \in DOMAIN payloads
      BY <1>3, <2>1
    <2> QED BY <1>1, <1>4, <1>5, <2>1, <2>2 DEF RowOf
  <1>12. RecordedPaymentCommits' /\ WorkRead'
    BY <1>1, <1>7 DEF RecordedPaymentCommits, WorkRead
  <1> QED BY <1>1, <1>5, <1>8, <1>9, <1>10, <1>11, <1>12 DEF RowsFit

\* A server that dies leaves a row without a payment, or none.
LEMMA DieKeepsInv ==
    ASSUME Inv, Die
    PROVE  Inv'
  <1> USE DEF Inv
  <1>1. /\ post' = [p \in Posts |-> IF post[p].at = "xaman" THEN Idle ELSE post[p]]
        /\ poll' = [g \in Polls |->
              IF poll[g].at \in {"answer", "update"} THEN Idle ELSE poll[g]]
        /\ UNCHANGED <<payloads, work>>
    BY DEF Die
  \* Only a key without a row gets one, and it belongs to no payload.
  <1>2. /\ job' \in [Keys -> {NoJob} \cup Row]
        /\ \A k \in Keys : job[k] # NoJob => job'[k] = job[k]
        /\ \A k \in Keys : job'[k] # job[k] =>
             \E op \in UserOps : k = KeyOf[op] /\ job'[k] = CreatedRow(op, 0)
    <2>1. CASE UNCHANGED job
      BY <2>1 DEF TypeOK
    <2>2. ASSUME NEW p \in Posts, post[p].at = "xaman", job[KeyOf[post[p].op]] = NoJob,
                 job' = [job EXCEPT ![KeyOf[post[p].op]] = CreatedRow(post[p].op, 0)]
          PROVE  <1>2
      <3>1. post[p].op \in UserOps /\ KeyOf[post[p].op] \in Keys
        BY <2>2, PostCell, KeyOfAssumption
      <3>2. CreatedRow(post[p].op, 0) \in Row
        BY <3>1 DEF CreatedRow, Row, MintStatuses
      <3> QED BY <2>2, <3>1, <3>2 DEF TypeOK
    <2> QED BY <2>1, <2>2 DEF Die
  <1>3. \A op \in UserOps : /\ CreatedRow(op, 0).op = op /\ CreatedRow(op, 0).hash = 0
                            /\ CreatedRow(op, 0).status = "CREATED"
    BY DEF CreatedRow
  <1>4. TypeOK'
    <2>1. \A p \in Posts : post'[p] \in {Idle, post[p]}
      BY <1>1
    <2>2. \A g \in Polls : poll'[g] \in {Idle, poll[g]}
      BY <1>1
    <2> QED BY <1>1, <1>2, <2>1, <2>2 DEF TypeOK
  <1>5. RowsFit'
    BY <1>2, <1>3 DEF RowsFit
  <1>6. RecordedPaymentCommits' /\ (Paid => Paid')
    BY <1>1, <1>2, <1>3 DEF RecordedPaymentCommits, SignedFor, Paid
  <1>7. \A u \in DOMAIN payloads : RowOf(u)' = RowOf(u)
    BY <1>1, <1>2, PayloadRow DEF RowOf
  <1>8. ReturnedCommits'
    BY <1>1, <1>7 DEF ReturnedCommits, RowOf
  <1>9. ReturnedExists'
    BY <1>1 DEF ReturnedExists, Idle
  <1>10. PollsRead'
    <2> SUFFICES ASSUME NEW g \in Polls PROVE PollsRead!(g)'
      BY DEF PollsRead
    <2> QED BY <1>1, <1>6, <1>7 DEF PollsRead, Idle
  <1>11. WorkRead'
    BY <1>1, <1>2, WorkCell DEF WorkRead, SignedFor
  <1> QED BY <1>1, <1>4, <1>5, <1>6, <1>8, <1>9, <1>10, <1>11

---------------------------------------------------------------------------
(* Theorems                                                                *)

\* Every step keeps the invariant.
LEMMA NextInv ==
    ASSUME Inv, [Next]_vars
    PROVE  Inv'
  <1>1. CASE Next
    <2>1. ASSUME NEW p \in Posts, Bind(p) PROVE Inv'
      BY <2>1, BindKeepsInv
    <2>2. ASSUME NEW p \in Posts, PostFails(p) \/ PostDone(p) PROVE Inv'
      BY <2>2, PostEndsKeepsInv
    <2>3. ASSUME NEW p \in Posts, NEW op \in UserOps, Plan(p, op) PROVE Inv'
      BY <2>3, PlanKeepsInv
    <2>4. ASSUME NEW g \in Polls, Answer(g) \/ UpdateRow(g) PROVE Inv'
      BY <2>4, AnswerKeepsInv, UpdateRowKeepsInv
    <2>5. ASSUME NEW g \in Polls, PollFails(g) \/ PollDone(g) PROVE Inv'
      BY <2>5, PollEndsKeepsInv DEF PollFails, PollDone
    <2>6. ASSUME NEW g \in Polls, NEW u, Ask(g, u) PROVE Inv'
      BY <2>6, AskKeepsInv
    <2>7. ASSUME NEW u \in DOMAIN payloads, Resolve(u) PROVE Inv'
      BY <2>7, ResolveKeepsInv
    <2>8. ASSUME NEW k \in Keys, WorkerSelect(k) PROVE Inv'
      BY <2>8, WorkerSelectKeepsInv
    <2>9. CASE WorkerUpdate \/ Die
      BY <2>9, WorkerUpdateKeepsInv, DieKeepsInv
    <2> QED BY <1>1, <2>1, <2>2, <2>3, <2>4, <2>5, <2>6, <2>7, <2>8, <2>9 DEF Next, ServerNext
  <1>2. CASE UNCHANGED vars
    BY <1>2 DEF vars, Inv, TypeOK, RowsFit, ReturnedExists, PollsRead, WorkRead,
                ReturnedCommits, RecordedPaymentCommits, RowOf, Paid, SignedFor
  <1> QED BY <1>1, <1>2

\* However many requests overlap and whatever fails, the variables keep their types.
THEOREM SigningTypeCorrect == Spec => []TypeOK
  <1>1. Inv /\ [Next]_vars => Inv'
    BY NextInv
  <1>2. Inv => TypeOK
    BY DEF Inv
  <1> QED BY <1>1, <1>2, InitInv, PTL DEF Spec

\* For every number of overlapping requests, equal plans, failures and restarts: the row
\* of its key commits to the bytes of every payload a client was given, and names that
\* payload or a later one of the same bytes.
THEOREM ReturnedCommit == Spec => []ReturnedCommits
  <1>1. Inv /\ [Next]_vars => Inv'
    BY NextInv
  <1>2. Inv => ReturnedCommits
    BY DEF Inv
  <1> QED BY <1>1, <1>2, InitInv, PTL DEF Spec

\* The same: the payment a row goes on with was signed by the expected account in a
\* payload of the row's own bytes.
THEOREM PaymentCommits == Spec => []RecordedPaymentCommits
  <1>1. Inv /\ [Next]_vars => Inv'
    BY NextInv
  <1>2. Inv => RecordedPaymentCommits
    BY DEF Inv
  <1> QED BY <1>1, <1>2, InitInv, PTL DEF Spec

\* The step of PaymentIsKept.
PaymentStays ==
    \A k \in Keys : job[k] # NoJob /\ job[k].hash # 0 =>
        /\ job'[k].op = job[k].op /\ job'[k].hash # 0
        /\ job'[k].hash # job[k].hash =>
             SignedFor(job[k].hash, job[k].op) /\ SignedFor(job'[k].hash, job[k].op)

\* A row that is written back has the payment it had, or another one of the same bytes.
LEMMA ReplacedPaymentStays ==
    ASSUME Inv, NEW k, NEW new, MayReplace(k, new), job' = [job EXCEPT ![k] = new]
    PROVE  PaymentStays
  <1>1. job'[k] = new /\ \A l \in Keys \ {k} : job'[l] = job[l]
    BY DEF MayReplace, Inv, TypeOK
  <1> QED BY <1>1 DEF MayReplace, PaymentStays, Inv, RecordedPaymentCommits

\* No step drops the payment of a row, or changes it for one that was not signed for it.
LEMMA NextPaymentStays ==
    ASSUME Inv, [Next]_vars
    PROVE  PaymentStays
  <1>1. CASE UNCHANGED job
    BY <1>1 DEF PaymentStays
  <1>2. ASSUME NEW p \in Posts, Bind(p) PROVE PaymentStays
    <2> DEFINE op == post[p].op
               key == KeyOf[op]
    <2>1. /\ op \in UserOps /\ key \in Keys /\ MayBind(job[key], op)
          /\ job' = [job EXCEPT ![key] = Bound(job[key], op, Len(payloads) + 1)]
      BY <1>2, PostCell, KeyOfAssumption DEF Inv, Bind
    <2>2. job[key] # NoJob => job[key].hash = 0
      BY <2>1, Moves DEF MayBind, Inv, RowsFit
    <2> QED BY <2>1, <2>2 DEF PaymentStays, Inv, TypeOK
  <1>3. ASSUME NEW g \in Polls, UpdateRow(g) PROVE PaymentStays
    BY <1>3, UpdateRowMayReplace, ReplacedPaymentStays DEF UpdateRow
  <1>4. CASE WorkerUpdate
    <2>1. CASE job' = [job EXCEPT ![work.key] = work.row]
      BY <1>4, <2>1, WorkMayReplace, ReplacedPaymentStays DEF WorkerUpdate
    <2> QED BY <1>1, <1>4, <2>1 DEF WorkerUpdate
  <1>5. CASE Die
    <2>1. ASSUME NEW p \in Posts, job[KeyOf[post[p].op]] = NoJob,
                 job' = [job EXCEPT ![KeyOf[post[p].op]] = CreatedRow(post[p].op, 0)]
          PROVE  PaymentStays
      BY <2>1 DEF PaymentStays, Inv, TypeOK
    <2> QED BY <1>1, <1>5, <2>1 DEF Die
  <1> QED BY <1>1, <1>2, <1>3, <1>4, <1>5
       DEF Next, ServerNext, vars, PostFails, PostDone, Plan, Answer, PollFails, PollDone, Ask,
           Resolve, WorkerSelect

\* The same: whichever process writes back a row that it read earlier, a recorded payment
\* is never lost, and gives way only to another one the user signed for the same bytes.
THEOREM PaymentKept == Spec => PaymentIsKept
  <1>1. Inv /\ [Next]_vars => Inv'
    BY NextInv
  <1>2. Inv /\ [Next]_vars => [PaymentStays]_vars
    BY NextPaymentStays
  <1>3. Spec => [][PaymentStays]_vars
    BY <1>1, <1>2, InitInv, PTL DEF Spec
  <1> QED BY <1>3 DEF PaymentIsKept, PaymentStays

---------------------------------------------------------------------------
(* The promise of the store                                                *)

\* A row that is written in place of row k: what it adds to the commitments and to the
\* payments taken.
LEMMA RowReplaced ==
    ASSUME TypeOK, RowsFit, NEW k \in Keys, NEW new \in Row, job' = [job EXCEPT ![k] = new]
    PROVE  /\ job[k] = NoJob /\ new.hash = 0 =>
                Committed' = Committed \cup {new.op} /\ Recorded' = Recorded
           /\ job[k] # NoJob /\ new.op = job[k].op =>
                /\ Committed' = Committed
                /\ new.hash = job[k].hash => Recorded' = Recorded
                /\ new.hash # 0 =>
                     Recorded' = {x \in Recorded : x[1] # new.op}
                                    \cup {<<new.op, new.hash>>}
  <1>1. job'[k] = new /\ \A l \in Keys \ {k} : job'[l] = job[l]
    BY DEF TypeOK
  <1>2. new # NoJob
    BY RowCell
  <1>3. k \in Filled' /\ \A l \in Keys \ {k} : l \in Filled' <=> l \in Filled
    BY <1>1, <1>2 DEF Filled
  <1>4. k \in Filled <=> job[k] # NoJob
    BY DEF Filled
  <1>5. ASSUME job[k] = NoJob, new.hash = 0
        PROVE  Committed' = Committed \cup {new.op} /\ Recorded' = Recorded
    <2>1. Committed' = Committed \cup {new.op}
      BY <1>1, <1>3, <1>4, <1>5 DEF Committed, Filled
    <2>2. Recorded' = Recorded
      BY <1>1, <1>3, <1>4, <1>5 DEF Recorded, Filled
    <2> QED BY <2>1, <2>2
  <1>6. ASSUME job[k] # NoJob, new.op = job[k].op
        PROVE  Committed' = Committed
    BY <1>1, <1>3, <1>4, <1>6 DEF Committed, Filled
  <1>7. ASSUME job[k] # NoJob, new.op = job[k].op, new.hash = job[k].hash
        PROVE  Recorded' = Recorded
    BY <1>1, <1>3, <1>4, <1>7 DEF Recorded, Filled
  <1>8. ASSUME job[k] # NoJob, new.op = job[k].op, new.hash # 0
        PROVE  Recorded' = {x \in Recorded : x[1] # new.op} \cup {<<new.op, new.hash>>}
    <2>1. \A l \in Filled : job[l].op = new.op => l = k
      BY <1>8 DEF RowsFit, Filled
    <2>2. Recorded' = {<<job[l].op, job[l].hash>> : l \in {x \in Filled \ {k} : job[x].hash # 0}}
                         \cup {<<new.op, new.hash>>}
      BY <1>1, <1>3, <1>4, <1>8 DEF Recorded, Filled
    <2>3. {x \in Recorded : x[1] # new.op} =
             {<<job[l].op, job[l].hash>> : l \in {x \in Filled \ {k} : job[x].hash # 0}}
      BY <2>1, <1>4, <1>8 DEF Recorded
    <2> QED BY <2>2, <2>3
  <1> QED BY <1>5, <1>6, <1>7, <1>8

\* A key without a row is committed to nothing yet.
LEMMA FreeKey ==
    ASSUME Inv, NEW op \in UserOps, job[KeyOf[op]] = NoJob
    PROVE  \A other \in Committed : KeyOf[other] # KeyOf[op]
  BY DEF Inv, RowsFit, Committed, Filled

\* A row that a GET or the worker writes back goes on with a payment signed for it.
LEMMA ReplacedKeepsPromise ==
    ASSUME Inv, NEW k, NEW new, MayReplace(k, new),
           job' = [job EXCEPT ![k] = new], UNCHANGED payloads
    PROVE  Abstract!PNext
  <1>1. /\ k \in Keys /\ new \in Row /\ job[k] # NoJob /\ new.op = job[k].op
        /\ new.hash # 0
    BY DEF MayReplace
  <1>2. Signed' = Signed
    BY DEF Signed
  <1>3. /\ Committed' = Committed
        /\ Recorded' = {x \in Recorded : x[1] # new.op} \cup {<<new.op, new.hash>>}
    BY <1>1, RowReplaced DEF Inv
  <1>4. <<new.op, new.hash>> \in Signed
    BY DEF MayReplace, Signed, SignedFor
  <1>5. new.op \in Committed
    BY <1>1 DEF Committed, Filled
  <1>6. Abstract!Record(new.op, new.hash)
    BY <1>2, <1>3, <1>4, <1>5 DEF Abstract!Record
  <1>7. \E s \in Signed : Abstract!Record(s[1], s[2])
    BY <1>4, <1>6
  <1> QED BY <1>7 DEF Abstract!PNext

\* An answer of Xaman commits the key, unless a dead server did, to what was planned.
LEMMA BindKeepsPromise ==
    ASSUME Inv, NEW p \in Posts, Bind(p)
    PROVE  Abstract!PNext \/ UNCHANGED Abstract!promise
  <1> DEFINE op == post[p].op
             k == KeyOf[op]
             uuid == Len(payloads) + 1
             new == Bound(job[k], op, uuid)
             payload == [op |-> op, state |-> "open"]
  <1>1. /\ op \in UserOps /\ k \in Keys /\ MayBind(job[k], op)
        /\ job' = [job EXCEPT ![k] = new]
        /\ payloads' = Append(payloads, payload)
    BY PostCell, KeyOfAssumption DEF Inv, Bind
  <1>2. Signed' = Signed
    <2>1. payloads \in Seq([op : UserOps, state : PayloadStates]) /\ Len(payloads) \in Nat
      BY LenProperties DEF Inv, TypeOK
    <2>2. payload \in [op : UserOps, state : PayloadStates] /\ payload.state = "open"
      BY <1>1 DEF PayloadStates
    <2> HIDE DEF payload
    <2>3. /\ DOMAIN payloads = 1 .. Len(payloads) /\ DOMAIN payloads' = 1 .. Len(payloads) + 1
          /\ \A u \in 1 .. Len(payloads) : payloads'[u] = payloads[u]
          /\ payloads'[Len(payloads) + 1] = payload
      BY <1>1, <2>1, <2>2, AppendProperties, LenProperties
    <2>4. \A u : u \in DOMAIN payloads' /\ payloads'[u].state = "signed" <=>
                 u \in DOMAIN payloads /\ payloads[u].state = "signed"
      BY <2>1, <2>2, <2>3
    <2> QED BY <2>1, <2>3, <2>4 DEF Signed
  <1>3. CASE job[k] = NoJob
    <2>1. new \in Row /\ new.op = op /\ new.hash = 0
      BY <1>1, <1>3, LenProperties DEF Bound, CreatedRow, Row, MintStatuses, Inv, TypeOK
    <2> HIDE DEF new
    <2>2. Committed' = Committed \cup {op} /\ Recorded' = Recorded
      BY <1>1, <1>3, <2>1, RowReplaced DEF Inv
    <2>3. Abstract!Commit(op)
      BY <1>1, <1>2, <1>3, <2>2, FreeKey DEF Abstract!Commit
    <2> QED BY <1>1, <2>3 DEF Abstract!PNext
  <1>4. CASE job[k] # NoJob
    <2>1. job[k] \in Row /\ uuid \in Nat
      BY <1>1, <1>4, RowCell, LenProperties DEF Inv, TypeOK
    <2>2. new = [job[k] EXCEPT !.uuid = uuid]
      BY <1>4 DEF Bound
    <2>3. new \in Row /\ new.op = job[k].op /\ new.hash = job[k].hash
      BY <2>1, <2>2 DEF Row
    <2> HIDE DEF new
    <2>4. Committed' = Committed /\ Recorded' = Recorded
      BY <1>1, <1>4, <2>3, RowReplaced DEF Inv
    <2> QED BY <1>2, <2>4 DEF Abstract!promise
  <1> QED BY <1>3, <1>4

\* A payload is signed once, by its expected account.
LEMMA ResolveKeepsPromise ==
    ASSUME Inv, NEW u \in DOMAIN payloads, Resolve(u)
    PROVE  Abstract!PNext \/ UNCHANGED Abstract!promise
  <1>1. PICK s \in PayloadStates :
          /\ payloads[u].state \notin Ended
          /\ payloads' = [payloads EXCEPT ![u].state = s]
          /\ UNCHANGED job
    BY DEF Resolve
  <1>2. Committed' = Committed /\ Recorded' = Recorded
    BY <1>1 DEF Committed, Recorded, Filled
  <1>3. /\ payloads \in [1 .. Len(payloads) -> [op : UserOps, state : PayloadStates]]
        /\ DOMAIN payloads = 1 .. Len(payloads) /\ Len(payloads) \in 0 .. MaxPayloads
    BY LenProperties DEF Inv, TypeOK
  <1>4. /\ DOMAIN payloads' = DOMAIN payloads
        /\ payloads'[u].op = payloads[u].op /\ payloads'[u].state = s
        /\ \A v \in DOMAIN payloads \ {u} : payloads'[v] = payloads[v]
    BY <1>1, <1>3
  <1>5. payloads[u].state # "signed"
    BY <1>1 DEF Ended
  <1>6. CASE s # "signed"
    <2>1. Signed' = Signed
      BY <1>4, <1>5, <1>6 DEF Signed
    <2> QED BY <1>2, <2>1 DEF Abstract!promise
  <1>7. CASE s = "signed"
    <2>1. Signed' = Signed \cup {<<payloads[u].op, u>>}
      BY <1>4, <1>5, <1>7 DEF Signed
    <2>2. \A x \in Signed : x[2] # u
      BY <1>5 DEF Signed
    <2>3. Abstract!Sign(payloads[u].op, u)
      BY <1>2, <2>1, <2>2 DEF Abstract!Sign
    <2>4. payloads[u].op \in UserOps /\ u \in 1 .. MaxPayloads
      BY <1>3, MaxPayloadsAssumption
    <2> QED BY <2>3, <2>4 DEF Abstract!PNext
  <1> QED BY <1>6, <1>7

\* A server that dies may leave the key committed.
LEMMA DieKeepsPromise ==
    ASSUME Inv, Die
    PROVE  Abstract!PNext \/ UNCHANGED Abstract!promise
  <1>1. Signed' = Signed
    BY DEF Die, Signed
  <1>2. CASE UNCHANGED job
    BY <1>1, <1>2 DEF Committed, Recorded, Filled, Abstract!promise
  <1>3. ASSUME NEW p \in Posts, post[p].at = "xaman", job[KeyOf[post[p].op]] = NoJob,
               job' = [job EXCEPT ![KeyOf[post[p].op]] = CreatedRow(post[p].op, 0)]
        PROVE  Abstract!PNext
    <2> DEFINE op == post[p].op
               k == KeyOf[op]
               new == CreatedRow(op, 0)
    <2>1. op \in UserOps /\ k \in Keys
      BY <1>3, PostCell, KeyOfAssumption DEF Inv
    <2>2. new \in Row /\ new.op = op /\ new.hash = 0
      BY <2>1 DEF CreatedRow, Row, MintStatuses
    <2>3. job[k] = NoJob /\ job' = [job EXCEPT ![k] = new]
      BY <1>3
    <2>4. Committed' = Committed \cup {op} /\ Recorded' = Recorded
      <3> HIDE DEF new, k
      <3> QED BY <2>1, <2>2, <2>3, RowReplaced DEF Inv
    <2>5. Abstract!Commit(op)
      BY <1>1, <1>3, <2>1, <2>4, FreeKey DEF Abstract!Commit
    <2> QED BY <2>1, <2>5 DEF Abstract!PNext
  <1> QED BY <1>2, <1>3 DEF Die

\* The store keeps its promise: an intent key is committed to one user operation and goes
\* on with one payment at a time, signed for it, although two processes write back rows
\* they read earlier.
THEOREM SigningKeepsPromise == Spec => KeepsSigningPromise
  <1>1. Inv /\ [Next]_vars => Inv'
    BY NextInv
  <1>2. Init => Abstract!PInit
    BY DEF Init, Abstract!PInit, Committed, Recorded, Signed, Filled
  <1>3. Inv /\ [Next]_vars => [Abstract!PNext]_(Abstract!promise)
    <2> SUFFICES ASSUME Inv, [Next]_vars
                 PROVE  Abstract!PNext \/ UNCHANGED Abstract!promise
      OBVIOUS
    <2>1. CASE UNCHANGED <<job, payloads>>
      BY <2>1 DEF Committed, Recorded, Signed, Filled, Abstract!promise
    <2>2. ASSUME NEW p \in Posts, Bind(p)
          PROVE  Abstract!PNext \/ UNCHANGED Abstract!promise
      BY <2>2, BindKeepsPromise
    <2>3. ASSUME NEW g \in Polls, UpdateRow(g)
          PROVE  Abstract!PNext \/ UNCHANGED Abstract!promise
      BY <2>3, UpdateRowMayReplace, ReplacedKeepsPromise DEF UpdateRow
    <2>4. CASE WorkerUpdate
      BY <2>1, <2>4, WorkMayReplace, ReplacedKeepsPromise DEF WorkerUpdate
    <2>5. ASSUME NEW u \in DOMAIN payloads, Resolve(u)
          PROVE  Abstract!PNext \/ UNCHANGED Abstract!promise
      BY <2>5, ResolveKeepsPromise
    <2>6. CASE Die
      BY <2>6, DieKeepsPromise
    <2> QED BY <2>1, <2>2, <2>3, <2>4, <2>5, <2>6
         DEF Next, ServerNext, vars, PostFails, PostDone, Plan, Answer, PollFails, PollDone,
             Ask, WorkerSelect
  <1> QED BY <1>1, <1>2, <1>3, InitInv, PTL
          DEF Spec, KeepsSigningPromise, Abstract!Promise


\* An intent key goes on with one payment at a time, signed for the user operation of its
\* row; it keeps its user operation for good, and once it has a payment it always has one.
THEOREM OnePaymentAtATime == Spec => []Abstract!OnePaymentPerKey /\ Abstract!NothingIsDropped
  <1> USE DEF Abstract!OnePaymentPerKey, Abstract!OneCommitment, Abstract!RecordedIsSigned
  <1>1. Abstract!PInit => Abstract!OnePaymentPerKey
    BY DEF Abstract!PInit
  <1>2. Abstract!OnePaymentPerKey /\ [Abstract!PNext]_(Abstract!promise)
            => Abstract!OnePaymentPerKey'
    <2> SUFFICES ASSUME Abstract!OnePaymentPerKey, [Abstract!PNext]_(Abstract!promise)
                 PROVE  Abstract!OnePaymentPerKey'
      OBVIOUS
    <2>1. ASSUME NEW op \in UserOps, Abstract!Commit(op) PROVE Abstract!OnePaymentPerKey'
      BY <2>1 DEF Abstract!Commit
    <2>2. ASSUME NEW op \in UserOps, NEW payment \in 1 .. MaxPayloads,
                 Abstract!Sign(op, payment)
          PROVE  Abstract!OnePaymentPerKey'
      BY <2>2 DEF Abstract!Sign
    <2>3. ASSUME NEW s \in Signed, Abstract!Record(s[1], s[2])
          PROVE  Abstract!OnePaymentPerKey'
      <3> DEFINE new == <<s[1], s[2]>>
                 old == {r \in Recorded : r[1] # s[1]}
      <3>1. /\ Committed' = Committed /\ Signed' = Signed
            /\ Recorded' = old \cup {new}
            /\ new \in Signed /\ s[1] \in Committed /\ new[1] = s[1]
        BY <2>3 DEF Abstract!Record
      <3>2. old \subseteq Recorded /\ \A r \in old : r[1] # s[1]
        OBVIOUS
      <3> HIDE DEF new, old
      <3>3. \A r \in old : KeyOf[r[1]] # KeyOf[s[1]]
        BY <3>1, <3>2
      <3> QED BY <3>1, <3>2, <3>3
    <2>4. CASE UNCHANGED Abstract!promise
      BY <2>4 DEF Abstract!promise
    <2> QED BY <2>1, <2>2, <2>3, <2>4 DEF Abstract!PNext
  <1>3. [Abstract!PNext]_(Abstract!promise) => [Abstract!PaidStaysPaid]_(Abstract!promise)
    <2> USE DEF Abstract!PaidStaysPaid
    <2>1. ASSUME NEW op \in UserOps, Abstract!Commit(op) PROVE Abstract!PaidStaysPaid
      BY <2>1 DEF Abstract!Commit
    <2>2. ASSUME NEW op \in UserOps, NEW payment \in 1 .. MaxPayloads,
                 Abstract!Sign(op, payment)
          PROVE  Abstract!PaidStaysPaid
      BY <2>2 DEF Abstract!Sign
    <2>3. ASSUME NEW s \in Signed, Abstract!Record(s[1], s[2])
          PROVE  Abstract!PaidStaysPaid
      <3>1. /\ Committed' = Committed
            /\ \A r \in Recorded : r[1] # s[1] => r \in Recorded'
            /\ <<s[1], s[2]>> \in Recorded'
        BY <2>3 DEF Abstract!Record
      <3>2. <<s[1], s[2]>>[1] = s[1]
        OBVIOUS
      <3> QED BY <3>1, <3>2
    <2> QED BY <2>1, <2>2, <2>3 DEF Abstract!PNext
  <1> QED BY <1>1, <1>2, <1>3, SigningKeepsPromise, PTL
          DEF KeepsSigningPromise, Abstract!Promise, Abstract!NothingIsDropped
=============================================================================
