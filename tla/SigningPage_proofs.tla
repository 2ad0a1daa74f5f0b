--------------------------- MODULE SigningPage_proofs ---------------------------
(***************************************************************************)
(* Theorems about SigningPage for every number of open requests and        *)
(* payloads, plans of the same bytes included: with the page as the client *)
(* the server does nothing that XamanSigning does not allow, and what the  *)
(* page shows is true.                                                     *)
(***************************************************************************)
EXTENDS SigningPage, XamanSigning_proofs

---------------------------------------------------------------------------
(* A page that shows nothing wrong, in the present state of the server     *)

PageType ==
    [configured : BOOLEAN, preview : UserOps \cup {NoPreview, Planned},
     request : 0 .. Len(payloads), status : Statuses, sockets : SUBSET DOMAIN payloads,
     shown : BOOLEAN, signable : BOOLEAN]

Truthful(pg) ==
    /\ pg \in PageType
    /\ pg.request # 0 => pg.preview = payloads[pg.request].op
    /\ pg.sockets \subseteq {pg.request}
    /\ pg.status = "verified" => Paid

PageInv == Inv /\ Truthful(page)

\* PageInv says what the properties of SigningPage say.
LEMMA TruthfulMeans ==
    ASSUME PageInv
    PROVE  PageTypeOK /\ ReviewMatchesRequest /\ EventsAreOfTheRequest /\ VerifiedIsRecorded
  <1>1. PageTypeOK /\ ReviewMatchesRequest /\ EventsAreOfTheRequest
    BY DEF PageInv, Inv, Truthful, PageType, PageTypeOK, ReviewMatchesRequest,
           EventsAreOfTheRequest
  <1>2. VerifiedIsRecorded
    <2> SUFFICES ASSUME page.status = "verified"
                 PROVE  \E u \in DOMAIN payloads : SignedIn(u) /\ RecordedIn(u)
      BY DEF VerifiedIsRecorded
    <2>1. PICK k \in Keys : job[k] # NoJob /\ job[k].hash # 0
      BY DEF PageInv, Truthful, Paid
    <2>2. PICK u : u = job[k].hash
      OBVIOUS
    <2>3. SignedFor(u, job[k].op) /\ KeyOf[job[k].op] = k
      BY <2>1, <2>2 DEF PageInv, Inv, RecordedPaymentCommits, RowsFit
    <2> QED BY <2>1, <2>2, <2>3 DEF SignedFor, SignedIn, RecordedIn
  <1> QED BY <1>1, <1>2

---------------------------------------------------------------------------
(* What the server's steps leave of it                                     *)

\* Payloads are never forgotten, keep their bytes, and stay signed.
LEMMA PayloadsGrow ==
    ASSUME Inv, [Next]_vars, Inv'
    PROVE  /\ Len(payloads) <= Len(payloads') /\ DOMAIN payloads \subseteq DOMAIN payloads'
           /\ \A u \in DOMAIN payloads :
                /\ payloads'[u].op = payloads[u].op
                /\ payloads[u].state = "signed" => payloads'[u].state = "signed"
  <1>1. Len(payloads) \in Nat /\ DOMAIN payloads = 1 .. Len(payloads)
    BY PayloadsDomain DEF Inv
  <1>2. Len(payloads') \in Nat /\ DOMAIN payloads' = 1 .. Len(payloads')
    <2>1. payloads' \in Seq([op : UserOps, state : PayloadStates])
      BY DEF Inv, TypeOK
    <2> QED BY <2>1, LenProperties
  <1>3. CASE UNCHANGED payloads
    BY <1>1, <1>3
  <1>4. ASSUME NEW p \in Posts, Bind(p)
        PROVE  /\ Len(payloads') = Len(payloads) + 1
               /\ \A u \in DOMAIN payloads : payloads'[u] = payloads[u]
    <2> DEFINE new == [op |-> post[p].op, state |-> "open"]
               R == [op : UserOps, state : PayloadStates]
    <2>1. new \in R /\ payloads \in Seq(R) /\ payloads' = Append(payloads, new)
      BY <1>4, PostCell DEF Inv, TypeOK, Bind, PayloadStates
    <2> HIDE DEF new, R
    <2> QED BY <2>1, <1>1, AppendProperties
  <1>5. ASSUME NEW v \in DOMAIN payloads, Resolve(v)
        PROVE  /\ DOMAIN payloads' = DOMAIN payloads
               /\ \A u \in DOMAIN payloads :
                    /\ payloads'[u].op = payloads[u].op
                    /\ payloads[u].state = "signed" => payloads'[u].state = "signed"
    <2>1. PICK s \in PayloadStates :
            payloads[v].state \notin Ended /\ payloads' = [payloads EXCEPT ![v].state = s]
      BY <1>5 DEF Resolve
    <2>2. payloads \in [1 .. Len(payloads) -> [op : UserOps, state : PayloadStates]]
      BY <1>1, LenProperties DEF Inv, TypeOK
    <2> QED BY <2>1, <2>2, <1>1 DEF Ended
  <1>6. CASE \E p \in Posts : Bind(p)
    <2>1. /\ Len(payloads') = Len(payloads) + 1
          /\ \A u \in DOMAIN payloads : payloads'[u] = payloads[u]
      BY <1>4, <1>6
    <2>2. Len(payloads) <= Len(payloads') /\ DOMAIN payloads \subseteq DOMAIN payloads'
      BY <1>1, <1>2, <2>1
    <2> QED BY <2>1, <2>2
  <1>7. CASE \E v \in DOMAIN payloads : Resolve(v)
    <2>1. DOMAIN payloads' = DOMAIN payloads
      BY <1>5, <1>7
    <2>2. Len(payloads') = Len(payloads)
      <3>1. \A m, n \in Nat : 1 .. m = 1 .. n => m = n
        <4> SUFFICES ASSUME NEW m \in Nat, NEW n \in Nat, 1 .. m = 1 .. n PROVE m = n
          OBVIOUS
        <4>1. (m \in 1 .. m => m \in 1 .. n) /\ (n \in 1 .. n => n \in 1 .. m)
          OBVIOUS
        <4> QED BY <4>1
      <3> QED BY <3>1, <2>1, <1>1, <1>2
    <2> QED BY <2>1, <2>2, <1>1, <1>5, <1>7
  <1> QED BY <1>3, <1>6, <1>7
       DEF Next, ServerNext, vars, PostFails, PostDone, Plan, Answer, UpdateRow, PollFails,
           PollDone, Ask, WorkerSelect, WorkerUpdate, Die

\* A row that has a payment has one after the step.
LEMMA PaidStays ==
    ASSUME Inv, [Next]_vars, Inv', Paid
    PROVE  Paid'
  <1>1. PICK k \in Keys : job[k] # NoJob /\ job[k].hash # 0
    BY DEF Paid
  <1>2. job'[k].hash # 0
    BY <1>1, NextPaymentStays DEF PaymentStays
  <1>3. job'[k] # NoJob
    <2>1. PICK u \in DOMAIN payloads : payloads[u].op = job[k].op
      BY <1>1 DEF Inv, RecordedPaymentCommits, SignedFor
    <2>2. u \in DOMAIN payloads' /\ payloads'[u].op = job[k].op
      BY <2>1, PayloadsGrow
    <2>3. KeyOf[job[k].op] = k
      BY <1>1 DEF Inv, RowsFit
    <2> QED BY <2>2, <2>3 DEF Inv, ReturnedCommits
  <1> QED BY <1>2, <1>3 DEF Paid

\* So what a page shows truthfully it still does after a step of the server.
LEMMA StaysTruthful ==
    ASSUME Inv, [Next]_vars, Inv', NEW pg, Truthful(pg)
    PROVE  Truthful(pg)'
  <1>1. /\ Len(payloads) \in Nat /\ Len(payloads') \in Nat
        /\ DOMAIN payloads = 1 .. Len(payloads)
    <2>1. payloads' \in Seq([op : UserOps, state : PayloadStates])
      BY DEF Inv, TypeOK
    <2> QED BY <2>1, LenProperties, PayloadsDomain DEF Inv
  <1>2. pg \in PageType'
    BY <1>1, PayloadsGrow DEF Truthful, PageType
  <1>3. pg.request # 0 => pg.preview = payloads'[pg.request].op
    BY <1>1, PayloadsGrow DEF Truthful, PageType
  <1>4. pg.status = "verified" => Paid'
    BY PaidStays DEF Truthful
  <1> QED BY <1>2, <1>3, <1>4 DEF Truthful

---------------------------------------------------------------------------
(* What the page's own steps make of it                                    *)

\* Drawing a preview leaves a truthful page truthful.
LEMMA RenderedTruthfully ==
    ASSUME NEW pg, Truthful(pg)
    PROVE  Truthful(Rendered(pg))
  <1>1. (pg.request # 0) \in BOOLEAN
    OBVIOUS
  <1> QED BY <1>1 DEF Rendered, Truthful, PageType

\* So do the error panel, a new preview, and a socket that closes.
LEMMA DrawnTruthfully ==
    ASSUME Inv, NEW pg, Truthful(pg)
    PROVE  /\ Truthful(Rendered(pg)) /\ Truthful(ErrorPanel(pg)) /\ Truthful(Previewed(pg))
           /\ Truthful([pg EXCEPT !.configured = TRUE])
           /\ \A u : Truthful([pg EXCEPT !.sockets = @ \ {u}])
  <1> USE DEF Truthful, PageType
  <1>1. Truthful(Rendered(pg)) /\ Truthful(ErrorPanel(pg))
    BY RenderedTruthfully DEF ErrorPanel
  <1>2. Truthful(Previewed(pg))
    <2>1. /\ 0 \in 0 .. Len(payloads) /\ "idle" \in Statuses
          /\ {} \in SUBSET DOMAIN payloads
      BY PayloadsDomain DEF Inv, Statuses
    <2>2. Truthful([pg EXCEPT !.preview = Planned, !.request = 0, !.status = "idle",
                              !.sockets = {}])
      BY <2>1
    <2> QED BY <2>2, RenderedTruthfully DEF Previewed
  <1>3. Truthful([pg EXCEPT !.configured = TRUE])
    OBVIOUS
  <1>4. \A u : Truthful([pg EXCEPT !.sockets = @ \ {u}])
    OBVIOUS
  <1> QED BY <1>1, <1>2, <1>3, <1>4

\* A status is truthful if "verified" is.
LEMMA StatusTruthfully ==
    ASSUME Inv, NEW pg, Truthful(pg), NEW s \in Statuses, s = "verified" => Paid
    PROVE  Truthful(WithStatus(pg, s))
  <1>1. (pg.request # 0) \in BOOLEAN
    OBVIOUS
  <1> QED BY <1>1 DEF Truthful, PageType, WithStatus

\* A page with the answer of a signing request shows the preview of its bytes.
LEMMA RequestedTruthfully ==
    ASSUME Inv, NEW pg, Truthful(pg), NEW u \in DOMAIN payloads
    PROVE  Truthful(Requested(pg, u))
  <1>1. payloads[u].op \in UserOps /\ u \in 0 .. Len(payloads)
    BY PayloadCell, PayloadsDomain DEF Inv
  <1> QED BY <1>1 DEF Truthful, PageType, Requested, Rendered, Statuses

LEMMA PageInitInv == PageInit => PageInv
  <1> SUFFICES ASSUME PageInit PROVE PageInv
    OBVIOUS
  <1>1. Inv
    BY InitInv DEF PageInit
  <1>2. Truthful(page)
    BY <1>1, PayloadsDomain DEF Inv, PageInit, InitPage, Truthful, PageType, Statuses
  <1> QED BY <1>1, <1>2 DEF PageInv

\* Every step of the composition is one of the server's or leaves the server alone, and
\* the page stays truthful.
LEMMA PageStep ==
    ASSUME PageInv, [PageNext]_pageVars
    PROVE  [Next]_vars /\ PageInv'
  <1> USE DEF PageInv
  \* It is enough that the new page is truthful in the state before the step.
  <1>1. ASSUME [Next]_vars, Truthful(page') PROVE [Next]_vars /\ PageInv'
    <2>1. Inv'
      BY <1>1, NextInv
    <2>2. PICK pg : pg = page'
      OBVIOUS
    <2>3. Truthful(pg)'
      BY <2>1, <2>2, <1>1, StaysTruthful
    <2>4. Truthful(page)' <=> Truthful(pg)'
      BY <2>2 DEF Truthful, PageType
    <2> QED BY <2>1, <2>3, <2>4, <1>1
  <1>2. CASE ServerStep
    <2>1. [Next]_vars
      BY <1>2 DEF ServerStep, Next
    <2>2. PICK pg : /\ pg \in {page, ErrorPanel(page)}
                    /\ page' \in {pg, WithStatus(pg, "mismatch")}
      BY <1>2 DEF ServerStep
    <2>3. Truthful(pg)
      BY <2>2, DrawnTruthfully
    <2>4. Truthful(WithStatus(pg, "mismatch"))
      BY <2>3, StatusTruthfully DEF Statuses
    <2> QED BY <2>1, <2>2, <2>3, <2>4, <1>1
  <1>3. CASE LoadHealth \/ Redraw \/ Reload \/ PreviewAnswers
    <2>1. [Next]_vars
      BY <1>3 DEF LoadHealth, Redraw, Reload, PreviewAnswers
    <2>2. Truthful(page')
      <3>1. CASE LoadHealth
        BY <3>1, DrawnTruthfully DEF LoadHealth
      <3>2. CASE Redraw \/ PreviewAnswers
        BY <3>2, DrawnTruthfully DEF Redraw, PreviewAnswers
      <3>3. CASE Reload
        BY <3>3, PayloadsDomain DEF Inv, Reload, InitPage, Truthful, PageType, Statuses
      <3> QED BY <1>3, <3>1, <3>2, <3>3
    <2> QED BY <2>1, <2>2, <1>1
  <1>4. ASSUME NEW p \in Posts, NEW op \in UserOps, RequestSignature(p, op)
        PROVE  [Next]_vars /\ PageInv'
    BY <1>1, <1>4 DEF RequestSignature, Next
  <1>5. ASSUME NEW op \in UserOps, RequestRefused(op)
        PROVE  [Next]_vars /\ PageInv'
    BY <1>1, <1>5, DrawnTruthfully DEF RequestRefused
  <1>6. ASSUME NEW p \in Posts, RequestAnswers(p)
        PROVE  [Next]_vars /\ PageInv'
    <2>1. [Next]_vars
      BY <1>6 DEF RequestAnswers, Next
    <2>2. post[p].uuid \in DOMAIN payloads
      BY <1>6 DEF RequestAnswers, PostDone, Inv, ReturnedExists
    <2>3. Truthful(page')
      BY <1>6, <2>2, DrawnTruthfully, RequestedTruthfully DEF RequestAnswers
    <2> QED BY <2>1, <2>3, <1>1
  <1>7. ASSUME NEW g \in Polls, NEW u, NEW pg, Truthful(pg), Verify(g, u, pg)
        PROVE  [Next]_vars /\ PageInv'
    <2>1. Ask(g, u) /\ page' = WithStatus(pg, "checking")
      BY <1>7 DEF Verify
    <2>2. u \in 1 .. MaxPayloads
      <3>1. u \in 1 .. Len(payloads) /\ Len(payloads) \in 0 .. MaxPayloads
        BY <2>1, PayloadsDomain DEF Ask, Inv
      <3> QED BY <3>1, MaxPayloadsAssumption
    <2>3. [Next]_vars
      BY <2>1, <2>2 DEF Next
    <2>4. Truthful(page')
      BY <2>1, <1>7, StatusTruthfully DEF Statuses
    <2> QED BY <2>3, <2>4, <1>1
  <1>8. ASSUME NEW g \in Polls, Check(g) PROVE [Next]_vars /\ PageInv'
    BY <1>7, <1>8 DEF Check
  <1>9. ASSUME NEW g \in Polls, CheckAnswers(g)
        PROVE  [Next]_vars /\ PageInv'
    <2>1. [Next]_vars
      BY <1>9 DEF CheckAnswers, Next
    <2> DEFINE s == ResultStatus(poll[g].result)
    <2>2. s \in Statuses /\ (s = "verified" => Paid)
      <3>1. poll[g].result \in Results /\ (poll[g].result = "verified" => Paid)
        BY <1>9, PollCell DEF CheckAnswers, PollDone, Inv, PollsRead
      <3> QED BY <3>1 DEF ResultStatus, Results, Statuses
    <2>3. Truthful(page')
      BY <1>9, <2>2, StatusTruthfully DEF CheckAnswers, Statuses
    <2> QED BY <2>1, <2>3, <1>1
  <1>10. ASSUME NEW u, SocketOpened(u)
         PROVE  [Next]_vars /\ PageInv'
    BY <1>1, <1>10, StatusTruthfully DEF SocketOpened, Statuses
  <1>11. ASSUME NEW u, NEW g \in Polls, SocketResolved(u, g)
         PROVE  [Next]_vars /\ PageInv'
    BY <1>7, <1>11, DrawnTruthfully DEF SocketResolved
  <1>12. CASE UNCHANGED pageVars
    BY <1>1, <1>12 DEF pageVars
  <1> QED BY <1>2, <1>3, <1>4, <1>5, <1>6, <1>8, <1>9, <1>10, <1>11, <1>12 DEF PageNext

---------------------------------------------------------------------------
(* Theorems                                                                *)

\* The server under the page behaves as the server under any clients: what is proved of
\* Spec holds beside the dashboard.
THEOREM PageImplementsSigning == PageSpec => Spec
  <1>1. PageInv /\ [PageNext]_pageVars => [Next]_vars /\ PageInv'
    BY PageStep
  <1>2. PageInit => Init
    BY DEF PageInit
  <1> QED BY <1>1, <1>2, PageInitInv, PTL DEF PageSpec, Spec

\* For every number of overlapping previews, requests, checks and events, the review
\* shown beside a signing request is that of the bytes it commits to.
THEOREM ReviewMatches == PageSpec => []ReviewMatchesRequest
  <1>1. PageInv /\ [PageNext]_pageVars => PageInv'
    BY PageStep
  <1>2. PageInv => ReviewMatchesRequest
    BY TruthfulMeans
  <1> QED BY <1>1, <1>2, PageInitInv, PTL DEF PageSpec

\* The same: only the request on the page has a socket.
THEOREM EventsMatch == PageSpec => []EventsAreOfTheRequest
  <1>1. PageInv /\ [PageNext]_pageVars => PageInv'
    BY PageStep
  <1>2. PageInv => EventsAreOfTheRequest
    BY TruthfulMeans
  <1> QED BY <1>1, <1>2, PageInitInv, PTL DEF PageSpec

\* The same: the page says verified only of a payment that a row goes on with, however
\* late the answer arrives.
THEOREM VerifiedRecorded == PageSpec => []VerifiedIsRecorded
  <1>1. PageInv /\ [PageNext]_pageVars => PageInv'
    BY PageStep
  <1>2. PageInv => VerifiedIsRecorded
    BY TruthfulMeans
  <1> QED BY <1>1, <1>2, PageInitInv, PTL DEF PageSpec

\* The page keeps its type.
THEOREM PageTypeCorrect == PageSpec => []PageTypeOK
  <1>1. PageInv /\ [PageNext]_pageVars => PageInv'
    BY PageStep
  <1>2. PageInv => PageTypeOK
    BY TruthfulMeans
  <1> QED BY <1>1, <1>2, PageInitInv, PTL DEF PageSpec
=============================================================================
