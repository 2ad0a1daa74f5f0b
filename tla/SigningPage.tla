----------------------------- MODULE SigningPage ------------------------------
(***************************************************************************)
(* The signing flow of the dashboard (web/app.js) as the client of the     *)
(* status API's Xaman handlers: one browser tab that previews a deposit,   *)
(* asks for a payload, watches Xaman's socket and asks for the result.     *)
(* Every answer changes the page when it arrives, whatever the page has    *)
(* been doing since it asked.                                              *)
(***************************************************************************)
EXTENDS XamanSigning

CONSTANTS
    NoPreview,  \* state.preview before the first answer
    Planned     \* a plan of the preview endpoint, told apart from every request's

ASSUME PreviewAssumption == {NoPreview, Planned} \cap UserOps = {}

VARIABLE page     \* `state` and what #preview-panel shows; request 0 is null

pageVars == <<vars, page>>

Statuses == {"idle", "waiting", "opened", "checking", "verified", "rejected", "mismatch"}

InitPage == [configured |-> FALSE, preview |-> NoPreview, request |-> 0,
             status |-> "idle", sockets |-> {}, shown |-> FALSE, signable |-> FALSE]

PageInit == Init /\ page = InitPage

---------------------------------------------------------------------------
(* Rendering                                                               *)

\* renderPreview draws a sign button of its own, and the Xaman panel if there is a
\* request.
Rendered(pg) ==
    [pg EXCEPT !.signable = pg.configured, !.shown = (pg.request # 0)]

\* renderPreviewError replaces the whole panel.
ErrorPanel(pg) == [pg EXCEPT !.signable = FALSE, !.shown = FALSE]

\* renderXamanPanel, with a status set just before.
WithStatus(pg, status) == [pg EXCEPT !.status = status, !.shown = (pg.request # 0)]

\* loadHealth asks once whether signing is configured; a failed answer is a no, as
\* before it.  A preview is drawn again.
LoadHealth ==
    /\ ~page.configured
    /\ LET pg == [page EXCEPT !.configured = TRUE] IN
         page' = IF pg.preview # NoPreview THEN Rendered(pg) ELSE pg
    /\ UNCHANGED vars

\* applyLanguage draws everything again.
Redraw ==
    /\ page.preview # NoPreview
    /\ page' = Rendered(page)
    /\ UNCHANGED vars

\* The tab is loaded again and nothing of the page survives; the answers it was waiting
\* for have been lost before.
Reload ==
    /\ \A p \in Posts : post[p] = Idle
    /\ \A g \in Polls : poll[g] = Idle
    /\ page' = InitPage
    /\ UNCHANGED vars

---------------------------------------------------------------------------
(* The preview form                                                        *)

\* Mutated Previewed: the signing request of the earlier preview stays.
PreviewedKeeping(pg) == Rendered([pg EXCEPT !.preview = Planned])

\* A preview ends the signing session that is on the page.
Previewed(pg) ==
    Rendered([pg EXCEPT !.preview = Planned, !.request = 0, !.status = "idle", !.sockets = {}])

\* Asking changes nothing, so the answer of /api/preview is the only step: it may come
\* at any time, or be an error.
PreviewAnswers ==
    /\ page' \in {Previewed(page), ErrorPanel(page)}
    /\ UNCHANGED vars

---------------------------------------------------------------------------
(* createXamanRequest                                                      *)

\* The body is read from the form at the click, not from the preview.  The button is
\* disabled while it waits, but a redraw brings a new one that is not.
RequestSignature(p, op) ==
    /\ page.signable
    /\ Plan(p, op)
    /\ UNCHANGED page

\* 409: the nonce has a job.
RequestRefused(op) ==
    /\ page.signable
    /\ job[KeyOf[op]] # NoJob
    /\ page' = ErrorPanel(page)
    /\ UNCHANGED vars

\* Mutated Requested: the socket of the earlier request stays open.
RequestedBeside(pg, uuid) ==
    Rendered([pg EXCEPT !.preview = payloads[uuid].op, !.request = uuid,
                        !.status = "waiting", !.sockets = @ \cup {uuid}])

\* The answer brings its own preview; watchXamanStatus closes the earlier socket.
Requested(pg, uuid) ==
    Rendered([pg EXCEPT !.preview = payloads[uuid].op, !.request = uuid,
                        !.status = "waiting", !.sockets = {uuid}])

\* The answer arrives, or is lost on the way.
RequestAnswers(p) ==
    /\ PostDone(p)
    /\ page' \in {Requested(page, post[p].uuid), ErrorPanel(page)}

---------------------------------------------------------------------------
(* verifyXamanStatus and watchXamanStatus.  A connection that drops is one *)
(* whose events never come; nothing opens it again.                        *)

Verify(g, u, pg) ==
    /\ Ask(g, u)
    /\ page' = WithStatus(pg, "checking")

\* The button of the Xaman panel.
Check(g) == page.shown /\ Verify(g, page.request, page)

\* A 404 is a failed answer like any other.
ResultStatus(result) == IF result = "notFound" THEN "mismatch" ELSE result

\* Whatever request the page has by now; a lost answer is a failed one.
CheckAnswers(g) ==
    /\ PollDone(g)
    /\ page' \in {WithStatus(page, ResultStatus(poll[g].result)), WithStatus(page, "mismatch")}

SocketOpened(u) ==
    /\ u \in page.sockets /\ payloads[u].state # "open"
    /\ page' = WithStatus(page, "opened")
    /\ UNCHANGED vars

\* Mutated SocketResolved: the event is taken for the result.
SocketBelieved(u, g) ==
    /\ u \in page.sockets /\ payloads[u].state \in Ended
    /\ page' = WithStatus([page EXCEPT !.sockets = @ \ {u}], "verified")
    /\ UNCHANGED vars

\* A signed or expired event closes the socket and has the result verified.
SocketResolved(u, g) ==
    /\ u \in page.sockets /\ payloads[u].state \in Ended
    /\ Verify(g, u, [page EXCEPT !.sockets = @ \ {u}])

---------------------------------------------------------------------------

\* Of the server's steps the page hears of at once: that a request has failed.
FailedPosts == {p \in Posts : post[p].at = "xaman" /\ post'[p] = Idle}
FailedPolls == {g \in Polls : poll[g].at \in {"answer", "update"} /\ poll'[g] = Idle}

\* The user finds a payload only by the QR code and the link on the page.
OpensWhatIsShown ==
    \A u \in DOMAIN payloads :
        payloads[u].state = "open" /\ payloads'[u].state = "opened" =>
            page.shown /\ page.request = u

ServerStep ==
    /\ ServerNext /\ OpensWhatIsShown
    /\ LET pg == IF FailedPosts # {} THEN ErrorPanel(page) ELSE page IN
         page' = IF FailedPolls # {} THEN WithStatus(pg, "mismatch") ELSE pg

PageNext ==
    \/ ServerStep
    \/ LoadHealth \/ Redraw \/ Reload \/ PreviewAnswers
    \/ \E p \in Posts, op \in UserOps : RequestSignature(p, op)
    \/ \E op \in UserOps : RequestRefused(op)
    \/ \E p \in Posts : RequestAnswers(p)
    \/ \E g \in Polls : Check(g) \/ CheckAnswers(g)
    \/ \E u \in 1 .. MaxPayloads : SocketOpened(u)
    \/ \E u \in 1 .. MaxPayloads, g \in Polls : SocketResolved(u, g)

PageSpec == PageInit /\ [][PageNext]_pageVars

\* The server goes on with some of the requests it has, the tab is told what arrives, and
\* a user who looks at a signing request asks about it again and again; not every answer
\* to him is lost.
PageFairness ==
    /\ SF_pageVars(\E g \in Polls : Answer(g) /\ ServerStep)
    /\ SF_pageVars(\E g \in Polls : UpdateRow(g) /\ ServerStep)
    /\ WF_pageVars(\E g \in Polls : CheckAnswers(g))
    /\ SF_pageVars(\E g \in Polls : CheckAnswers(g) /\ page'.status = "verified")
    /\ SF_pageVars(\E g \in Polls : Check(g))

LivePageSpec == PageSpec /\ PageFairness

---------------------------------------------------------------------------
(* Properties                                                              *)

\* The page keeps its type.
PageTypeOK ==
    /\ TypeOK
    /\ page \in [configured : BOOLEAN, preview : UserOps \cup {NoPreview, Planned},
                 request : 0 .. Len(payloads), status : Statuses,
                 sockets : SUBSET DOMAIN payloads,
                 shown : BOOLEAN, signable : BOOLEAN]

\* "Human review": the preview on the page is that of the bytes the signing request
\* beside it commits to, however previews and requests overlap.
ReviewMatchesRequest ==
    page.request # 0 => page.preview = payloads[page.request].op

\* An event of Xaman's socket is about the request on the page.
EventsAreOfTheRequest == page.sockets \subseteq {page.request}

\* The user signed payload u with the expected account.
SignedIn(u) == u \in DOMAIN payloads /\ payloads[u].state = "signed"

\* The row that payload u is bound to goes on with its payment.
RecordedIn(u) ==
    /\ u \in DOMAIN payloads
    /\ \E k \in Keys : k = KeyOf[payloads[u].op] /\ job[k] # NoJob /\ job[k].hash = u

\* The page says "Signature and Testnet transaction verified" only when the row of a
\* returned payload holds a payment signed by the expected account.
VerifiedIsRecorded ==
    page.status = "verified" =>
        \E u \in DOMAIN payloads : SignedIn(u) /\ RecordedIn(u)

\* Payload u gave way to another one of the same bytes: the row names that one, so that
\* every check of u is answered 404, or goes on with a payment signed in that one.
Displaced(u) ==
    LET row == job[KeyOf[payloads[u].op]] IN
    \E v \in DOMAIN payloads \ {u} :
        payloads[v].op = payloads[u].op /\ v \in {row.uuid, row.hash}

\* A payment signed in the request on the page is recorded and shown as verified,
\* unless the user leaves the request, only an error panel is left of it, or another
\* payload of the same bytes takes its place.
SignatureIsShown ==
    \A u \in 1 .. MaxPayloads :
        page.request = u /\ SignedIn(u)
            ~> \/ page.status = "verified" /\ RecordedIn(u)
               \/ page.request # u
               \/ ~page.shown
               \/ Displaced(u)

\* "Once Xaman reports a signed transaction, the executor independently re-reads it":
\* a payment signed in a returned payload is recorded, so that the worker takes it up.
SignedIsRecorded == \A u \in 1 .. MaxPayloads : SignedIn(u) ~> RecordedIn(u)
=============================================================================
