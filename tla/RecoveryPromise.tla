---------------------------- MODULE RecoveryPromise ----------------------------
(***************************************************************************)
(* What the recovery script promises about one stuck deposit, whoever runs *)
(* it and however often it dies: the chains are taken through payment,     *)
(* ignored memo and mint of the stuck deposit in this order, the row       *)
(* reports each of them after it happened, never takes a report back, and  *)
(* frees the intent key for a new deposit only at the end.                 *)
(***************************************************************************)

VARIABLES
    paid,      \* a recovery payment was validated
    ignored,   \* the chain ignores the memo of the stuck deposit
    minted,    \* the stuck deposit was minted
    report,    \* how far the job row says the recovery is
    released   \* the intent key is free again

promise == <<paid, ignored, minted, report, released>>

PInit == ~paid /\ ~ignored /\ ~minted /\ report = "open" /\ ~released

Pay    == ~paid /\ paid' /\ UNCHANGED <<ignored, minted, report, released>>
Ignore == paid /\ ~ignored /\ ignored' /\ UNCHANGED <<paid, minted, report, released>>
Mint   == ignored /\ ~minted /\ minted' /\ UNCHANGED <<paid, ignored, report, released>>

\* The row goes on by one report, when what it says is so.
Report(from, to, happened) ==
    /\ report = from /\ happened
    /\ report' = to
    /\ UNCHANGED <<paid, ignored, minted, released>>

Release ==
    /\ report = "recovered" /\ released'
    /\ UNCHANGED <<paid, ignored, minted, report>>

PNext ==
    \/ Pay \/ Ignore \/ Mint
    \/ Report("open", "attested", paid)
    \/ Report("attested", "flagged", ignored)
    \/ Report("flagged", "recovered", minted)
    \/ Release

Promise == PInit /\ [][PNext]_promise

\* What follows for a reader of the row: nothing that it reports came early, and a key
\* that is free belongs to a deposit that was minted.
InOrder ==
    /\ ignored => paid
    /\ minted => ignored
    /\ report \in {"attested", "flagged", "recovered"} => paid
    /\ report \in {"flagged", "recovered"} => ignored
    /\ report = "recovered" => minted
    /\ released => report = "recovered"
=============================================================================
