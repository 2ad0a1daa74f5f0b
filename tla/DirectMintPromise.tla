-------------------------- MODULE DirectMintPromise --------------------------
(***************************************************************************)
(* What the executor promises about one job, whatever its processes do: it *)
(* pays once, the payment mints once, and a settled report is final and is *)
(* what the chain did.  Asking for recovery can be taken back, giving up   *)
(* cannot.                                                                 *)
(***************************************************************************)
EXTENDS Naturals

VARIABLES
    paid,     \* payments that reached a validated ledger with success
    minted,   \* what became of the mint: "no" or its outcome
    report    \* what the job row says: "open" or a resting status

promise == <<paid, minted, report>>

Settled == {"SETTLED_SUCCESS", "SETTLED_FALLBACK"}

PInit == paid = 0 /\ minted = "no" /\ report = "open"

Pay == paid = 0 /\ paid' = 1 /\ UNCHANGED <<minted, report>>

Mint(o) ==
    /\ paid = 1 /\ minted = "no"
    /\ minted' = o
    /\ UNCHANGED <<paid, report>>

\* A settlement can only be reported from the chain, and only once.
Report(r) ==
    /\ report \in {"open", "RECOVERY_REQUIRED"}
    /\ r \in Settled => minted = r
    /\ report' = r
    /\ UNCHANGED <<paid, minted>>

PNext ==
    \/ Pay
    \/ \E o \in Settled \cup {"UNMATCHED"} : Mint(o)
    \/ \E r \in Settled \cup {"open", "RECOVERY_REQUIRED", "FAILED"} : Report(r)

Promise == PInit /\ [][PNext]_promise

\* What follows for a reader of the report: it is true, nothing is minted unpaid, and a
\* settlement once reported is the last word.
ReportIsTrue ==
    /\ report \in Settled => minted = report
    /\ minted # "no" => paid = 1

SettledStays == report \in Settled => report' = report

SettlementIsFinal == [][SettledStays]_promise
=============================================================================
