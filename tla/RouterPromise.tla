----------------------------- MODULE RouterPromise -----------------------------
(***************************************************************************)
(* What the Router promises the accounts whose FXRP passes through it,     *)
(* whatever code it calls: an intent is spent once or given back, for      *)
(* good, and only its own account can bring that about.  Spending costs    *)
(* the account its input at most, everything else costs nothing, nobody    *)
(* pays for somebody else, and the Router keeps what was donated to it.    *)
(***************************************************************************)
EXTENDS Naturals

CONSTANTS
    Accounts,
    Intents,
    Amounts    \* what may be minted or donated at a time

VARIABLES
    spent,     \* the intents that have been spent
    returned,  \* those that were tried and given back
    balance,   \* FXRP of each account
    held       \* FXRP of the Router

promise == <<spent, returned, balance, held>>

PInit ==
    /\ spent = {} /\ returned = {}
    /\ balance = [c \in Accounts |-> 0]
    /\ held = 0

\* Only its own account brings an intent, and only one that is still open.
Brings(c, i) == i.personalAccount = c /\ i \notin spent \cup returned

\* x FXRP are minted to c, which spends its intent; others may be paid.
Spend(c, i, x) ==
    /\ Brings(c, i)
    /\ spent' = spent \cup {i}
    /\ balance' \in [Accounts -> Nat]
    /\ balance'[c] + i.inputAmount >= balance[c] + x
    /\ \A d \in Accounts \ {c} : balance'[d] >= balance[d]
    /\ UNCHANGED <<returned, held>>

\* x FXRP are minted to c and stay there; an intent that was tried is closed.
Return(c, i, x) ==
    /\ balance' = [balance EXCEPT ![c] = @ + x]
    /\ UNCHANGED returned \/ (Brings(c, i) /\ returned' = returned \cup {i})
    /\ UNCHANGED <<spent, held>>

\* Someone gives the Router x FXRP.
Give(x) ==
    /\ held' = held + x
    /\ UNCHANGED <<spent, returned, balance>>

PNext ==
    \/ \E c \in Accounts, i \in Intents, x \in Amounts : Return(c, i, x) \/ Spend(c, i, x)
    \/ \E x \in Amounts : Give(x)

Promise == PInit /\ [][PNext]_promise

\* What follows for an account: its intent is never both spent and given back, and
\* what has become of it stays so.
SpentOrReturned == spent \cap returned = {}

IntentsStay == spent \subseteq spent' /\ returned \subseteq returned'

IntentsAreFinal == [][IntentsStay]_promise
=============================================================================
