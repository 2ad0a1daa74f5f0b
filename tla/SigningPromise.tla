---------------------------- MODULE SigningPromise ----------------------------
(***************************************************************************)
(* What the job store promises about the deposits signed in Xaman, however *)
(* many handlers and processes read and write its rows: an intent key is   *)
(* committed to one user operation, for good, and goes on with one payment *)
(* at a time, which its signer made for that user operation.               *)
(***************************************************************************)
CONSTANTS
    UserOps,
    KeyOf,     \* the intent key of a user operation
    Payments

VARIABLES
    committed,  \* the user operations that intent keys are committed to
    signed,     \* <<user operation, payment>>, signed by the expected account
    recorded    \* <<user operation, payment>> that the store goes on with

promise == <<committed, signed, recorded>>

PInit == committed = {} /\ signed = {} /\ recorded = {}

Commit(op) ==
    /\ \A other \in committed : KeyOf[other] # KeyOf[op]
    /\ committed' = committed \cup {op}
    /\ UNCHANGED <<signed, recorded>>

\* A payment is signed once.
Sign(op, payment) ==
    /\ \A s \in signed : s[2] # payment
    /\ signed' = signed \cup {<<op, payment>>}
    /\ UNCHANGED <<committed, recorded>>

\* Another payment that was signed for the same user operation may take its place.
Record(op, payment) ==
    /\ op \in committed /\ <<op, payment>> \in signed
    /\ recorded' = {r \in recorded : r[1] # op} \cup {<<op, payment>>}
    /\ UNCHANGED <<committed, signed>>

PNext ==
    \/ \E op \in UserOps : Commit(op)
    \/ \E op \in UserOps, payment \in Payments : Sign(op, payment)
    \/ \E s \in signed : Record(s[1], s[2])

Promise == PInit /\ [][PNext]_promise

\* What follows for a user: whatever he signed under one intent key, one payment of it at
\* a time goes to the executor, and it is one that he signed for the deposit of that key.
OneCommitment == \A op, other \in committed : KeyOf[op] = KeyOf[other] => op = other

RecordedIsSigned == \A r \in recorded : r \in signed /\ r[1] \in committed

OnePaymentPerKey ==
    /\ OneCommitment /\ RecordedIsSigned
    /\ \A r, s \in recorded : KeyOf[r[1]] = KeyOf[s[1]] => r = s

\* A commitment is for good, and one that has a payment always has one.
PaidStaysPaid ==
    /\ committed \subseteq committed'
    /\ \A r \in recorded : \E s \in recorded' : s[1] = r[1]

NothingIsDropped == [][PaidStaysPaid]_promise
=============================================================================
