---------------------------- MODULE DirectMintQuote ----------------------------
(***************************************************************************)
(* src/flare/preflight.ts: how much XRP a payment must carry so that, after *)
(* the minting fee and the executor fee named in its memo, the Personal    *)
(* Account is left with the FXRP it needs.  Amounts are bigints in the     *)
(* code: no width and, in between, no sign is lost.                        *)
(***************************************************************************)
EXTENDS Integers

CONSTANTS
    MaxBips,    \* MAX_BIPS
    MaxRaises   \* bound: rounds of the loop that raises a payment

ASSUME MaxBipsAssumption == MaxBips \in Nat \ {0}
ASSUME MaxRaisesAssumption == MaxRaises \in Nat

\* The part of DirectMintingSettings that a quote reads.
Settings == [feeBIPS : 0 .. MaxBips - 1, minimumFeeUBA : Nat]

Larger(a, b)  == IF a > b THEN a ELSE b
Smaller(a, b) == IF a < b THEN a ELSE b

\* computeMintingFeeUBA: relative, but at least the minimum and at most everything.
MintingFee(received, s) ==
    Smaller(Larger((received * s.feeBIPS) \div MaxBips, s.minimumFeeUBA), received)

\* What the Personal Account is left with.
Expected(payment, executorFee, s) == payment - MintingFee(payment, s) - executorFee

\* Where the search starts: the fees of either kind added to what must remain.
Candidate(desired, executorFee, s) ==
    LET net  == desired + executorFee
        kept == MaxBips - s.feeBIPS
    IN  Larger(net + s.minimumFeeUBA, (net * MaxBips + kept - 1) \div kept)

\* Mutated PaymentAmount: the minimum fee is forgotten, and nothing is raised.
PaymentAmountRelative(desired, executorFee, s) ==
    LET kept == MaxBips - s.feeBIPS
    IN  ((desired + executorFee) * MaxBips + kept - 1) \div kept

\* quoteGrossDirectMint: the candidate, raised by one until it is enough.
PaymentAmount(desired, executorFee, s) ==
    LET start == Candidate(desired, executorFee, s) IN
      CHOOSE x \in start .. start + MaxRaises :
        /\ Expected(x, executorFee, s) >= desired
        /\ \A y \in start .. x - 1 : Expected(y, executorFee, s) < desired

\* residualPersonalAccountUBA: what the account keeps beyond what it needs.
Residual(desired, executorFee, s) ==
    Expected(PaymentAmount(desired, executorFee, s), executorFee, s) - desired
=============================================================================
