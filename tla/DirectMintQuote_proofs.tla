------------------------- MODULE DirectMintQuote_proofs -------------------------
(***************************************************************************)
(* The quote is exact to one unit for all fee settings and amounts.  The   *)
(* first candidate is always enough, so the loop of the code never runs.   *)
(***************************************************************************)
EXTENDS DirectMintQuote, TLAPS

\* Rounding down loses less than one divisor.
LEMMA DivBounds ==
    ASSUME NEW a \in Nat, NEW b \in Nat \ {0}
    PROVE  /\ a \div b \in Nat
           /\ (a \div b) * b <= a
           /\ a < (a \div b) * b + b
  OBVIOUS

\* A common factor is cancelled in an inequality.
LEMMA CancelFactor ==
    ASSUME NEW x \in Int, NEW y \in Int, NEW m \in Nat \ {0}, x * m < y * m
    PROVE  x < y
  OBVIOUS

\* What remains of a payment after the relative fee, in both directions.
LEMMA RelativeFee ==
    ASSUME NEW net \in Nat, NEW m \in Nat \ {0}, NEW f \in 0 .. m - 1, NEW p \in Nat
    PROVE  /\ p * (m - f) >= net * m => p - (p * f) \div m >= net
           /\ p * (m - f) <= net * m + (m - f) - 1 => p - (p * f) \div m <= net + 1
  <1> DEFINE r == (p * f) \div m
  <1>1. p * f \in Nat /\ f \in Nat /\ p * m \in Nat /\ net * m \in Nat
    OBVIOUS
  <1>2. r \in Nat /\ r * m <= p * f /\ p * f < r * m + m
    BY <1>1, DivBounds
  <1>3. p * (m - f) = p * m - p * f /\ (p - r) * m = p * m - r * m
    BY <1>1, <1>2
  <1>4. r * m \in Nat /\ (net - 1) * m = net * m - m /\ (net + 2) * m = net * m + m + m
    BY <1>2
  <1> HIDE DEF r
  <1>5. ASSUME p * (m - f) >= net * m PROVE p - r >= net
    <2>1. (net - 1) * m < (p - r) * m
      BY <1>1, <1>2, <1>3, <1>4, <1>5
    <2> QED BY <2>1, <1>2, CancelFactor
  <1>6. ASSUME p * (m - f) <= net * m + (m - f) - 1 PROVE p - r <= net + 1
    <2>1. (p - r) * m < (net + 2) * m
      BY <1>1, <1>2, <1>3, <1>4, <1>6
    <2> QED BY <2>1, <1>2, CancelFactor
  <1> QED BY <1>5, <1>6 DEF r

\* The candidate as a whole: enough, and at most one unit too much.
LEMMA CandidateIsExact ==
    ASSUME NEW d \in Nat, NEW e \in Nat, NEW s \in Settings
    PROVE  /\ Candidate(d, e, s) \in Nat
           /\ Expected(Candidate(d, e, s), e, s) - d \in {0, 1}
  <1> DEFINE net == d + e
             f == s.feeBIPS
             min == s.minimumFeeUBA
             kept == MaxBips - f
             prop == (net * MaxBips + kept - 1) \div kept
             c == Larger(net + min, prop)
             r == (c * f) \div MaxBips
  <1>1. /\ net \in Nat /\ f \in 0 .. MaxBips - 1 /\ min \in Nat
        /\ MaxBips \in Nat \ {0} /\ kept \in Nat \ {0}
    BY MaxBipsAssumption DEF Settings
  <1>2. net * MaxBips \in Nat /\ net * MaxBips + kept - 1 \in Nat
    BY <1>1
  <1>3. /\ prop \in Nat
        /\ prop * kept <= net * MaxBips + kept - 1
        /\ net * MaxBips + kept - 1 < prop * kept + kept
    BY <1>1, <1>2, DivBounds
  <1>4. prop * kept \in Nat /\ net * MaxBips <= prop * kept
    BY <1>1, <1>2, <1>3
  <1>5. c \in Nat /\ c >= prop /\ c >= net + min /\ (c = prop \/ c = net + min)
    BY <1>1, <1>3 DEF Larger
  <1>6. Candidate(d, e, s) = c
    BY DEF Candidate
  <1> HIDE DEF net, f, min, kept, prop, c
  <1>7. c * f \in Nat /\ r \in Nat
    <2>1. f \in Nat
      BY <1>1
    <2>2. c * f \in Nat
      BY <1>5, <2>1
    <2> QED BY <1>1, <2>2, DivBounds
  <1> HIDE DEF r
  <1>8. c * kept >= prop * kept
    BY <1>1, <1>3, <1>5
  <1>9. c - r >= net
    <2>1. c * kept \in Nat /\ c * kept >= net * MaxBips
      BY <1>1, <1>2, <1>4, <1>5, <1>8
    <2>2. c * (MaxBips - f) >= net * MaxBips
      BY <2>1 DEF kept
    <2> QED BY <1>1, <1>5, <2>2, RelativeFee DEF r
  <1>10. c = prop => c - r <= net + 1
    BY <1>1, <1>3, <1>5, RelativeFee DEF r, kept
  <1>11. Larger(r, min) \in Nat /\ Larger(r, min) <= c
    BY <1>1, <1>5, <1>7, <1>9 DEF Larger
  <1>12. c - Larger(r, min) \in {net, net + 1}
    BY <1>1, <1>5, <1>7, <1>9, <1>10 DEF Larger
  <1>13. MintingFee(c, s) = Larger(r, min)
    BY <1>1, <1>5, <1>7, <1>11 DEF MintingFee, Smaller, r, f, min
  <1>14. Expected(c, e, s) - d = c - Larger(r, min) - net
    BY <1>5, <1>11, <1>13 DEF Expected, net
  <1> QED BY <1>1, <1>5, <1>6, <1>11, <1>12, <1>14

\* The Personal Account of every quote gets what its intent needs, and at most one
\* unit of FXRP more, and the quoted payment is the first one the code tries.
THEOREM QuoteIsExactForAll ==
    ASSUME NEW d \in Nat, NEW e \in Nat, NEW s \in Settings
    PROVE  /\ PaymentAmount(d, e, s) = Candidate(d, e, s)
           /\ Residual(d, e, s) \in {0, 1}
  <1> DEFINE c == Candidate(d, e, s)
             Enough(x) == /\ Expected(x, e, s) >= d
                          /\ \A y \in c .. x - 1 : Expected(y, e, s) < d
  <1>1. c \in Nat /\ Expected(c, e, s) - d \in {0, 1}
    BY CandidateIsExact
  <1>2. Expected(c, e, s) >= d
    <2>1. Expected(c, e, s) \in Int
      BY <1>1, MaxBipsAssumption DEF Expected, MintingFee, Larger, Smaller, Settings
    <2> QED BY <1>1, <2>1
  <1> HIDE DEF c
  <1>3. c \in c .. c + MaxRaises /\ c .. c - 1 = {}
    BY <1>1, MaxRaisesAssumption
  <1>4. Enough(c)
    BY <1>2, <1>3
  <1>5. \A x \in c .. c + MaxRaises : Enough(x) => x = c
    <2> SUFFICES ASSUME NEW x \in c .. c + MaxRaises, Enough(x), x # c PROVE FALSE
      OBVIOUS
    <2>1. c \in c .. x - 1
      BY <1>1, MaxRaisesAssumption
    <2>2. Expected(c, e, s) < d
      BY <2>1
    <2>3. Expected(c, e, s) \in Int
      BY <1>1, MaxBipsAssumption DEF Expected, MintingFee, Larger, Smaller, Settings
    <2> QED BY <1>2, <2>2, <2>3
  <1>6. PaymentAmount(d, e, s) = CHOOSE x \in c .. c + MaxRaises : Enough(x)
    BY DEF PaymentAmount, c
  <1>7. PaymentAmount(d, e, s) = c
    BY <1>3, <1>4, <1>5, <1>6
  <1> QED BY <1>1, <1>7 DEF Residual, c
=============================================================================
