------------------------ MODULE MintShieldRouter_proofs ------------------------
(***************************************************************************)
(* Theorems about MintShieldRouter, for every set of accounts, intents,    *)
(* adapters and amounts, every delay, and any code at the adapters'        *)
(* addresses.  A call frame is an operator on ledgers, so the argument     *)
(* follows the frames: what a transfer does, what an adapter may leave,    *)
(* what the Router lets through, what one user operation makes of it.      *)
(***************************************************************************)
EXTENDS MintShieldRouter, AdapterRegistry_proofs

---------------------------------------------------------------------------
(* Holders, intents and transfers                                          *)

\* The parties are distinct.
LEMMA Parties ==
    /\ "router" \in Holders /\ "vault" \in Holders
    /\ Accounts \subseteq Holders /\ Implementations \subseteq Holders
    /\ \A c \in Accounts : c # "router" /\ c # "vault" /\ c \notin Implementations
    /\ \A a \in Implementations : a # "router" /\ a # "vault" /\ a \notin Accounts
BY HoldersAssumption DEF Holders

\* The fields of an intent.
LEMMA IntentFields ==
    ASSUME NEW i \in Intents
    PROVE  /\ i.personalAccount \in Accounts /\ i.inputAmount \in Nat
           /\ i.adapterId \in AdapterIds \cup {ZeroId} /\ i.minOutput \in Nat
           /\ i.asset \in Assets
BY IntentsAssumption DEF Intent

\* A ledger is put together from its four books.
LEMMA LedgerFields ==
    ASSUME NEW L \in Ledger
    PROVE  /\ L.fxrp \in [Holders -> Nat] /\ L.shares \in [Accounts -> Nat]
           /\ L.allowance \in [Accounts -> Nat] /\ L.lent \in [Implementations -> Nat]
           /\ L = [fxrp |-> L.fxrp, shares |-> L.shares, allowance |-> L.allowance,
                   lent |-> L.lent]
BY DEF Ledger

\* A covered transfer moves FXRP between two holders and touches nothing else.
LEMMA Transfer ==
    ASSUME NEW L \in Ledger, NEW f \in Holders, NEW t \in Holders, NEW x \in Nat,
           x <= L.fxrp[f]
    PROVE  /\ Move(L, f, t, x) \in Ledger
           /\ \A h \in Holders \ {f, t} : Move(L, f, t, x).fxrp[h] = L.fxrp[h]
           /\ f # t => /\ Move(L, f, t, x).fxrp[f] = L.fxrp[f] - x
                       /\ Move(L, f, t, x).fxrp[t] = L.fxrp[t] + x
           /\ f = t => Move(L, f, t, x).fxrp[f] = L.fxrp[f]
           /\ Move(L, f, t, x).shares = L.shares
           /\ Move(L, f, t, x).allowance = L.allowance
           /\ Move(L, f, t, x).lent = L.lent
<1> DEFINE g == [L.fxrp EXCEPT ![f] = @ - x]
           h == [g EXCEPT ![t] = @ + x]
<1>1. g \in [Holders -> Nat] /\ g[f] = L.fxrp[f] - x
      /\ \A k \in Holders \ {f} : g[k] = L.fxrp[k]
  BY LedgerFields
<1>2. h \in [Holders -> Nat] /\ h[t] = g[t] + x /\ \A k \in Holders \ {t} : h[k] = g[k]
  <2> HIDE DEF g
  <2> QED  BY <1>1
<1>3. Move(L, f, t, x) = [L EXCEPT !.fxrp = h]
  BY DEF Move
<1>4. Move(L, f, t, x) =
        [fxrp |-> h, shares |-> L.shares, allowance |-> L.allowance, lent |-> L.lent]
  <2> HIDE DEF g, h
  <2> QED  BY <1>3, LedgerFields
<1>5. \A n \in Nat : x <= n => (n - x) + x = n
  OBVIOUS
<1> HIDE DEF g, h
<1>6. L.fxrp[f] \in Nat
  BY LedgerFields
<1> QED  BY <1>1, <1>2, <1>4, <1>5, <1>6, LedgerFields DEF Ledger

\* So does an adapter that takes what it was lent or less.
LEMMA Taking ==
    ASSUME NEW L \in Ledger, NEW a \in Implementations, NEW t \in Nat,
           t <= L.lent[a], t <= L.fxrp["router"]
    PROVE  /\ Takes(L, a, t) \in Ledger /\ Takes(L, a, t).shares = L.shares
           /\ Takes(L, a, t).fxrp[a] >= t
           /\ \A c \in Accounts : Takes(L, a, t).fxrp[c] = L.fxrp[c]
           /\ \A b \in Implementations \ {a} : Takes(L, a, t).lent[b] = L.lent[b]
<1> DEFINE m == Move(L, "router", a, t)
           taken == Takes(L, a, t)
<1>1. L.lent[a] \in Nat /\ L.fxrp[a] \in Nat /\ a \in Holders
  BY Parties, LedgerFields
<1>2. /\ m \in Ledger /\ m.lent = L.lent /\ m.shares = L.shares /\ m.fxrp[a] >= t
      /\ \A c \in Accounts : m.fxrp[c] = L.fxrp[c]
  BY <1>1, Parties, Transfer
<1>3. taken = [m EXCEPT !.lent[a] = @ - t]
  BY DEF Takes
<1> HIDE DEF m, taken
<1>4. m.lent[a] - t \in Nat /\ m.lent \in [Implementations -> Nat]
  BY <1>1, <1>2, LedgerFields
<1>5. taken = [fxrp |-> m.fxrp, shares |-> m.shares, allowance |-> m.allowance,
               lent |-> [m.lent EXCEPT ![a] = m.lent[a] - t]]
  BY <1>2, <1>3, LedgerFields
<1>6. taken \in Ledger /\ taken.fxrp = m.fxrp /\ taken.shares = m.shares
  BY <1>2, <1>4, <1>5, LedgerFields DEF Ledger
<1>7. \A b \in Implementations \ {a} : taken.lent[b] = L.lent[b]
  BY <1>2, <1>4, <1>5
<1>8. taken \in Ledger /\ taken.shares = L.shares /\ taken.fxrp[a] >= t
      /\ \A c \in Accounts : taken.fxrp[c] = L.fxrp[c]
  BY <1>2, <1>6
<1> QED  BY <1>7, <1>8 DEF taken

---------------------------------------------------------------------------
(* What an adapter's frame may leave                                       *)

Failed(x)   == x.ok = FALSE /\ x = Fails(x.error)
Returned(x) == x.ok = TRUE /\ x = Gives(x.ledger, x.size, x.out)

\* Adapter a returned with a ledger in which it may have spent the Router's FXRP, but
\* took no account's and no other adapter's allowance.
Spends(L, a, x) ==
    /\ Returned(x) /\ x.ledger \in Ledger /\ x.out \in Nat
    /\ \A b \in Implementations \ {a} : x.ledger.lent[b] = L.lent[b]
    /\ \A c \in Accounts : x.ledger.fxrp[c] >= L.fxrp[c]

\* Untrusted code is bounded by the allowance and the balances.
LEMMA UntrustedSpends ==
    ASSUME NEW L \in Ledger, NEW a \in Implementations, NEW x \in UntrustedExecute(L, a)
    PROVE  Failed(x) \/ Spends(L, a, x)
<1>1. CASE \E e \in AdapterErrors : x = Fails(e)
  BY <1>1 DEF Failed, Fails
<1>2. ASSUME NEW t \in 0 .. Min(L.lent[a], L.fxrp["router"]), x \in PassesOn(Takes(L, a, t), a)
      PROVE  Spends(L, a, x)
  <2> DEFINE taken == Takes(L, a, t)
  <2>1. L.lent[a] \in Nat /\ L.fxrp["router"] \in Nat
    BY Parties, LedgerFields
  <2>2. t \in Nat /\ t <= L.lent[a] /\ t <= L.fxrp["router"]
    BY <2>1 DEF Min
  <2>3. /\ taken \in Ledger
        /\ \A c \in Accounts : taken.fxrp[c] = L.fxrp[c]
        /\ \A b \in Implementations \ {a} : taken.lent[b] = L.lent[b]
    BY <2>2, Taking
  <2>4. PICK to \in {"router", a} \cup Accounts, v \in {y \in Amounts : y <= taken.fxrp[a]},
             size \in {31, 32}, out \in Amounts :
          x = Gives(Move(taken, a, to, v), size, out)
    BY <1>2 DEF PassesOn
  <2> HIDE DEF taken
  <2>5. v \in Nat /\ out \in Nat /\ to \in Holders /\ v <= taken.fxrp[a]
    BY <2>4, Parties, RouterBoundsAssumption
  <2>6. /\ Move(taken, a, to, v) \in Ledger /\ Move(taken, a, to, v).lent = taken.lent
        /\ \A c \in Accounts : Move(taken, a, to, v).fxrp[c] >= taken.fxrp[c]
    <3>1. \A c \in Accounts : taken.fxrp[c] \in Nat /\ c \in Holders /\ c # a
      BY <2>3, Parties, LedgerFields
    <3>2. Move(taken, a, to, v) \in Ledger /\ Move(taken, a, to, v).lent = taken.lent
      BY <2>3, <2>5, Parties, Transfer
    <3>3. ASSUME NEW c \in Accounts PROVE Move(taken, a, to, v).fxrp[c] >= taken.fxrp[c]
      BY <2>3, <2>5, <3>1, Parties, Transfer
    <3> QED  BY <3>2, <3>3
  <2>7. x.ledger = Move(taken, a, to, v) /\ x.out = out /\ Returned(x)
    BY <2>4 DEF Gives, Returned
  <2>8. ASSUME NEW c \in Accounts PROVE x.ledger.fxrp[c] >= L.fxrp[c]
    BY <2>3, <2>6, <2>7
  <2>9. \A b \in Implementations \ {a} : x.ledger.lent[b] = L.lent[b]
    BY <2>3, <2>6, <2>7
  <2> QED  BY <2>5, <2>6, <2>7, <2>8, <2>9 DEF Spends
<1> QED  BY <1>1, <1>2 DEF UntrustedExecute

\* The ERC-4626 adapter that has not been replaced gave the account as many shares as
\* it says.
Honest(a) == a \in Erc4626Adapters /\ codeOf[a] = 1
PaysShares(L, i, x) ==
    x.ledger.shares[i.personalAccount] = L.shares[i.personalAccount] + x.out

\* What any answer of the vault leaves after the adapter's post-conditions.
LEMMA DepositSpends ==
    ASSUME NEW L \in Ledger, NEW a \in Implementations, NEW i \in Intents,
           L.lent[a] = i.inputAmount, i.inputAmount <= L.fxrp["router"],
           NEW v \in VaultDeposit(i.inputAmount),
           NEW x, x = AfterDeposit(L, a, i, v), x.ok
    PROVE  Spends(L, a, x) /\ PaysShares(L, i, x)
<1> DEFINE n == i.inputAmount
           c == i.personalAccount
           m == Takes(L, a, n)
           d == Move(m, a, "vault", n)
           D == [d EXCEPT !.shares[c] = @ + v.minted]
<1>1. n \in Nat /\ c \in Accounts
  BY IntentFields
<1>2. /\ v.kind = "returned" /\ v.taken = n /\ v.value = v.minted
      /\ x = Gives([Move(m, a, "vault", v.taken) EXCEPT !.shares[c] = @ + v.minted],
                   32, v.value)
  <2>1. v.kind = "revert" \/ v.kind = "malformed" \/ v.kind = "returned"
    BY DEF VaultDeposit, FailureVaultDeposit
  <2> QED  BY <2>1, Zenon DEF AfterDeposit, Fails
<1>3. v.minted \in Nat
  <2>1. \A k \in Nat : k \div 2 \in Nat
    OBVIOUS
  <2> QED  BY <1>1, <1>2, <2>1 DEF VaultDeposit, FailureVaultDeposit
<1>4. x = Gives(D, 32, v.minted)
  BY <1>2
<1>5. /\ m \in Ledger /\ m.shares = L.shares /\ m.fxrp[a] >= n
      /\ \A k \in Accounts : m.fxrp[k] = L.fxrp[k]
      /\ \A b \in Implementations \ {a} : m.lent[b] = L.lent[b]
  BY <1>1, Taking
<1> HIDE DEF m
<1>6. /\ d \in Ledger /\ d.shares = L.shares /\ d.lent = m.lent
      /\ \A k \in Accounts : d.fxrp[k] = L.fxrp[k]
  BY <1>1, <1>5, Parties, Transfer
<1> HIDE DEF d
<1>7. D = [fxrp |-> d.fxrp, shares |-> [d.shares EXCEPT ![c] = @ + v.minted],
           allowance |-> d.allowance, lent |-> d.lent]
  BY <1>6, LedgerFields
<1>8. /\ [d.shares EXCEPT ![c] = @ + v.minted] \in [Accounts -> Nat]
      /\ [d.shares EXCEPT ![c] = @ + v.minted][c] = L.shares[c] + v.minted
  BY <1>1, <1>3, <1>6, LedgerFields
<1>9. D \in Ledger /\ D.fxrp = d.fxrp /\ D.lent = m.lent
      /\ D.shares[c] = L.shares[c] + v.minted
  BY <1>6, <1>7, <1>8, LedgerFields DEF Ledger
<1> HIDE DEF D
<1>10. x.ledger = D /\ x.out = v.minted /\ Returned(x)
  BY <1>4 DEF Gives, Returned
<1>11. \A k \in Accounts : D.fxrp[k] >= L.fxrp[k]
  BY <1>6, <1>9, Parties, LedgerFields
<1> QED  BY <1>3, <1>5, <1>9, <1>10, <1>11 DEF Spends, PaysShares

\* The same of whatever code is at the implementation's address.
LEMMA AdapterSpends ==
    ASSUME NEW L \in Ledger, NEW a \in Implementations, NEW i \in Intents,
           L.lent[a] = i.inputAmount, i.inputAmount <= L.fxrp["router"],
           NEW x \in AdapterExecute(L, a, i)
    PROVE  \/ Failed(x)
           \/ Spends(L, a, x) /\ (Honest(a) => PaysShares(L, i, x))
<1>1. CASE Honest(a)
  <2>1. x \in Erc4626Execute(L, a, i)
    BY <1>1 DEF AdapterExecute, Honest
  <2>2. CASE \E e \in {"PostConditionFailed", "TargetCodeHashMismatch"} : x = Fails(e)
    BY <2>2 DEF Failed, Fails
  <2>3. ASSUME NEW v \in VaultDeposit(i.inputAmount), x = AfterDeposit(L, a, i, v)
        PROVE  Failed(x) \/ (Spends(L, a, x) /\ PaysShares(L, i, x))
    <3>1. CASE x.ok
      BY <2>3, <3>1, DepositSpends
    <3>2. CASE ~x.ok
      BY <2>3, <3>2 DEF AfterDeposit, Fails, Gives, Failed
    <3> QED  BY <3>1, <3>2
  <2> QED  BY <2>1, <2>2, <2>3 DEF Erc4626Execute
<1>2. CASE ~Honest(a)
  BY <1>2, UntrustedSpends DEF AdapterExecute, Honest
<1> QED  BY <1>1, <1>2

---------------------------------------------------------------------------
(* What the Router lets through                                            *)

\* executeAdapter returned: the Router is as rich as `before`, nothing stays lent, and
\* the promised output is there.
LetThrough(L, a, i, before, y) ==
    /\ Returned(y) /\ y.ledger \in Ledger
    /\ y.out \in Nat /\ y.out >= i.minOutput
    /\ y.ledger.fxrp["router"] = before
    /\ \A b \in Implementations \ {a} : y.ledger.lent[b] = L.lent[b]
    /\ y.ledger.lent[a] = 0
    /\ \A c \in Accounts : y.ledger.fxrp[c] >= L.fxrp[c]
    /\ Honest(a) => PaysShares(L, i, y)

\* Whatever an adapter does, executeAdapter fails or lets through only that.
LEMMA AdapterIsContained ==
    ASSUME NEW L \in Ledger, NEW a \in Implementations, NEW i \in Intents,
           NEW before, i.inputAmount <= L.fxrp["router"],
           NEW y \in ExecuteAdapter(L, a, i, before)
    PROVE  Failed(y) \/ LetThrough(L, a, i, before, y)
<1> DEFINE lent == [L EXCEPT !.lent[a] = i.inputAmount]
<1>1. lent = [fxrp |-> L.fxrp, shares |-> L.shares, allowance |-> L.allowance,
              lent |-> [L.lent EXCEPT ![a] = i.inputAmount]]
  BY LedgerFields
<1>2. [L.lent EXCEPT ![a] = i.inputAmount] \in [Implementations -> Nat]
  BY IntentFields, LedgerFields
<1>3. /\ lent \in Ledger /\ lent.fxrp = L.fxrp /\ lent.shares = L.shares
      /\ lent.lent[a] = i.inputAmount
      /\ \A b \in Implementations \ {a} : lent.lent[b] = L.lent[b]
  BY <1>1, <1>2, LedgerFields DEF Ledger
<1>4. PICK x \in AdapterExecute(lent, a, i) : y = AfterAdapter(L, a, i, before, x)
  BY DEF ExecuteAdapter
<1> HIDE DEF lent
<1>5. CASE Failed(x)
  BY <1>4, <1>5 DEF AfterAdapter, Failed
<1>6. CASE Spends(lent, a, x) /\ (Honest(a) => PaysShares(lent, i, x))
  <2>1. CASE \E e \in {"InvalidAdapterReturnData", "MinimumOutputNotMet",
                       "AdapterDidNotSpendExactInput"} : y = Fails(e)
    BY <2>1 DEF Failed, Fails
  <2>2. CASE /\ x.size = 32 /\ ~(x.out < i.minOutput) /\ x.ledger.fxrp["router"] = before
             /\ y = Gives([x.ledger EXCEPT !.lent[a] = 0], x.size, x.out)
    <3> DEFINE K == [x.ledger EXCEPT !.lent[a] = 0]
    <3>1. x.ledger \in Ledger
      BY <1>6 DEF Spends
    <3>2. K = [fxrp |-> x.ledger.fxrp, shares |-> x.ledger.shares,
               allowance |-> x.ledger.allowance, lent |-> [x.ledger.lent EXCEPT ![a] = 0]]
      BY <3>1, LedgerFields
    <3>3. /\ [x.ledger.lent EXCEPT ![a] = 0] \in [Implementations -> Nat]
          /\ [x.ledger.lent EXCEPT ![a] = 0][a] = 0
          /\ \A b \in Implementations \ {a} :
                [x.ledger.lent EXCEPT ![a] = 0][b] = x.ledger.lent[b]
      BY <3>1, LedgerFields
    <3>4. /\ K \in Ledger /\ K.fxrp = x.ledger.fxrp /\ K.shares = x.ledger.shares
          /\ K.lent[a] = 0 /\ \A b \in Implementations \ {a} : K.lent[b] = x.ledger.lent[b]
      BY <3>1, <3>2, <3>3, LedgerFields DEF Ledger
    <3>5. y = Gives(K, x.size, x.out)
      BY <2>2
    <3> HIDE DEF K
    <3>6. Returned(y) /\ y.ledger = K /\ y.out = x.out
      BY <3>5 DEF Gives, Returned
    <3>7. \A b \in Implementations \ {a} : y.ledger.lent[b] = L.lent[b]
      BY <1>3, <1>6, <3>4, <3>6 DEF Spends
    <3>8. \A c \in Accounts : y.ledger.fxrp[c] >= L.fxrp[c]
      BY <1>3, <1>6, <3>4, <3>6 DEF Spends
    <3>9. Honest(a) => PaysShares(L, i, y)
      BY <1>3, <1>6, <3>4, <3>6 DEF PaysShares
    <3>10. y.out \in Nat /\ y.out >= i.minOutput
      BY <1>6, <2>2, <3>6, IntentFields DEF Spends
    <3> QED  BY <2>2, <3>4, <3>6, <3>7, <3>8, <3>9, <3>10 DEF LetThrough
  <2>3. x.ok
    BY <1>6 DEF Spends, Returned
  <2> QED  BY <1>4, <2>1, <2>2, <2>3 DEF AfterAdapter
<1> QED  BY <1>3, <1>4, <1>5, <1>6, AdapterSpends

---------------------------------------------------------------------------
(* One execution                                                           *)

\* What a call of execute by account c, from ledger L, may make of the world: it never
\* reverts, it returns to the Router what the Router had, it uses no intent but one of
\* c, a fallback leaves the ledger it began with, and a success is of a fresh intent, is
\* worth what was promised and takes nothing from others.
Outcome(L, c, i, r) ==
    /\ r.event \in Event
    /\ r.ledger \in Ledger
    /\ r.ledger.fxrp["router"] = L.fxrp["router"]
    /\ \A a \in Implementations : r.ledger.lent[a] = L.lent[a]
    /\ r.used \in {usedIntents, usedIntents \cup {i}}
    /\ r.used # usedIntents => i.personalAccount = c
    /\ r.event.status = "FALLBACK" => /\ r.ledger.fxrp = L.fxrp /\ r.ledger.shares = L.shares
                                     /\ r.ledger.lent = L.lent
    /\ r.event.status = "SUCCESS" =>
         LET a == adapters[i.adapterId].implementation
         IN  /\ i \notin usedIntents /\ i \in r.used
             /\ i.personalAccount = c /\ i.adapterId \in AdapterIds /\ a \in Implementations
             /\ codeOf[a] = adapters[i.adapterId].codeHash
             /\ r.ledger.fxrp[c] + i.inputAmount >= L.fxrp[c]
             /\ \A d \in Accounts \ {c} : r.ledger.fxrp[d] >= L.fxrp[d]
             /\ r.event.amountOut >= i.minOutput
             /\ Honest(a) => r.ledger.shares[c] = L.shares[c] + r.event.amountOut

\* pullAsset moves exactly the input.
LEMMA Pulling ==
    ASSUME NEW L \in Ledger, NEW c \in Accounts, NEW i \in Intents, CanPull(L, c, i)
    PROVE  /\ Pulled(L, c, i) \in Ledger
           /\ Pulled(L, c, i).fxrp["router"] = L.fxrp["router"] + i.inputAmount
           /\ Pulled(L, c, i).fxrp[c] = L.fxrp[c] - i.inputAmount
           /\ \A h \in Holders \ {c, "router"} : Pulled(L, c, i).fxrp[h] = L.fxrp[h]
           /\ Pulled(L, c, i).shares = L.shares /\ Pulled(L, c, i).lent = L.lent
<1> DEFINE n == i.inputAmount
           m == Move(L, c, "router", n)
           p == Pulled(L, c, i)
<1>1. /\ n \in Nat /\ L.fxrp[c] \in Nat /\ L.allowance[c] \in Nat
      /\ n <= L.allowance[c] /\ n <= L.fxrp[c]
  BY IntentFields, LedgerFields, Parties DEF CanPull
<1>2. /\ m \in Ledger /\ m.shares = L.shares /\ m.lent = L.lent /\ m.allowance = L.allowance
      /\ m.fxrp["router"] = L.fxrp["router"] + n /\ m.fxrp[c] = L.fxrp[c] - n
      /\ \A h \in Holders \ {c, "router"} : m.fxrp[h] = L.fxrp[h]
  BY <1>1, Parties, Transfer
<1>3. p = [m EXCEPT !.allowance[c] = @ - n]
  BY DEF Pulled
<1> HIDE DEF m, p
<1>4. p = [fxrp |-> m.fxrp, shares |-> m.shares, lent |-> m.lent,
           allowance |-> [m.allowance EXCEPT ![c] = @ - n]]
  <2> HIDE DEF n
  <2> QED  BY <1>2, <1>3, LedgerFields
<1>5. [m.allowance EXCEPT ![c] = @ - n] \in [Accounts -> Nat]
  BY <1>1, <1>2, LedgerFields
<1>6. p \in Ledger /\ p.fxrp = m.fxrp /\ p.shares = m.shares /\ p.lent = m.lent
  BY <1>2, <1>4, <1>5, LedgerFields DEF Ledger
<1> QED  BY <1>2, <1>6 DEF p

\* A fallback after the pull never reverts and undoes the pull.
LEMMA FallbackPays ==
    ASSUME NEW L \in Ledger, NEW c \in Accounts, NEW i \in Intents, CanPull(L, c, i),
           i.personalAccount = c, NEW code \in Codes
    PROVE  Outcome(L, c, i,
                   FundedFallback(Pulled(L, c, i), c, i, L.fxrp["router"],
                                  usedIntents \cup {i}, code))
<1> DEFINE n == i.inputAmount
           p == Pulled(L, c, i)
           back == Move(p, "router", c, n)
           r == FundedFallback(p, c, i, L.fxrp["router"], usedIntents \cup {i}, code)
<1>1. n \in Nat /\ n <= L.fxrp[c] /\ L.fxrp \in [Holders -> Nat]
  BY IntentFields, LedgerFields DEF CanPull
<1>2. /\ p \in Ledger /\ p.fxrp["router"] = L.fxrp["router"] + n
      /\ p.fxrp[c] = L.fxrp[c] - n
      /\ \A h \in Holders \ {c, "router"} : p.fxrp[h] = L.fxrp[h]
      /\ p.shares = L.shares /\ p.lent = L.lent
  BY Pulling
<1>3. r = IF p.fxrp["router"] < n \/ back.fxrp["router"] # L.fxrp["router"] THEN Reverts
          ELSE Settles(back, usedIntents \cup {i}, "FALLBACK", code, n, 0)
  BY DEF FundedFallback
<1> HIDE DEF p
<1>4. n <= p.fxrp["router"] /\ L.fxrp["router"] \in Nat /\ L.fxrp[c] \in Nat
  BY <1>1, <1>2, Parties
<1>5. /\ back \in Ledger /\ back.shares = L.shares /\ back.lent = L.lent
      /\ back.fxrp["router"] = p.fxrp["router"] - n /\ back.fxrp[c] = p.fxrp[c] + n
      /\ \A h \in Holders \ {"router", c} : back.fxrp[h] = p.fxrp[h]
  BY <1>1, <1>2, <1>4, Parties, Transfer
<1> HIDE DEF back
<1>6. \A h \in Holders : back.fxrp[h] = L.fxrp[h]
  BY <1>1, <1>2, <1>4, <1>5
<1>7. back.fxrp = L.fxrp
  <2>1. back.fxrp \in [Holders -> Nat]
    BY <1>5, LedgerFields
  <2> QED  BY <1>1, <1>6, <2>1
<1> HIDE DEF r
<1>8. r = Settles(back, usedIntents \cup {i}, "FALLBACK", code, n, 0)
  BY <1>1, <1>2, <1>3, <1>4, <1>7
<1>9. /\ r.event = [status |-> "FALLBACK", code |-> code, amountIn |-> n, amountOut |-> 0]
      /\ r.ledger = back /\ r.used = usedIntents \cup {i}
  BY <1>8 DEF Settles
<1>10. r.event \in Event /\ r.event.status = "FALLBACK"
  BY <1>1, <1>9 DEF Event
<1>11. Outcome(L, c, i, r)
  BY <1>5, <1>7, <1>9, <1>10 DEF Outcome
<1> QED  BY <1>11 DEF r, p

\* An execution that refuses before the pull leaves everything.
LEMMA UnfundedLeaves ==
    ASSUME NEW L \in Ledger, NEW c, NEW i, NEW code \in Codes
    PROVE  Outcome(L, c, i, UnfundedFallback(L, code))
BY DEF Outcome, UnfundedFallback, Settles, Event

\* The checks before the adapter let only a fresh intent of a configured adapter pass,
\* whose code is the one pinned.
LEMMA RefusalMeans ==
    ASSUME RouterTypeOK, NEW i \in Intents, i.adapterId # ZeroId
    PROVE  /\ Refusal(i) \in Codes
           /\ Refusal(i) = "NONE" =>
                LET config == adapters[i.adapterId]
                IN  /\ i \notin usedIntents /\ i.adapterId \in AdapterIds
                    /\ config.implementation \in Implementations
                    /\ codeOf[config.implementation] = config.codeHash
<1>1. i.adapterId \in AdapterIds
  BY IntentFields
<1>2. adapters[i.adapterId] \in Config
  BY <1>1 DEF RouterTypeOK, RegistryTypeOK
<1>3. adapters[i.adapterId].implementation \in Implementations \cup {NoImplementation}
  BY <1>2 DEF Config, NotConfigured
<1>4. Refusal(i) \in Codes
  BY DEF Refusal, Codes
<1>5. ASSUME Refusal(i) = "NONE"
      PROVE  /\ i \notin usedIntents
             /\ adapters[i.adapterId].implementation # NoImplementation
             /\ codeOf[adapters[i.adapterId].implementation] = adapters[i.adapterId].codeHash
  BY <1>5 DEF Refusal
<1> QED  BY <1>1, <1>3, <1>4, <1>5

\* No adapter is left with an allowance.
NoneLent(L) == \A a \in Implementations : L.lent[a] = 0

\* An adapter's answer settles or falls back.
LEMMA SettlementOutcome ==
    ASSUME RouterTypeOK, NEW L \in Ledger, NoneLent(L), NEW c \in Accounts,
           NEW i \in Intents, ~InvalidIntent(c, i), CanPull(L, c, i), Refusal(i) = "NONE",
           NEW a, a = adapters[i.adapterId].implementation,
           NEW x \in ExecuteAdapter(Pulled(L, c, i), a, i, L.fxrp["router"]),
           NEW r, r = SettleAdapter(Pulled(L, c, i), c, i, L.fxrp["router"], x)
    PROVE  Outcome(L, c, i, r)
<1> DEFINE p == Pulled(L, c, i)
<1>1. /\ i.adapterId # ZeroId /\ i.personalAccount = c
      /\ i.inputAmount \in Nat /\ L.fxrp["router"] \in Nat /\ L.fxrp[c] \in Nat
  BY IntentFields, LedgerFields, Parties DEF InvalidIntent
<1>2. /\ i \notin usedIntents /\ i.adapterId \in AdapterIds /\ a \in Implementations
      /\ codeOf[a] = adapters[i.adapterId].codeHash
  BY <1>1, RefusalMeans
<1>3. /\ p \in Ledger /\ p.fxrp["router"] = L.fxrp["router"] + i.inputAmount
      /\ p.fxrp[c] = L.fxrp[c] - i.inputAmount /\ p.shares = L.shares /\ p.lent = L.lent
  BY Pulling
<1>4. Failed(x) \/ LetThrough(p, a, i, L.fxrp["router"], x)
  BY <1>1, <1>2, <1>3, AdapterIsContained
<1>5. CASE Failed(x)
  <2>1. r = FundedFallback(p, c, i, L.fxrp["router"], usedIntents \cup {i},
                           ClassifyAdapterFailure(x.error))
    BY <1>5 DEF SettleAdapter, Failed
  <2>2. ClassifyAdapterFailure(x.error) \in Codes
    BY DEF ClassifyAdapterFailure, Codes
  <2> QED  BY <1>1, <2>1, <2>2, FallbackPays
<1>6. CASE LetThrough(p, a, i, L.fxrp["router"], x)
  <2>1. /\ x.ok /\ x.ledger \in Ledger /\ x.out \in Nat /\ x.out >= i.minOutput
        /\ x.ledger.fxrp["router"] = L.fxrp["router"]
        /\ Honest(a) => x.ledger.shares[c] = L.shares[c] + x.out
    BY <1>1, <1>3, <1>6 DEF LetThrough, Returned, PaysShares
  <2>2. \A b \in Implementations : x.ledger.lent[b] = L.lent[b]
    BY <1>2, <1>3, <1>6 DEF LetThrough, NoneLent
  <2>3. x.ledger.fxrp[c] + i.inputAmount >= L.fxrp[c]
    <3>1. x.ledger.fxrp[c] >= L.fxrp[c] - i.inputAmount
      BY <1>3, <1>6 DEF LetThrough
    <3>2. x.ledger.fxrp[c] \in Nat
      BY <2>1, Parties, LedgerFields
    <3> QED  BY <1>1, <3>1, <3>2
  <2>7. ASSUME NEW d \in Accounts \ {c} PROVE x.ledger.fxrp[d] >= L.fxrp[d]
    <3>1. d \in Holders \ {c, "router"}
      BY Parties
    <3>2. p.fxrp[d] = L.fxrp[d]
      BY <3>1, Pulling
    <3> QED  BY <1>6, <3>2 DEF LetThrough
  <2>4. /\ r.event = [status |-> "SUCCESS", code |-> "NONE", amountIn |-> i.inputAmount,
                      amountOut |-> x.out]
        /\ r.ledger = x.ledger /\ r.used = usedIntents \cup {i}
    BY <2>1 DEF SettleAdapter, Settles
  <2>5. /\ r.event \in Event /\ r.event.status = "SUCCESS" /\ r.event.amountOut = x.out
    BY <1>1, <2>1, <2>4 DEF Event, Codes
  <2>6. i \in r.used /\ r.used \in {usedIntents, usedIntents \cup {i}}
    BY <2>4
  <2> QED  BY <1>1, <1>2, <2>1, <2>2, <2>3, <2>4, <2>5, <2>6, <2>7 DEF Outcome
<1> QED  BY <1>4, <1>5, <1>6

\* Whatever the state of the Router, the registry, the adapters and the vault.
LEMMA ExecuteOutcome ==
    ASSUME RouterTypeOK, NEW L \in Ledger, NoneLent(L), NEW c \in Accounts,
           NEW i \in Intents, NEW r \in Execute(L, c, i)
    PROVE  Outcome(L, c, i, r)
<1>1. CASE InvalidIntent(c, i)
  BY <1>1, UnfundedLeaves DEF Execute, Codes
<1>2. CASE ~InvalidIntent(c, i) /\ ~CanPull(L, c, i)
  BY <1>2, UnfundedLeaves DEF Execute, Codes
<1>3. CASE ~InvalidIntent(c, i) /\ CanPull(L, c, i) /\ Refusal(i) # "NONE"
  <2>1. r = FundedFallback(Pulled(L, c, i), c, i, L.fxrp["router"],
                           usedIntents \cup {i}, Refusal(i))
    BY <1>3 DEF Execute
  <2>2. Refusal(i) \in Codes /\ i.personalAccount = c
    BY <1>3, RefusalMeans DEF InvalidIntent
  <2> QED  BY <1>3, <2>1, <2>2, FallbackPays
<1>4. CASE ~InvalidIntent(c, i) /\ CanPull(L, c, i) /\ Refusal(i) = "NONE"
  <2>1. PICK x \in ExecuteAdapter(Pulled(L, c, i), adapters[i.adapterId].implementation, i,
                                  L.fxrp["router"]) :
          r = SettleAdapter(Pulled(L, c, i), c, i, L.fxrp["router"], x)
    BY <1>4 DEF Execute
  <2> QED  BY <1>4, <2>1, SettlementOutcome
<1> QED  BY <1>1, <1>2, <1>3, <1>4

---------------------------------------------------------------------------
(* The invariant                                                           *)

\* The ids of the intents that have succeeded are consumed.
SuccessesAreUsed ==
    \A i \in Intents : successes[i] <= 1 /\ (successes[i] # 0 => i \in usedIntents)

\* What was live for an adapterId when a payment was signed with no change scheduled is
\* live until the delay has passed, and no change can take effect before.
Noticed(f) == ~f.changing /\ f.config.version # 0

StillLive(f) ==
    LET id == f.intent.adapterId
    IN  /\ id \in AdapterIds /\ f.at <= now
        /\ adapters[id].version # 0
        /\ now < f.at + Delay => /\ adapters[id].implementation = f.config.implementation
                                /\ adapters[id].codeHash = f.config.codeHash
        /\ pendingAdapters[id].effectiveAt # 0 =>
              pendingAdapters[id].effectiveAt >= f.at + Delay

FlightsAreNoticed == \A f \in inFlight : Noticed(f) => StillLive(f)

RouterInv ==
    /\ RouterTypeOK
    /\ RouterHoldsOnlyDonations /\ NothingStaysLent
    /\ MintIsNeverTakenBack /\ SuccessesAreUsed
    /\ FlightsAreNoticed

\* The start of a user operation: the mint and the approval.
LEMMA StartLedger ==
    ASSUME RouterInv, NEW c \in Accounts, NEW minted \in Amounts, NEW approved \in Amounts,
           NEW start, start = Dispatched(ledger, c, minted, approved)
    PROVE  /\ start \in Ledger /\ NoneLent(start)
           /\ start.fxrp = [ledger.fxrp EXCEPT ![c] = @ + minted]
           /\ start.fxrp["router"] = donated /\ start.fxrp[c] = ledger.fxrp[c] + minted
           /\ start.shares = ledger.shares /\ start.lent = ledger.lent
<1>1. ledger \in Ledger /\ minted \in Nat /\ approved \in Nat
  BY RouterBoundsAssumption DEF RouterInv, RouterTypeOK
<1> DEFINE fxrp == [ledger.fxrp EXCEPT ![c] = @ + minted]
           allowance == [ledger.allowance EXCEPT ![c] = approved]
<1>2. start = [fxrp |-> fxrp, shares |-> ledger.shares, allowance |-> allowance,
               lent |-> ledger.lent]
  <2> DEFINE credited == [ledger EXCEPT !.fxrp[c] = @ + minted]
  <2>1. start = [credited EXCEPT !.allowance[c] = approved]
    BY DEF Dispatched
  <2>2. credited = [fxrp |-> fxrp, shares |-> ledger.shares,
                    allowance |-> ledger.allowance, lent |-> ledger.lent]
    BY <1>1, LedgerFields
  <2> HIDE DEF credited
  <2> QED  BY <1>1, <2>1, <2>2, LedgerFields
<1>3. /\ fxrp \in [Holders -> Nat] /\ fxrp[c] = ledger.fxrp[c] + minted
      /\ fxrp["router"] = ledger.fxrp["router"] /\ allowance \in [Accounts -> Nat]
  BY <1>1, LedgerFields, Parties
<1> HIDE DEF fxrp, allowance
<1>4. start \in Ledger
  BY <1>1, <1>2, <1>3, LedgerFields DEF Ledger
<1> QED  BY <1>2, <1>3, <1>4
         DEF fxrp, NoneLent, RouterInv, NothingStaysLent, RouterHoldsOnlyDonations

\* A user operation takes the mint back, or ends as an execution of what it began with.
TakenBack(g) ==
    ~g /\ settlement'.event = Reverted /\ UNCHANGED <<ledger, usedIntents, successes>>

Ends(L, c, i, minted) ==
    /\ Outcome(L, c, i, [event |-> settlement'.event, ledger |-> ledger',
                         used |-> usedIntents'])
    /\ L.fxrp = [ledger.fxrp EXCEPT ![c] = @ + minted]
    /\ L.fxrp["router"] = donated
    /\ L.fxrp[c] = ledger.fxrp[c] + minted
    /\ NoneLent(L) /\ L.shares = ledger.shares /\ L.lent = ledger.lent

Ended(c, i, minted) ==
    /\ settlement'.event # Reverted
    /\ \E L \in Ledger : Ends(L, c, i, minted)
    /\ successes' = [successes EXCEPT ![i] =
                       IF settlement'.event.status = "SUCCESS" THEN @ + 1 ELSE @]

\* What one user operation does: it reverts below the gas floor, or ends as an execution.
LEMMA UserOpOutcome ==
    ASSUME RouterInv, NEW c \in Accounts, NEW i \in Intents, NEW minted \in Amounts,
           NEW approved \in Amounts, NEW g \in BOOLEAN, UserOp(c, i, minted, approved, g)
    PROVE  /\ settlement'.account = c /\ settlement'.intent = i
           /\ settlement'.minted = minted /\ settlement'.enoughGas = g
           /\ TakenBack(g) \/ Ended(c, i, minted)
<1> DEFINE start == Dispatched(ledger, c, minted, approved)
<1>1. PICK r \in IF g THEN Execute(start, c, i) ELSE {Reverts} :
        /\ settlement' = [event |-> r.event, account |-> c, intent |-> i,
                          minted |-> minted, enoughGas |-> g]
        /\ ledger' = IF r.event = Reverted THEN ledger ELSE r.ledger
        /\ usedIntents' = IF r.event = Reverted THEN usedIntents ELSE r.used
        /\ successes' = [successes EXCEPT ![i] =
                            IF r.event.status = "SUCCESS" THEN @ + 1 ELSE @]
  BY DEF UserOp
<1>2. /\ start \in Ledger /\ NoneLent(start)
      /\ start.fxrp = [ledger.fxrp EXCEPT ![c] = @ + minted]
      /\ start.fxrp["router"] = donated /\ start.fxrp[c] = ledger.fxrp[c] + minted
      /\ start.shares = ledger.shares /\ start.lent = ledger.lent
  BY StartLedger
<1> HIDE DEF start
<1>3. /\ settlement'.account = c /\ settlement'.intent = i /\ settlement'.event = r.event
      /\ settlement'.minted = minted /\ settlement'.enoughGas = g
  BY <1>1
<1>4. CASE ~g
  <2>1. r.event = Reverted /\ r.event.status = "REVERTED"
    BY <1>1, <1>4 DEF Reverts, Reverted
  <2>2. UNCHANGED <<ledger, usedIntents, successes>>
    BY <1>1, <2>1 DEF RouterInv, RouterTypeOK
  <2> QED  BY <1>3, <1>4, <2>1, <2>2 DEF TakenBack
<1>5. CASE g
  <2>1. Outcome(start, c, i, r)
    BY <1>1, <1>2, <1>5, ExecuteOutcome DEF RouterInv
  <2>2. r.event # Reverted
    BY <2>1 DEF Outcome, Event, Reverted
  <2>3. ledger' = r.ledger /\ usedIntents' = r.used
    BY <1>1, <2>2
  <2>4. Outcome(start, c, i, [event |-> settlement'.event, ledger |-> ledger',
                              used |-> usedIntents'])
    BY <1>3, <2>1, <2>3 DEF Outcome
  <2>5. Ends(start, c, i, minted)
    BY <1>2, <2>4 DEF Ends
  <2> QED  BY <1>1, <1>2, <1>3, <2>2, <2>5 DEF Ended
<1> QED  BY <1>4, <1>5

\* So the invariant survives it.
LEMMA UserOpInv ==
    ASSUME RouterInv, NEW c \in Accounts, NEW i \in Intents, NEW minted \in Amounts,
           NEW approved \in Amounts, NEW g \in BOOLEAN, UserOp(c, i, minted, approved, g)
    PROVE  RouterInv'
<1>1. UNCHANGED <<registry, paused, vaultCode, inFlight, donated>> /\ ops' = ops + 1
  BY DEF UserOp
<1>2. settlement' = [event |-> settlement'.event, account |-> c, intent |-> i,
                     minted |-> minted, enoughGas |-> g]
  BY DEF UserOp
<1>3. RegistryTypeOK' /\ FlightsAreNoticed'
  BY <1>1 DEF RouterInv, RouterTypeOK, RegistryTypeOK, registry, FlightsAreNoticed, StillLive
<1>4. MintIsNeverTakenBack'
  <2>1. settlement'.event = Reverted => ~settlement'.enoughGas
    BY UserOpOutcome, Zenon DEF TakenBack, Ended
  <2> QED  BY <2>1 DEF MintIsNeverTakenBack
<1>5. CASE TakenBack(g)
  <2>1. settlement' \in Settlement
    BY <1>2, <1>5 DEF Settlement, TakenBack
  <2>2. RouterTypeOK'
    BY <1>1, <1>3, <1>5, <2>1 DEF TakenBack, RouterInv, RouterTypeOK
  <2> QED  BY <1>1, <1>3, <1>4, <1>5, <2>2
           DEF TakenBack, RouterInv, RouterHoldsOnlyDonations, NothingStaysLent,
               SuccessesAreUsed
<1>6. ASSUME Ended(c, i, minted), NEW L \in Ledger, Ends(L, c, i, minted)
      PROVE  RouterInv'
  <2>1. settlement' \in Settlement
    BY <1>2, <1>6 DEF Settlement, Outcome, Ends
  <2>2. /\ successes \in [Intents -> Nat] /\ usedIntents \subseteq Intents
        /\ \A k \in Intents : successes[k] <= 1 /\ (successes[k] # 0 => k \in usedIntents)
    BY DEF RouterInv, RouterTypeOK, SuccessesAreUsed
  <2>3. /\ usedIntents' \in {usedIntents, usedIntents \cup {i}}
        /\ settlement'.event.status = "SUCCESS" => i \notin usedIntents /\ i \in usedIntents'
        /\ ledger' \in Ledger /\ ledger'.fxrp["router"] = L.fxrp["router"]
        /\ \A a \in Implementations : ledger'.lent[a] = L.lent[a]
    BY <1>6 DEF Outcome, Ends
  <2>4. successes' \in [Intents -> Nat]
    BY <1>6, <2>2 DEF Ended
  <2>5. RouterTypeOK'
    BY <1>1, <1>3, <2>1, <2>2, <2>3, <2>4 DEF RouterInv, RouterTypeOK
  <2>6. SuccessesAreUsed'
    <3>1. CASE settlement'.event.status = "SUCCESS"
      BY <1>6, <2>2, <2>3, <3>1 DEF Ended, SuccessesAreUsed
    <3>2. CASE settlement'.event.status # "SUCCESS"
      BY <1>6, <2>2, <2>3, <3>2 DEF Ended, SuccessesAreUsed
    <3> QED  BY <3>1, <3>2
  <2>7. RouterHoldsOnlyDonations' /\ NothingStaysLent'
    BY <1>1, <1>6, <2>3 DEF Ends, RouterHoldsOnlyDonations, NothingStaysLent, NoneLent
  <2> QED  BY <1>3, <1>4, <2>5, <2>6, <2>7 DEF RouterInv
<1>7. CASE Ended(c, i, minted)
  <2>1. PICK L \in Ledger : Ends(L, c, i, minted)
    BY <1>7 DEF Ended
  <2> QED  BY <1>6, <1>7, <2>1
<1> QED  BY <1>5, <1>7, UserOpOutcome

\* The registry's steps do not reach the Router's books.
LEMMA RegistryInv ==
    ASSUME RouterInv, RegistryNext, UNCHANGED routing
    PROVE  RouterInv'
<1>1. RegistryTypeOK'
  BY TypeStep DEF RouterInv, RouterTypeOK
<1>2. /\ RouterTypeOK' /\ RouterHoldsOnlyDonations' /\ NothingStaysLent'
      /\ MintIsNeverTakenBack' /\ SuccessesAreUsed'
  BY <1>1 DEF routing, funds, RouterInv, RouterTypeOK, RouterHoldsOnlyDonations,
              NothingStaysLent, MintIsNeverTakenBack, SuccessesAreUsed
<1>3. ASSUME NEW f \in inFlight, Noticed(f) PROVE StillLive(f)'
  <2> DEFINE id == f.intent.adapterId
  <2>1. StillLive(f) /\ f.at \in Nat /\ id \in AdapterIds
    <3>1. f \in Flight
      BY DEF RouterInv, RouterTypeOK
    <3> QED  BY <1>3, <3>1 DEF RouterInv, FlightsAreNoticed, StillLive, Flight
  <2>2. now \in Nat /\ adapters[id] \in Config /\ pendingAdapters[id] \in Pending
    BY <2>1 DEF RouterInv, RouterTypeOK, RegistryTypeOK
  <2>3. pendingAdapters[id].effectiveAt \in Nat
    BY <2>2 DEF Pending, NoChange
  <2>4. ASSUME NEW x \in AdapterIds, NEW r \in Requests, ConfigureAdapter(x, r)
        PROVE  StillLive(f)'
    <3>1. x = id => UNCHANGED adapters /\ pendingAdapters'[id] = Scheduled(r)
      BY <2>1, <2>4 DEF ConfigureAdapter, StillLive, RouterInv, RouterTypeOK, RegistryTypeOK
    <3>2. /\ adapters'[id] = adapters[id] /\ now' = now
          /\ \/ pendingAdapters'[id] = pendingAdapters[id]
             \/ pendingAdapters'[id] = Scheduled(r)
      BY <2>1, <2>4, <3>1
         DEF ConfigureAdapter, RouterInv, RouterTypeOK, RegistryTypeOK
    <3>3. Scheduled(r).effectiveAt >= f.at + Delay
      BY <2>1, <2>2, DelayAssumption DEF Scheduled, StillLive
    <3> QED  BY <2>1, <3>2, <3>3 DEF StillLive
  <2>5. ASSUME NEW x \in AdapterIds, CancelAdapterChange(x)
        PROVE  StillLive(f)'
    <3>1. /\ UNCHANGED <<adapters, now>>
          /\ pendingAdapters'[id] \in {pendingAdapters[id], NoChange}
      BY <2>1, <2>5 DEF CancelAdapterChange, RouterInv, RouterTypeOK, RegistryTypeOK
    <3> QED  BY <2>1, <3>1 DEF StillLive, NoChange
  <2>6. ASSUME NEW x \in AdapterIds, NEW e \in BOOLEAN, SetAdapterEnabled(x, e)
        PROVE  StillLive(f)'
    <3>1. adapters'[id] \in {adapters[id], [adapters[id] EXCEPT !.enabled = e]}
      BY <2>1, <2>6 DEF SetAdapterEnabled, RouterInv, RouterTypeOK, RegistryTypeOK
    <3>2. /\ adapters'[id].version = adapters[id].version
          /\ adapters'[id].implementation = adapters[id].implementation
          /\ adapters'[id].codeHash = adapters[id].codeHash
      BY <2>1, <2>2, <3>1 DEF StillLive, Config, NotConfigured
    <3> QED  BY <2>1, <2>6, <3>2 DEF StillLive, SetAdapterEnabled
  <2>7. ASSUME NEW x \in AdapterIds, ActivateAdapter(x)
        PROVE  StillLive(f)'
    <3>1. CASE x # id
      <4>1. /\ adapters'[id] = adapters[id] /\ now' = now
            /\ pendingAdapters'[id] = pendingAdapters[id]
        BY <2>1, <2>7, <3>1 DEF ActivateAdapter, RouterInv, RouterTypeOK, RegistryTypeOK
      <4> QED  BY <2>1, <4>1 DEF StillLive
    <3>2. CASE x = id
      <4>1. /\ adapters'[id] = Applied(id, pendingAdapters[id].request) /\ now' = now
            /\ pendingAdapters'[id] = NoChange
            /\ pendingAdapters[id].effectiveAt # 0 /\ now >= pendingAdapters[id].effectiveAt
        BY <2>1, <2>7, <3>2 DEF ActivateAdapter, Due, RouterInv, RouterTypeOK, RegistryTypeOK
      <4>2. now >= f.at + Delay
        BY <2>1, <2>2, <2>3, <4>1, DelayAssumption DEF StillLive
      <4>3. adapters[id].version \in Nat /\ adapters'[id].version = adapters[id].version + 1
        BY <2>2, <4>1 DEF Applied, Config, NotConfigured
      <4> QED  BY <2>1, <2>2, <4>1, <4>2, <4>3, DelayAssumption DEF StillLive, NoChange
    <3> QED  BY <3>1, <3>2
  <2>8. CASE UNCHANGED <<adapters, pendingAdapters>> /\ now' \in {now, now + 1}
    BY <2>1, <2>2, <2>8, DelayAssumption DEF StillLive
  <2> QED
    BY <2>4, <2>5, <2>6, <2>7, <2>8 DEF RegistryNext, OwnerCall, Redeploy, Tick
<1>4. FlightsAreNoticed'
  BY <1>3 DEF FlightsAreNoticed, Noticed, routing
<1> QED  BY <1>2, <1>4 DEF RouterInv

\* The owner of the Router, users who sign, donors and the vault's operator.
LEMMA OtherInv ==
    ASSUME RouterInv,
           \/ \E p \in BOOLEAN : SetPaused(p)
           \/ \E i \in Followed : Plan(i)
           \/ \E x \in Amounts : Donate(x)
           \/ RedeployVault
           \/ UNCHANGED all
    PROVE  RouterInv'
<1>1. ASSUME NEW i \in Followed, Plan(i) PROVE RouterInv'
  <2> DEFINE id == i.adapterId
             f == [intent |-> i, at |-> now, config |-> adapters[id],
                   changing |-> pendingAdapters[id] # NoChange]
  <2>1. /\ inFlight' = inFlight \cup {f} /\ id \in AdapterIds
        /\ UNCHANGED <<registry, funds, paused, vaultCode, donated>>
    BY <1>1 DEF Plan
  <2>2. /\ now \in Nat /\ adapters[id] \in Config
        /\ (pendingAdapters[id] # NoChange) \in BOOLEAN
    BY <2>1 DEF RouterInv, RouterTypeOK, RegistryTypeOK
  <2>3. f \in Flight
    BY <2>2 DEF Flight
  <2>4. Noticed(f) => StillLive(f)
    <3> SUFFICES ASSUME Noticed(f) PROVE StillLive(f)
      OBVIOUS
    <3>1. /\ f.intent = i /\ f.at = now /\ f.config = adapters[id]
          /\ f.changing = (pendingAdapters[id] # NoChange)
      OBVIOUS
    <3>2. pendingAdapters[id] = NoChange /\ adapters[id].version # 0
      BY <3>1, Zenon DEF Noticed
    <3> HIDE DEF f
    <3> QED  BY <2>1, <2>2, <3>1, <3>2 DEF StillLive, NoChange
  <2> HIDE DEF f
  <2>5. FlightsAreNoticed'
    BY <2>1, <2>4 DEF RouterInv, FlightsAreNoticed, Noticed, StillLive, registry
  <2>6. RouterTypeOK'
    BY <2>1, <2>3 DEF RouterInv, RouterTypeOK, RegistryTypeOK, registry, funds
  <2> QED  BY <2>1, <2>5, <2>6
           DEF RouterInv, funds, RouterHoldsOnlyDonations, NothingStaysLent,
               MintIsNeverTakenBack, SuccessesAreUsed
<1>2. ASSUME NEW x \in Amounts, Donate(x) PROVE RouterInv'
  <2> DEFINE fxrp == [ledger.fxrp EXCEPT !["router"] = @ + x]
  <2>1. x \in Nat /\ donated \in Nat /\ ledger \in Ledger
    BY RouterBoundsAssumption DEF RouterInv, RouterTypeOK
  <2>2. ledger' = [fxrp |-> fxrp, shares |-> ledger.shares, allowance |-> ledger.allowance,
                   lent |-> ledger.lent]
    BY <1>2, <2>1, LedgerFields DEF Donate
  <2>3. fxrp \in [Holders -> Nat] /\ fxrp["router"] = donated + x
    BY <2>1, Parties, LedgerFields DEF RouterInv, RouterHoldsOnlyDonations
  <2> HIDE DEF fxrp
  <2>4. /\ ledger' \in Ledger /\ ledger'.fxrp["router"] = donated + x
        /\ ledger'.lent = ledger.lent
    BY <2>1, <2>2, <2>3, LedgerFields DEF Ledger
  <2>5. /\ donated' = donated + x
        /\ UNCHANGED <<registry, usedIntents, settlement, successes, ops, paused, vaultCode,
                      inFlight>>
    BY <1>2 DEF Donate
  <2>6. RouterTypeOK'
    BY <2>1, <2>4, <2>5 DEF RouterInv, RouterTypeOK, RegistryTypeOK, registry
  <2>7. RouterHoldsOnlyDonations' /\ NothingStaysLent'
    BY <2>4, <2>5 DEF RouterInv, RouterHoldsOnlyDonations, NothingStaysLent
  <2>8. MintIsNeverTakenBack' /\ SuccessesAreUsed' /\ FlightsAreNoticed'
    BY <2>5 DEF RouterInv, MintIsNeverTakenBack, SuccessesAreUsed, FlightsAreNoticed, Noticed,
                StillLive, registry
  <2> QED  BY <2>6, <2>7, <2>8 DEF RouterInv
<1>3. CASE \/ \E p \in BOOLEAN : SetPaused(p)
           \/ RedeployVault
           \/ UNCHANGED all
  <2>1. /\ UNCHANGED <<registry, funds, inFlight, donated>>
        /\ paused' \in BOOLEAN /\ vaultCode' \in Nat
    BY <1>3 DEF SetPaused, RedeployVault, all, routing, RouterInv, RouterTypeOK
  <2>2. RouterTypeOK'
    BY <2>1 DEF RouterInv, RouterTypeOK, RegistryTypeOK, registry, funds
  <2>3. /\ RouterHoldsOnlyDonations' /\ NothingStaysLent' /\ MintIsNeverTakenBack'
        /\ SuccessesAreUsed' /\ FlightsAreNoticed'
    BY <2>1 DEF RouterInv, funds, registry, RouterHoldsOnlyDonations, NothingStaysLent,
                MintIsNeverTakenBack, SuccessesAreUsed, FlightsAreNoticed, Noticed, StillLive
  <2> QED  BY <2>2, <2>3 DEF RouterInv
<1> QED  BY <1>1, <1>2, <1>3

\* Every step of the composition keeps the invariant.
LEMMA RouterStep ==
    ASSUME RouterInv, [RouterNext]_all
    PROVE  RouterInv'
BY UserOpInv, RegistryInv, OtherInv DEF RouterNext

\* In the first state nothing has been minted, sent or signed.
LEMMA RouterInitInv == RouterInit => RouterInv
<1> SUFFICES ASSUME RouterInit PROVE RouterInv
  OBVIOUS
<1>1. RegistryTypeOK
  BY DEF RouterInit, RegistryInit, RegistryTypeOK, Config, Pending, Proposal
<1>2. ledger \in Ledger /\ ledger.fxrp["router"] = 0 /\ NothingStaysLent
  BY Parties DEF RouterInit, Ledger, NothingStaysLent
<1>3. RouterTypeOK
  BY <1>1, <1>2 DEF RouterInit, RouterTypeOK, Settlement
<1> QED  BY <1>2, <1>3
         DEF RouterInit, RouterInv, RouterHoldsOnlyDonations, MintIsNeverTakenBack,
             SuccessesAreUsed, FlightsAreNoticed

---------------------------------------------------------------------------
(* What one step shows                                                     *)

\* Only a user operation runs the Router.
LEMMA OnlyUserOpsRun ==
    ASSUME [RouterNext]_all, Ran
    PROVE  \E c \in Accounts, i \in Intents, minted, approved \in Amounts, g \in BOOLEAN :
              UserOp(c, i, minted, approved, g)
BY DEF RouterNext, SetPaused, Plan, Donate, RedeployVault, Ran, all, routing, funds

\* An event is that of the outcome it came from.
LEMMA RanOutcome ==
    ASSUME RouterInv, [RouterNext]_all, Ran, settlement'.event.status # "REVERTED"
    PROVE  /\ settlement'.intent \in Intents /\ settlement'.account \in Accounts
           /\ settlement'.minted \in Nat
           /\ \E L \in Ledger : Ends(L, settlement'.account, settlement'.intent,
                                    settlement'.minted)
<1>1. PICK c \in Accounts, i \in Intents, minted \in Amounts, approved \in Amounts,
           g \in BOOLEAN : UserOp(c, i, minted, approved, g)
  BY OnlyUserOpsRun
<1>2. /\ settlement'.account = c /\ settlement'.intent = i /\ settlement'.minted = minted
      /\ TakenBack(g) \/ Ended(c, i, minted)
  BY <1>1, UserOpOutcome
<1>3. Ended(c, i, minted)
  BY <1>2 DEF TakenBack, Reverted
<1> QED  BY <1>2, <1>3, RouterBoundsAssumption DEF Ended

\* A fallback leaves the books of the mint alone.
LEMMA FallbackStep ==
    ASSUME RouterInv, [RouterNext]_all, Ran, settlement'.event.status = "FALLBACK"
    PROVE  /\ ledger'.fxrp = [ledger.fxrp EXCEPT ![settlement'.account] = @ + settlement'.minted]
           /\ ledger'.shares = ledger.shares
           /\ ledger'.lent = ledger.lent
<1>1. PICK L \in Ledger : Ends(L, settlement'.account, settlement'.intent, settlement'.minted)
  BY RanOutcome
<1>2. ledger'.fxrp = L.fxrp /\ ledger'.shares = L.shares /\ ledger'.lent = L.lent
  BY <1>1 DEF Ends, Outcome
<1> QED  BY <1>1, <1>2 DEF Ends

\* A success is one of the adapter that is live, and is worth it.
LEMMA SuccessStep ==
    ASSUME RouterInv, [RouterNext]_all, Ran, settlement'.event.status = "SUCCESS"
    PROVE  LET c == settlement'.account
               i == settlement'.intent
               a == adapters[i.adapterId].implementation
           IN  /\ ledger'.fxrp[c] + i.inputAmount >= ledger.fxrp[c] + settlement'.minted
               /\ settlement'.event.amountOut >= i.minOutput
               /\ Honest(a) => ledger'.shares[c] = ledger.shares[c] + settlement'.event.amountOut
               /\ i.adapterId \in AdapterIds /\ a \in Implementations
               /\ codeOf[a] = adapters[i.adapterId].codeHash
<1>1. PICK L \in Ledger : Ends(L, settlement'.account, settlement'.intent, settlement'.minted)
  BY RanOutcome
<1> QED  BY <1>1 DEF Ends, Outcome

\* A noticed flight that lands in time runs what was live when it took off.
LEMMA LandingStep ==
    ASSUME RouterInv, [RouterNext]_all, NEW f \in inFlight, Lands(f), Noticed(f),
           now < f.at + Delay
    PROVE  /\ adapters[f.intent.adapterId].implementation = f.config.implementation
           /\ codeOf[f.config.implementation] = f.config.codeHash
<1>1. /\ Ran /\ settlement'.event.status = "SUCCESS" /\ settlement'.intent = f.intent
  BY DEF Lands
<1>2. codeOf[adapters[f.intent.adapterId].implementation] = adapters[f.intent.adapterId].codeHash
  BY <1>1, SuccessStep
<1>3. StillLive(f)
  BY DEF RouterInv, FlightsAreNoticed
<1> QED  BY <1>2, <1>3 DEF StillLive

---------------------------------------------------------------------------
(* Theorems                                                                *)

\* The invariant, for any accounts, intents, amounts, adapters and delay.
THEOREM RouterInvariant == RouterSpec => []RouterInv
BY RouterInitInv, RouterStep, PTL DEF RouterSpec

\* Every variable of the Router keeps its type.
THEOREM RouterTypeCorrect == RouterSpec => []RouterTypeOK
<1>1. RouterInv => RouterTypeOK
  BY DEF RouterInv
<1> QED  BY <1>1, RouterInvariant, PTL

\* However many user operations follow one another, whatever the adapters and the vault
\* do, the Router holds what was sent to it outside execute, to the unit.
THEOREM RouterKeepsOnlyDonations == RouterSpec => []RouterHoldsOnlyDonations
<1>1. RouterInv => RouterHoldsOnlyDonations
  BY DEF RouterInv
<1> QED  BY <1>1, RouterInvariant, PTL

\* No adapter is left with an allowance over the Router between transactions.
THEOREM NoStandingAllowance == RouterSpec => []NothingStaysLent
<1>1. RouterInv => NothingStaysLent
  BY DEF RouterInv
<1> QED  BY <1>1, RouterInvariant, PTL

\* With enough gas execute returns normally in every state of the system: no mint is
\* taken back by a business failure.
THEOREM MintSurvives == RouterSpec => []MintIsNeverTakenBack
<1>1. RouterInv => MintIsNeverTakenBack
  BY DEF RouterInv
<1> QED  BY <1>1, RouterInvariant, PTL

\* An intent succeeds once, however often it is replayed and by whatever account.
THEOREM SuccessOnce == RouterSpec => []IntentSucceedsOnce
<1>1. RouterInv => IntentSucceedsOnce
  BY DEF RouterInv, SuccessesAreUsed, IntentSucceedsOnce
<1> QED  BY <1>1, RouterInvariant, PTL

\* A fallback undoes all that the adapter and the vault did, for every amount.
THEOREM FallbackIsExact == RouterSpec => FallbackChangesNothingElse
<1>1. ASSUME RouterInv, [RouterNext]_all
      PROVE  [Ran /\ settlement'.event.status = "FALLBACK" =>
                /\ ledger'.fxrp =
                      [ledger.fxrp EXCEPT ![settlement'.account] = @ + settlement'.minted]
                /\ ledger'.shares = ledger.shares
                /\ ledger'.lent = ledger.lent]_all
  BY <1>1, FallbackStep
<1> QED  BY <1>1, RouterInvariant, PTL DEF RouterSpec, FallbackChangesNothingElse

\* A success costs no more than the input signed for and brings what was promised.
THEOREM SuccessIsPaidFor == RouterSpec => SuccessIsWorthIt
<1>1. ASSUME RouterInv, [RouterNext]_all
      PROVE  [Ran /\ settlement'.event.status = "SUCCESS" =>
                LET c == settlement'.account
                    i == settlement'.intent
                    a == adapters[i.adapterId].implementation
                IN  /\ ledger'.fxrp[c] + i.inputAmount >= ledger.fxrp[c] + settlement'.minted
                    /\ settlement'.event.amountOut >= i.minOutput
                    /\ a \in Erc4626Adapters /\ codeOf[a] = 1 =>
                         ledger'.shares[c] = ledger.shares[c] + settlement'.event.amountOut]_all
  BY <1>1, SuccessStep DEF Honest
<1> QED  BY <1>1, RouterInvariant, PTL DEF RouterSpec, SuccessIsWorthIt

\* A payment signed while no change was scheduled and settled within the delay runs the
\* code it was signed for, for every delay.
THEOREM SwapsAreNoticed == RouterSpec => NoticedSwapsOnly
<1>1. ASSUME RouterInv, [RouterNext]_all
      PROVE  [\A f \in inFlight :
                /\ Lands(f) /\ ~f.changing /\ f.config.version # 0
                /\ now < f.at + Delay
                => /\ adapters[f.intent.adapterId].implementation = f.config.implementation
                   /\ codeOf[f.config.implementation] = f.config.codeHash]_all
  BY <1>1, LandingStep DEF Noticed
<1> QED  BY <1>1, RouterInvariant, PTL DEF RouterSpec, NoticedSwapsOnly

\* What the Router is to its users, as a machine of four variables: every user operation
\* spends an intent of its own account or gives everything back, every donation is held,
\* and no other step, of the owners, the adapters or the vault, is seen at all.
LEMMA UserOpKeepsPromise ==
    ASSUME RouterInv, NEW c \in Accounts, NEW i \in Intents, NEW minted \in Amounts,
           NEW approved \in Amounts, NEW g \in BOOLEAN, UserOp(c, i, minted, approved, g)
    PROVE  \/ Abstract!Spend(c, i, minted)
           \/ Abstract!Return(c, i, minted)
           \/ UNCHANGED Abstract!promise
<1> DEFINE paid == [d \in Accounts |-> ledger.fxrp[d]]
<1>1. /\ ledger \in Ledger /\ ledger.fxrp["router"] = donated /\ donated' = donated
      /\ successes \in [Intents -> Nat] /\ usedIntents \subseteq Intents
      /\ \A k \in Intents : successes[k] # 0 => k \in usedIntents
  BY DEF RouterInv, RouterTypeOK, RouterHoldsOnlyDonations, SuccessesAreUsed, UserOp
<1>2. CASE TakenBack(g)
  BY <1>2 DEF TakenBack, Abstract!promise
<1>3. ASSUME Ended(c, i, minted), NEW L \in Ledger, Ends(L, c, i, minted)
      PROVE  Abstract!Spend(c, i, minted) \/ Abstract!Return(c, i, minted)
  <2>1. /\ settlement'.event \in Event /\ ledger' \in Ledger
        /\ ledger'.fxrp["router"] = donated
        /\ usedIntents' \in {usedIntents, usedIntents \cup {i}}
        /\ usedIntents' # usedIntents => i.personalAccount = c
    BY <1>3 DEF Ends, Outcome
  <2>2. /\ paid \in [Accounts -> Nat] /\ paid' \in [Accounts -> Nat]
        /\ \A d \in Accounts : paid[d] = ledger.fxrp[d] /\ paid'[d] = ledger'.fxrp[d]
    BY <1>1, <2>1, LedgerFields, Parties
  <2>3. /\ L.fxrp[c] = ledger.fxrp[c] + minted
        /\ \A d \in Accounts \ {c} : L.fxrp[d] = ledger.fxrp[d]
    BY <1>1, <1>3, LedgerFields, Parties DEF Ends
  <2>4. CASE settlement'.event.status = "SUCCESS"
    <3>1. /\ i \notin usedIntents /\ usedIntents' = usedIntents \cup {i}
          /\ i.personalAccount = c
          /\ ledger'.fxrp[c] + i.inputAmount >= L.fxrp[c]
          /\ \A d \in Accounts \ {c} : ledger'.fxrp[d] >= L.fxrp[d]
      BY <1>3, <2>1, <2>4 DEF Ends, Outcome
    <3>2. /\ successes'[i] # 0
          /\ \A k \in Intents \ {i} : successes'[k] = successes[k]
      BY <1>1, <1>3, <2>4 DEF Ended
    <3>3. /\ {k \in usedIntents' : successes'[k] # 0} =
                {k \in usedIntents : successes[k] # 0} \cup {i}
          /\ {k \in usedIntents' : successes'[k] = 0} = {k \in usedIntents : successes[k] = 0}
      BY <1>1, <3>1, <3>2
    <3>4. /\ paid'[c] + i.inputAmount >= paid[c] + minted
          /\ \A d \in Accounts \ {c} : paid'[d] >= paid[d]
      BY <2>2, <2>3, <3>1
    <3>5. Abstract!Brings(c, i)
      BY <3>1 DEF Abstract!Brings
    <3> QED  BY <1>1, <2>1, <2>2, <3>3, <3>4, <3>5 DEF Abstract!Spend
  <2>5. CASE settlement'.event.status = "FALLBACK"
    <3>1. ledger'.fxrp = [ledger.fxrp EXCEPT ![c] = @ + minted] /\ successes' = successes
      BY <1>1, <1>3, <2>5 DEF Ends, Ended, Outcome
    <3>2. paid' = [paid EXCEPT ![c] = @ + minted]
      <4>1. \A d \in Accounts : paid'[d] = IF d = c THEN paid[d] + minted ELSE paid[d]
        BY <1>1, <2>2, <3>1, LedgerFields, Parties
      <4>2. [paid EXCEPT ![c] = @ + minted] =
               [d \in Accounts |-> IF d = c THEN paid[d] + minted ELSE paid[d]]
        BY <2>2
      <4>3. paid' = [d \in Accounts |-> paid'[d]]
        BY <2>2
      <4> HIDE DEF paid
      <4> QED  BY <4>1, <4>2, <4>3
    <3>3. {k \in usedIntents' : successes'[k] # 0} = {k \in usedIntents : successes[k] # 0}
      BY <1>1, <2>1, <3>1
    <3>4. \/ {k \in usedIntents' : successes'[k] = 0} = {k \in usedIntents : successes[k] = 0}
          \/ /\ Abstract!Brings(c, i)
             /\ {k \in usedIntents' : successes'[k] = 0} =
                   {k \in usedIntents : successes[k] = 0} \cup {i}
      <4>1. CASE usedIntents' = usedIntents
        BY <3>1, <4>1
      <4>2. CASE usedIntents' # usedIntents
        <5>1. usedIntents' = usedIntents \cup {i} /\ i \notin usedIntents /\ successes[i] = 0
          BY <1>1, <2>1, <4>2
        <5> QED  BY <2>1, <3>1, <4>2, <5>1 DEF Abstract!Brings
      <4> QED  BY <4>1, <4>2
    <3> QED  BY <1>1, <2>1, <3>2, <3>3, <3>4 DEF Abstract!Return
  <2> QED  BY <2>1, <2>4, <2>5 DEF Event
<1>4. CASE Ended(c, i, minted)
  <2>1. PICK L \in Ledger : Ends(L, c, i, minted)
    BY <1>4 DEF Ended
  <2> QED  BY <1>3, <1>4, <2>1
<1> QED  BY <1>2, <1>4, UserOpOutcome

\* A donation is held, and touches no account.
LEMMA DonateKeepsPromise ==
    ASSUME RouterInv, NEW x \in Amounts, Donate(x)
    PROVE  Abstract!Give(x)
<1>1. /\ ledger' = [ledger EXCEPT !.fxrp["router"] = @ + x] /\ ledger \in Ledger
      /\ UNCHANGED <<usedIntents, successes>>
  BY DEF Donate, RouterInv, RouterTypeOK
<1>2. ledger'.fxrp = [ledger.fxrp EXCEPT !["router"] = @ + x]
  BY <1>1, LedgerFields
<1>3. /\ ledger'.fxrp["router"] = ledger.fxrp["router"] + x
      /\ \A d \in Accounts : ledger'.fxrp[d] = ledger.fxrp[d]
  BY <1>1, <1>2, LedgerFields, Parties
<1> QED  BY <1>1, <1>3 DEF Abstract!Give

\* The Router keeps its promise to its users, whatever code it calls.
THEOREM RouterKeepsPromise == RouterSpec => KeepsRouterPromise
<1>1. RouterInit => Abstract!PInit
  <2> SUFFICES ASSUME RouterInit PROVE Abstract!PInit
    OBVIOUS
  <2>1. /\ ledger.fxrp = [h \in Holders |-> 0] /\ usedIntents = {}
    BY DEF RouterInit
  <2> QED  BY <2>1, Parties DEF Abstract!PInit
<1>2. RouterInv /\ [RouterNext]_all => [Abstract!PNext]_(Abstract!promise)
  <2> SUFFICES ASSUME RouterInv, [RouterNext]_all
               PROVE  Abstract!PNext \/ UNCHANGED Abstract!promise
    OBVIOUS
  <2>1. ASSUME NEW c \in Accounts, NEW i \in Intents, NEW minted \in Amounts,
               NEW approved \in Amounts, NEW g \in BOOLEAN, UserOp(c, i, minted, approved, g)
        PROVE  Abstract!PNext \/ UNCHANGED Abstract!promise
    BY <2>1, UserOpKeepsPromise DEF Abstract!PNext
  <2>2. ASSUME NEW x \in Amounts, Donate(x) PROVE Abstract!PNext
    BY <2>2, DonateKeepsPromise DEF Abstract!PNext
  <2>3. CASE UNCHANGED <<ledger, usedIntents, successes>>
    BY <2>3 DEF Abstract!promise
  <2>4. CASE \/ RegistryNext /\ UNCHANGED routing
             \/ \E p \in BOOLEAN : SetPaused(p)
             \/ \E i \in Followed : Plan(i)
             \/ RedeployVault
             \/ UNCHANGED all
    BY <2>3, <2>4 DEF SetPaused, Plan, RedeployVault, all, routing, funds
  <2> QED  BY <2>1, <2>2, <2>4 DEF RouterNext
<1> QED  BY <1>1, <1>2, RouterInvariant, PTL DEF RouterSpec, KeepsRouterPromise, Abstract!Promise

\* No intent is both spent and given back, and neither is ever taken back.
THEOREM IntentsSettleForGood == RouterSpec => []Abstract!SpentOrReturned /\ Abstract!IntentsAreFinal
<1>1. Abstract!PInit => Abstract!SpentOrReturned
  BY DEF Abstract!PInit, Abstract!SpentOrReturned
<1>2. [Abstract!PNext]_(Abstract!promise) => [Abstract!IntentsStay]_(Abstract!promise)
  BY DEF Abstract!PNext, Abstract!Return, Abstract!Spend, Abstract!Give,
         Abstract!IntentsStay, Abstract!promise
<1>3. Abstract!SpentOrReturned /\ [Abstract!PNext]_(Abstract!promise) => Abstract!SpentOrReturned'
  BY DEF Abstract!SpentOrReturned, Abstract!PNext, Abstract!Return, Abstract!Spend,
         Abstract!Give, Abstract!Brings, Abstract!promise
<1> QED  BY <1>1, <1>2, <1>3, RouterKeepsPromise, PTL
         DEF KeepsRouterPromise, Abstract!Promise, Abstract!IntentsAreFinal

\* The Router is a client of the registry that never steers it.
THEOREM RouterImplementsRegistry == RouterSpec => RegistrySpec
<1>1. RouterInit => RegistryInit
  BY DEF RouterInit
<1>2. [RouterNext]_all => [RegistryNext]_registry
  BY DEF RouterNext, UserOp, SetPaused, Plan, Donate, RedeployVault, all
<1> QED  BY <1>1, <1>2, PTL DEF RouterSpec, RegistrySpec

\* Whatever users, adapters and vaults do beside it, the timelock of the registry holds.
THEOREM RouterTimelockHolds == RouterSpec => SwapWaitsForItsProposal
  BY RouterImplementsRegistry, TimelockHolds
=============================================================================
