---------------------------- MODULE MintShieldRouter ----------------------------
(***************************************************************************)
(* MintShieldRouter.sol with the adapters it calls, over AdapterRegistry.  *)
(* One UserOp is one direct-mint transaction: FXRP is minted to a Personal *)
(* Account, which approves the Router and calls execute.  The EVM runs it  *)
(* without interleaving, so it is one action; a call frame is an operator  *)
(* from the ledger it starts with to the set of its outcomes, and a frame  *)
(* that fails gives the ledger of its caller back.                         *)
(*                                                                         *)
(* FXRP is an exact ERC-20: no transfer fee, no callback.  execute is      *)
(* nonReentrant, so a nested call reverts and leaves no trace: it is not   *)
(* written.  hashIntent is injective: an intent is its own id.             *)
(***************************************************************************)
EXTENDS AdapterRegistry, FiniteSets

CONSTANTS
    Accounts,         \* Personal Accounts
    Intents,          \* the intents users sign
    Followed,         \* those whose payment is followed from signature to settlement
    ProtectedAsset,   \* the Router's immutable asset, FXRP
    ZeroId,           \* bytes32(0) as an adapterId
    Erc4626Adapters,  \* implementations whose first code is ERC4626DepositAdapter
    Amounts,          \* amounts minted, approved, donated, returned by untrusted code
    MaxOps,           \* bound: user operations
    MaxDonations      \* bound: FXRP donated to the Router

Intent == [personalAccount : Accounts, asset : Assets, inputAmount : Nat,
           adapterId : AdapterIds \cup {ZeroId}, emptyData : BOOLEAN,
           minOutput : Nat, deadline : Nat, nonce : Nat]

Holders == Accounts \cup Implementations \cup {"router", "vault"}

ASSUME IntentsAssumption == Intents \subseteq Intent /\ Followed \subseteq Intents
ASSUME HoldersAssumption ==
    /\ Accounts \cap Implementations = {}
    /\ {"router", "vault"} \cap (Accounts \cup Implementations) = {}
ASSUME ZeroIdAssumption == ZeroId \notin AdapterIds
ASSUME Erc4626Assumption == Erc4626Adapters \subseteq Implementations
ASSUME RouterBoundsAssumption ==
    Amounts \subseteq Nat /\ MaxOps \in Nat /\ MaxDonations \in Nat

VARIABLES
    ledger,        \* FXRP balances, vault shares and allowances
    usedIntents,   \* the consumed intent ids
    paused,        \* the Router owner's pause
    vaultCode,     \* the vault's code hash; the adapter pinned 1
    settlement,    \* history: who ran the latest user operation and how it ended
    successes,     \* history: successful settlements per intent
    inFlight,      \* history: intents signed for, with the configuration then live
    donated,       \* history: FXRP sent to the Router outside execute
    ops            \* user operations so far

funds   == <<ledger, usedIntents, settlement, successes, ops>>
routing == <<funds, paused, vaultCode, inFlight, donated>>
all     == <<registry, routing>>

Ledger == [fxrp : [Holders -> Nat],           \* balanceOf
           shares : [Accounts -> Nat],        \* vault shares
           allowance : [Accounts -> Nat],     \* Personal Account to Router
           lent : [Implementations -> Nat]]   \* Router to adapter

Codes == {"NONE", "DEADLINE_EXPIRED", "ADAPTER_DISABLED", "CODEHASH_MISMATCH",
          "INPUT_AMOUNT_MISMATCH", "TARGET_REVERTED", "MIN_OUTPUT_NOT_MET",
          "POST_CONDITION", "UNSUPPORTED_TARGET", "ROUTER_PAUSED",
          "INTENT_ALREADY_USED", "AMOUNT_CAP_EXCEEDED", "INVALID_INTENT",
          "UNKNOWN_ADAPTER"}

Event == [status : {"SUCCESS", "FALLBACK"}, code : Codes, amountIn : Nat, amountOut : Nat]

Reverted     == [status |-> "REVERTED"]
NoSettlement == [event |-> [status |-> "NONE"]]

Settlement == {NoSettlement} \cup
    [event : Event \cup {Reverted}, account : Accounts, intent : Intents,
     minted : Amounts, enoughGas : BOOLEAN]

Flight == [intent : Followed, at : Nat, config : Config, changing : BOOLEAN]

---------------------------------------------------------------------------
(* The token                                                               *)

Min(a, b) == IF a < b THEN a ELSE b

\* transfer: x FXRP from one holder to another, or to itself.
Move(L, from, to, x) ==
    LET paid == [L.fxrp EXCEPT ![from] = @ - x] IN
      [L EXCEPT !.fxrp = [paid EXCEPT ![to] = @ + x]]

---------------------------------------------------------------------------
(* The vault, and ERC4626DepositAdapter.execute                            *)

\* What deposit(amount) of the deployed FailureVault does: its mode is open to
\* everyone at any time, so each call meets any of them.
FailureVaultDeposit(amount) ==
    {[kind |-> "revert"], [kind |-> "malformed"],
     [kind |-> "returned", taken |-> amount, minted |-> amount, value |-> 0]} \cup
    {[kind |-> "returned", taken |-> amount, minted |-> m, value |-> m] :
        m \in {amount, amount \div 2}}

\* A vault that lies may take less than it was given, mint what it likes and
\* announce something else.
VaultDeposit(amount) ==
    FailureVaultDeposit(amount) \cup
    [kind : {"returned"}, taken : 0 .. amount, minted : 0 .. amount, value : 0 .. amount]

\* The frame of an adapter: it fails with an error, or leaves a ledger and
\* returns a word of `size` bytes.
Fails(error)         == [ok |-> FALSE, error |-> error]
Gives(L, size, out)  == [ok |-> TRUE, ledger |-> L, size |-> size, out |-> out]

\* transferFrom of the adapter on the Router.
Takes(L, a, t) == [Move(L, "router", a, t) EXCEPT !.lent[a] = @ - t]

\* Mutated AfterDeposit: the vault's word is taken for the shares.
AfterDepositTrusting(L, a, i, v) ==
    IF v.kind = "revert" THEN Fails("TargetCallFailed")
    ELSE IF v.kind = "malformed" THEN Fails("PostConditionFailed")
    ELSE IF v.value < i.minOutput THEN Fails("MinimumOutputNotMet")
    ELSE IF v.taken # i.inputAmount THEN Fails("PostConditionFailed")
    ELSE Gives([Move(Takes(L, a, i.inputAmount), a, "vault", v.taken)
                    EXCEPT !.shares[i.personalAccount] = @ + v.minted],
               32, v.value)

\* The adapter's post-conditions on one answer of the vault.
AfterDeposit(L, a, i, v) ==
    IF v.kind = "revert" THEN Fails("TargetCallFailed")
    ELSE IF v.kind = "malformed" \/ v.minted # v.value THEN Fails("PostConditionFailed")
    ELSE IF v.minted < i.minOutput THEN Fails("MinimumOutputNotMet")
    ELSE IF v.taken # i.inputAmount THEN Fails("PostConditionFailed")
    ELSE Gives([Move(Takes(L, a, i.inputAmount), a, "vault", v.taken)
                    EXCEPT !.shares[i.personalAccount] = @ + v.minted],
               32, v.value)

\* The caller is the Router and the asset FXRP in every call here, so OnlyRouter and
\* UnsupportedTarget do not arise; a vault whose asset() fails or names another asset is
\* one of those that revert or answer badly, with the same fallback.
Erc4626Execute(L, a, i) ==
    IF ~i.emptyData THEN {Fails("PostConditionFailed")}
    ELSE IF vaultCode # 1 THEN {Fails("TargetCodeHashMismatch")}
    ELSE {AfterDeposit(L, a, i, v) : v \in VaultDeposit(i.inputAmount)}

---------------------------------------------------------------------------
(* Any other adapter code                                                  *)

AdapterErrors ==
    {"TargetCallFailed", "MinimumOutputNotMet", "PostConditionFailed",
     "UnsupportedTarget", "TargetCodeHashMismatch", "unknown"}

PassesOn(L, a) ==
    {Gives(Move(L, a, to, x), size, out) :
        to \in {"router", a} \cup Accounts, x \in {y \in Amounts : y <= L.fxrp[a]},
        size \in {31, 32}, out \in Amounts}

\* Untrusted code takes what it was lent or less, passes FXRP on to anyone, and
\* returns or reverts with whatever it likes.
UntrustedExecute(L, a) ==
    {Fails(e) : e \in AdapterErrors} \cup
    UNION {PassesOn(Takes(L, a, t), a) : t \in 0 .. Min(L.lent[a], L.fxrp["router"])}

AdapterExecute(L, a, i) ==
    IF a \in Erc4626Adapters /\ codeOf[a] = 1
    THEN Erc4626Execute(L, a, i)
    ELSE UntrustedExecute(L, a)

---------------------------------------------------------------------------
(* The Router                                                              *)

\* Mutated AfterAdapter: an adapter that returns is believed.
AfterAdapterTrusting(L, a, i, before, x) == x

\* executeAdapter: lend exactly the input, call, check the word returned, clear
\* the allowance, and require the Router's balance to be what it was before.
AfterAdapter(L, a, i, before, x) ==
    IF ~x.ok THEN x
    ELSE IF x.size # 32 THEN Fails("InvalidAdapterReturnData")
    ELSE IF x.out < i.minOutput THEN Fails("MinimumOutputNotMet")
    ELSE IF x.ledger.fxrp["router"] # before THEN Fails("AdapterDidNotSpendExactInput")
    ELSE Gives([x.ledger EXCEPT !.lent[a] = 0], x.size, x.out)

ExecuteAdapter(L, a, i, before) ==
    LET lent == [L EXCEPT !.lent[a] = i.inputAmount] IN
      {AfterAdapter(L, a, i, before, x) : x \in AdapterExecute(lent, a, i)}

\* Mutated ClassifyAdapterFailure: the error goes out as it came in.
ClassifyRaw(error) == error

ClassifyAdapterFailure(error) ==
    CASE error = "TargetCallFailed"    -> "TARGET_REVERTED"
      [] error = "MinimumOutputNotMet" -> "MIN_OUTPUT_NOT_MET"
      [] error \in {"PostConditionFailed", "InvalidAdapterReturnData",
                    "AdapterDidNotSpendExactInput"} -> "POST_CONDITION"
      [] error \in {"UnsupportedTarget", "TargetCodeHashMismatch"} -> "UNSUPPORTED_TARGET"
      [] OTHER -> "UNKNOWN_ADAPTER"

\* An execution returns an event, or reverts; `used` is usedIntents after it.
Settles(L, used, status, code, in, out) ==
    [ledger |-> L, used |-> used,
     event |-> [status |-> status, code |-> code, amountIn |-> in, amountOut |-> out]]

Reverts == [event |-> Reverted]

UnfundedFallback(L, code) == Settles(L, usedIntents, "FALLBACK", code, 0, 0)

\* Mutated FundedFallback: the transfer back fails silently; donations are not
\* expected.
FundedFallbackUnpaid(L, c, i, before, used, code) ==
    Settles(L, used, "FALLBACK", code, i.inputAmount, 0)

FundedFallbackDustless(L, c, i, before, used, code) ==
    LET back == Move(L, "router", c, i.inputAmount) IN
      IF back.fxrp["router"] # 0 THEN Reverts
      ELSE Settles(back, used, "FALLBACK", code, i.inputAmount, 0)

\* The exact input goes back to the caller, and the Router must be left with
\* what it had before the pull.
FundedFallback(L, c, i, before, used, code) ==
    LET back == Move(L, "router", c, i.inputAmount) IN
      IF L.fxrp["router"] < i.inputAmount \/ back.fxrp["router"] # before
      THEN Reverts
      ELSE Settles(back, used, "FALLBACK", code, i.inputAmount, 0)

\* pullAsset in its own frame: all of the input or nothing.
CanPull(L, c, i) ==
    L.allowance[c] >= i.inputAmount /\ L.fxrp[c] >= i.inputAmount

Pulled(L, c, i) ==
    [Move(L, c, "router", i.inputAmount) EXCEPT !.allowance[c] = @ - i.inputAmount]

\* Mutated InvalidIntent: any account may bring an intent.
InvalidIntentOfAnyone(c, i) ==
    \/ i.asset # ProtectedAsset
    \/ i.inputAmount = 0
    \/ i.adapterId = ZeroId

InvalidIntent(c, i) ==
    \/ i.personalAccount # c
    \/ i.asset # ProtectedAsset
    \/ i.inputAmount = 0
    \/ i.adapterId = ZeroId

\* Mutated Refusal: a settled intent runs again.
RefusalReplayable(i) ==
    LET config == adapters[i.adapterId] IN
      IF paused THEN "ROUTER_PAUSED"
      ELSE IF now > i.deadline THEN "DEADLINE_EXPIRED"
      ELSE IF ~config.enabled \/ config.implementation = NoImplementation THEN "ADAPTER_DISABLED"
      ELSE IF config.asset # i.asset THEN "ADAPTER_DISABLED"
      ELSE IF i.inputAmount > config.maxAmount THEN "AMOUNT_CAP_EXCEEDED"
      ELSE IF codeOf[config.implementation] # config.codeHash THEN "CODEHASH_MISMATCH"
      ELSE "NONE"

\* The checks between funding and the adapter, in the order of the code.
Refusal(i) ==
    LET config == adapters[i.adapterId] IN
      IF i \in usedIntents THEN "INTENT_ALREADY_USED"
      ELSE IF paused THEN "ROUTER_PAUSED"
      ELSE IF now > i.deadline THEN "DEADLINE_EXPIRED"
      ELSE IF ~config.enabled \/ config.implementation = NoImplementation THEN "ADAPTER_DISABLED"
      ELSE IF config.asset # i.asset THEN "ADAPTER_DISABLED"
      ELSE IF i.inputAmount > config.maxAmount THEN "AMOUNT_CAP_EXCEEDED"
      ELSE IF codeOf[config.implementation] # config.codeHash THEN "CODEHASH_MISMATCH"
      ELSE "NONE"

\* _settleAdapter: an outcome of executeAdapter settles or falls back.
SettleAdapter(L, c, i, before, x) ==
    LET used == usedIntents \cup {i} IN
      IF x.ok
      THEN Settles(x.ledger, used, "SUCCESS", "NONE", i.inputAmount, x.out)
      ELSE FundedFallback(L, c, i, before, used, ClassifyAdapterFailure(x.error))

\* execute called by account c with enough gas: the set of its outcomes.
Execute(L, c, i) ==
    IF InvalidIntent(c, i) THEN {UnfundedFallback(L, "INVALID_INTENT")}
    ELSE IF ~CanPull(L, c, i) THEN {UnfundedFallback(L, "INPUT_AMOUNT_MISMATCH")}
    ELSE LET before == L.fxrp["router"]
             pulled == Pulled(L, c, i)
         IN  IF Refusal(i) # "NONE"
             THEN {FundedFallback(pulled, c, i, before, usedIntents \cup {i}, Refusal(i))}
             ELSE {SettleAdapter(pulled, c, i, before, x) :
                      x \in ExecuteAdapter(pulled, adapters[i.adapterId].implementation,
                                           i, before)}

---------------------------------------------------------------------------
(* Transactions                                                            *)

RouterInit ==
    /\ RegistryInit
    /\ ledger = [fxrp |-> [h \in Holders |-> 0], shares |-> [c \in Accounts |-> 0],
                 allowance |-> [c \in Accounts |-> 0],
                 lent |-> [a \in Implementations |-> 0]]
    /\ usedIntents = {} /\ paused = FALSE /\ vaultCode = 1
    /\ settlement = NoSettlement
    /\ successes = [i \in Intents |-> 0]
    /\ inFlight = {} /\ donated = 0 /\ ops = 0

\* What execute finds: the FXRP minted, and the allowance just approved.
Dispatched(L, c, minted, approved) ==
    LET credited == [L EXCEPT !.fxrp[c] = @ + minted] IN
      [credited EXCEPT !.allowance[c] = approved]

\* The direct mint of `minted` FXRP to account c dispatches approve and execute.
\* A revert takes the whole mint back; execute reverts at once below its gas floor.
UserOp(c, i, minted, approved, enoughGas) ==
    /\ ops < MaxOps
    /\ ops' = ops + 1
    /\ \E r \in IF enoughGas THEN Execute(Dispatched(ledger, c, minted, approved), c, i)
                 ELSE {Reverts} :
         /\ settlement' = [event |-> r.event, account |-> c, intent |-> i,
                           minted |-> minted, enoughGas |-> enoughGas]
         /\ ledger' = IF r.event = Reverted THEN ledger ELSE r.ledger
         /\ usedIntents' = IF r.event = Reverted THEN usedIntents ELSE r.used
         /\ successes' = [successes EXCEPT ![i] =
                             IF r.event.status = "SUCCESS" THEN @ + 1 ELSE @]
    /\ UNCHANGED <<registry, paused, vaultCode, inFlight, donated>>

SetPaused(p) ==
    /\ paused' = p
    /\ UNCHANGED <<registry, funds, vaultCode, inFlight, donated>>

\* A user signs the XRPL payment that commits to intent i.
Plan(i) ==
    /\ ~\E f \in inFlight : f.intent = i
    /\ i.personalAccount \in Accounts /\ now < i.deadline
    /\ i.adapterId \in AdapterIds
    /\ inFlight' = inFlight \cup
          {[intent |-> i, at |-> now, config |-> adapters[i.adapterId],
            changing |-> pendingAdapters[i.adapterId] # NoChange]}
    /\ UNCHANGED <<registry, funds, paused, vaultCode, donated>>

\* Someone sends FXRP to the Router outside execute.
Donate(x) ==
    /\ donated + x <= MaxDonations
    /\ donated' = donated + x
    /\ ledger' = [ledger EXCEPT !.fxrp["router"] = @ + x]
    /\ UNCHANGED <<registry, usedIntents, settlement, successes, ops, paused, vaultCode, inFlight>>

\* The code at the vault's address changes.
RedeployVault ==
    /\ vaultCode < MaxCode
    /\ vaultCode' = vaultCode + 1
    /\ UNCHANGED <<registry, funds, paused, inFlight, donated>>

RouterNext ==
    \/ RegistryNext /\ UNCHANGED routing
    \/ \E c \in Accounts, i \in Intents, minted, approved \in Amounts, g \in BOOLEAN :
          UserOp(c, i, minted, approved, g)
    \/ \E p \in BOOLEAN : SetPaused(p)
    \/ \E i \in Followed : Plan(i)
    \/ \E x \in Amounts : Donate(x)
    \/ RedeployVault

RouterSpec == RouterInit /\ [][RouterNext]_all

---------------------------------------------------------------------------
(* Properties                                                              *)

\* Every variable of the Router keeps its type.
RouterTypeOK ==
    /\ RegistryTypeOK
    /\ ledger \in Ledger
    /\ usedIntents \subseteq Intents
    /\ paused \in BOOLEAN /\ vaultCode \in Nat
    /\ settlement \in Settlement
    /\ successes \in [Intents -> Nat]
    /\ inFlight \subseteq Flight
    /\ donated \in Nat /\ ops \in Nat

\* "After success = balanceBefore, after fallback = balanceBefore": whatever the
\* adapters and the vault do, the Router neither keeps a user's FXRP nor lets
\* donated dust be spent or swept.
RouterHoldsOnlyDonations == ledger.fxrp["router"] = donated

\* Between transactions no adapter is left with an allowance over the Router.
NothingStaysLent == \A a \in Implementations : ledger.lent[a] = 0

\* execute returns normally for every business failure: with enough gas no
\* behaviour of the vault, the adapter or the registry takes the mint back.
MintIsNeverTakenBack ==
    settlement # NoSettlement /\ settlement.event = Reverted => ~settlement.enoughGas

\* An intent id settles with success at most once, replays and later allowances
\* included.
IntentSucceedsOnce == \A i \in Intents : successes[i] <= 1

Ran == ops' # ops

\* A fallback rolls back everything the adapter and the vault did: the account
\* keeps exactly what was minted, nobody else's FXRP and no shares move.
FallbackChangesNothingElse ==
    [][Ran /\ settlement'.event.status = "FALLBACK" =>
         /\ ledger'.fxrp = [ledger.fxrp EXCEPT ![settlement'.account] = @ + settlement'.minted]
         /\ ledger'.shares = ledger.shares
         /\ ledger'.lent = ledger.lent]_all

\* A success costs the account the input it signed for and no more; with the
\* ERC-4626 adapter it received at least minOutput shares, as many as announced,
\* even from a vault that lies.
SuccessIsWorthIt ==
    [][Ran /\ settlement'.event.status = "SUCCESS" =>
         LET c == settlement'.account
             i == settlement'.intent
             a == adapters[i.adapterId].implementation
         IN  /\ ledger'.fxrp[c] + i.inputAmount >= ledger.fxrp[c] + settlement'.minted
             /\ settlement'.event.amountOut >= i.minOutput
             /\ a \in Erc4626Adapters /\ codeOf[a] = 1 =>
                  ledger'.shares[c] = ledger.shares[c] + settlement'.event.amountOut]_all

\* The flight of the intent that the present step settles with success.
Lands(f) ==
    Ran /\ settlement'.event.status = "SUCCESS" /\ settlement'.intent = f.intent

\* A payment signed while no change was scheduled, and settled within the delay,
\* runs the very code the adapterId was pointed at when it was signed.
NoticedSwapsOnly ==
    [][\A f \in inFlight :
         /\ Lands(f) /\ ~f.changing /\ f.config.version # 0
         /\ now < f.at + Delay
         => /\ adapters[f.intent.adapterId].implementation = f.config.implementation
            /\ codeOf[f.config.implementation] = f.config.codeHash]_all

\* "a payment already in flight against the current implementation cannot be
\* settled against a swapped-in one", however long it is in flight.
InFlightNotSwapped ==
    [][\A f \in inFlight :
         Lands(f) /\ f.config.version # 0 =>
           adapters[f.intent.adapterId].implementation = f.config.implementation]_all

---------------------------------------------------------------------------
(* Refinement                                                              *)

Abstract == INSTANCE RouterPromise WITH
    spent    <- {i \in usedIntents : successes[i] # 0},
    returned <- {i \in usedIntents : successes[i] = 0},
    balance  <- [c \in Accounts |-> ledger.fxrp[c]],
    held     <- ledger.fxrp["router"]

\* execute, whatever the adapters, the vault, the owners and other accounts do: an
\* intent is spent once or given back for good, by its own account; a spent one costs
\* its input at most, one given back nothing, and no other account loses anything.
KeepsRouterPromise == Abstract!Promise
=============================================================================
