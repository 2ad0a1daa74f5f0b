-------------------------- MODULE MCMintShieldRouter --------------------------
(* Instances of MintShieldRouter for TLC.                                   *)
EXTENDS MintShieldRouter, TLC

CONSTANTS deposit, zero, vaultAdapter, otherAdapter, none, fxrp, usdc, alice, bob

Signed(pa, asset, amount, id, min, deadline) ==
    [personalAccount |-> pa, asset |-> asset, inputAmount |-> amount, adapterId |-> id,
     emptyData |-> TRUE, minOutput |-> min, deadline |-> deadline, nonce |-> 0]

\* Alice's deposit, the same with a shorter deadline and a tighter
\* minimum, and two malformed ones.
Good      == Signed(alice, fxrp, 2, deposit, 1, 9)
Short     == Signed(alice, fxrp, 2, deposit, 2, 1)
WithData  == [Good EXCEPT !.emptyData = FALSE]
WrongAsset == Signed(alice, usdc, 2, deposit, 1, 9)

SettlementIntents == {Good, Short, WithData, WrongAsset}
FlightIntents     == {Good}

\* The owner's configurations: the ERC-4626 adapter, other code, a cap below
\* Alice's deposit, and a configuration for another asset.
Request4626  == [implementation |-> vaultAdapter, asset |-> fxrp, maxAmount |-> 2, enabled |-> TRUE]
RequestOther == [Request4626 EXCEPT !.implementation = otherAdapter]
RequestCap   == [Request4626 EXCEPT !.maxAmount = 1]
RequestAsset == [Request4626 EXCEPT !.asset = usdc]

SettlementRequests == {Request4626, RequestOther, RequestCap, RequestAsset}
FlightRequests     == {Request4626, RequestOther}
=============================================================================
