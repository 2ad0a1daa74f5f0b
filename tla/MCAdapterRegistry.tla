-------------------------- MODULE MCAdapterRegistry --------------------------
(* Instances of AdapterKillSwitch for TLC.                                  *)
EXTENDS AdapterKillSwitch, TLC

CONSTANTS deposit, vaultA, vaultB, none, fxrp

\* Everything the owner can ask for, with two caps.
AllRequests == [implementation : Implementations, asset : Assets,
                maxAmount : {1, 2}, enabled : BOOLEAN]

\* The two implementations are interchangeable.
Symmetry == Permutations(Implementations)
=============================================================================
