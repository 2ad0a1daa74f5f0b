---------------------------- MODULE MCRouterScopes ----------------------------
(* Two instances of MintShieldRouter in one run of TLC: user operations     *)
(* under a registry that changes for a short time, and one payment in       *)
(* flight under a registry that changes for longer.  Neither has a step     *)
(* that RouterNext has not.                                                 *)
EXTENDS MCMintShieldRouter

VARIABLE scope    \* the instance of the behaviour

scoped == <<all, scope>>

ScopedInit ==
    /\ RouterInit
    /\ scope \in {"settlement", "flight"}
    /\ scope = "settlement" => codeOf[otherAdapter] = 1

\* No later configurations and no payments in flight: the clock is for the deadlines.
SettlementNext ==
    /\ RouterNext /\ now' <= 2
    /\ UNCHANGED <<proposed, inFlight, codeOf[otherAdapter]>>

\* One user operation at most, with two requests of the owner.
FlightNext ==
    /\ \/ RegistryNext /\ UNCHANGED routing
       \/ \E g \in BOOLEAN : ops = 0 /\ UserOp(alice, Good, 2, 2, g)
       \/ Plan(Good)
    /\ \A id \in AdapterIds :
         /\ adapters'[id].version # 0 =>
              adapters'[id].asset = fxrp /\ adapters'[id].maxAmount = 2
         /\ proposed'[id] # NoProposal => proposed'[id].request \in FlightRequests

ScopedNext ==
    /\ \/ scope = "settlement" /\ SettlementNext
       \/ scope = "flight" /\ FlightNext
    /\ UNCHANGED scope

ScopedSpec == ScopedInit /\ [][ScopedNext]_scoped
=============================================================================
