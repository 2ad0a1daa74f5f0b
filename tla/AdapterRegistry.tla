---------------------------- MODULE AdapterRegistry ----------------------------
(***************************************************************************)
(* AdapterRegistry.sol: the owner points an adapterId at an implementation *)
(* contract.  The first configuration takes effect at once; a later one    *)
(* waits ADAPTER_CHANGE_DELAY and is then activated by anyone.  Each       *)
(* action is one transaction that does not revert: a reverted transaction  *)
(* changes nothing.  Code hashes are numbers: 0 is an account without      *)
(* code, 1 the code of the first deployment.                               *)
(***************************************************************************)
EXTENDS Naturals

CONSTANTS
    AdapterIds,
    Implementations,  \* contracts an adapterId may be pointed at
    NoImplementation, \* address(0)
    Assets,
    Requests,         \* the configurations the owner may ask for
    Delay,            \* ADAPTER_CHANGE_DELAY, in clock ticks
    MaxTime,          \* bound: the clock
    MaxVersions,      \* bound: versions of an adapterId, counting the one scheduled
    MaxCode           \* bound: code hashes per contract

ASSUME NoImplementationAssumption == NoImplementation \notin Implementations

Request == [implementation : Implementations, asset : Assets,
            maxAmount : Nat \ {0}, enabled : BOOLEAN]

ASSUME RequestsAssumption == Requests \subseteq Request
ASSUME DelayAssumption == Delay \in Nat
ASSUME RegistryBoundsAssumption ==
    MaxTime \in Nat /\ MaxVersions \in Nat /\ MaxCode \in Nat \ {0}

VARIABLES
    adapters,         \* the live configuration of each adapterId
    pendingAdapters,  \* the scheduled one
    now,              \* block.timestamp
    codeOf,           \* what EXTCODEHASH of each implementation returns
    proposed          \* history: the latest scheduling call not cancelled or applied

registry == <<adapters, pendingAdapters, now, codeOf, proposed>>

NotConfigured == [implementation |-> NoImplementation, version |-> 0, enabled |-> FALSE]

Config == {NotConfigured} \cup
    [implementation : Implementations, asset : Assets, codeHash : Nat,
     maxAmount : Nat \ {0}, version : Nat \ {0}, enabled : BOOLEAN]

NoChange == [effectiveAt |-> 0]

Pending == {NoChange} \cup [request : Requests, effectiveAt : Nat \ {0}]

NoProposal == [at |-> 0]

Proposal == {NoProposal} \cup [request : Requests, at : Nat \ {0}]

RegistryInit ==
    /\ adapters = [id \in AdapterIds |-> NotConfigured]
    /\ pendingAdapters = [id \in AdapterIds |-> NoChange]
    /\ now = 1
    /\ codeOf \in [Implementations -> {0, 1}]
    /\ proposed = [id \in AdapterIds |-> NoProposal]

\* _applyAdapterConfig: the code hash pinned is the one at activation.
Applied(id, r) ==
    [implementation |-> r.implementation, asset |-> r.asset,
     codeHash |-> codeOf[r.implementation], maxAmount |-> r.maxAmount,
     version |-> adapters[id].version + 1, enabled |-> r.enabled]

\* Mutated Scheduled: the delay is left out.
ScheduledAtOnce(r) == [request |-> r, effectiveAt |-> now]

\* A scheduling call always restarts the wait, a pending change or not.
Scheduled(r) == [request |-> r, effectiveAt |-> now + Delay]

---------------------------------------------------------------------------
(* The owner's transactions                                                *)

ConfigureAdapter(id, r) ==
    /\ codeOf[r.implementation] # 0
    /\ \/ /\ adapters[id].version = 0
          /\ adapters' = [adapters EXCEPT ![id] = Applied(id, r)]
          /\ UNCHANGED <<pendingAdapters, proposed>>
       \/ /\ adapters[id].version # 0
          /\ adapters[id].version < MaxVersions
          /\ pendingAdapters' = [pendingAdapters EXCEPT ![id] = Scheduled(r)]
          /\ proposed' = [proposed EXCEPT ![id] = [request |-> r, at |-> now]]
          /\ UNCHANGED adapters
    /\ UNCHANGED <<now, codeOf>>

CancelAdapterChange(id) ==
    /\ pendingAdapters[id].effectiveAt # 0
    /\ pendingAdapters' = [pendingAdapters EXCEPT ![id] = NoChange]
    /\ proposed' = [proposed EXCEPT ![id] = NoProposal]
    /\ UNCHANGED <<adapters, now, codeOf>>

SetAdapterEnabled(id, enabled) ==
    /\ adapters[id].implementation # NoImplementation
    /\ adapters' = [adapters EXCEPT ![id].enabled = enabled]
    /\ UNCHANGED <<pendingAdapters, now, codeOf, proposed>>

---------------------------------------------------------------------------
(* Anyone's transactions, and the chain                                    *)

Due(id) == pendingAdapters[id].effectiveAt # 0 /\ now >= pendingAdapters[id].effectiveAt

\* Mutated ActivateAdapter: the pending change survives its activation.
ActivateAdapterAgain(id) ==
    /\ Due(id)
    /\ adapters' = [adapters EXCEPT ![id] = Applied(id, pendingAdapters[id].request)]
    /\ proposed' = [proposed EXCEPT ![id] = NoProposal]
    /\ UNCHANGED <<pendingAdapters, now, codeOf>>

ActivateAdapter(id) ==
    /\ Due(id)
    /\ adapters' = [adapters EXCEPT ![id] = Applied(id, pendingAdapters[id].request)]
    /\ pendingAdapters' = [pendingAdapters EXCEPT ![id] = NoChange]
    /\ proposed' = [proposed EXCEPT ![id] = NoProposal]
    /\ UNCHANGED <<now, codeOf>>

\* The code at an implementation's address appears or changes.
Redeploy(c) ==
    /\ codeOf[c] < MaxCode
    /\ codeOf' = [codeOf EXCEPT ![c] = @ + 1]
    /\ UNCHANGED <<adapters, pendingAdapters, now, proposed>>

Tick ==
    /\ now < MaxTime
    /\ now' = now + 1
    /\ UNCHANGED <<adapters, pendingAdapters, codeOf, proposed>>

OwnerCall(id) ==
    \/ \E r \in Requests : ConfigureAdapter(id, r)
    \/ CancelAdapterChange(id)
    \/ \E e \in BOOLEAN : SetAdapterEnabled(id, e)

RegistryNext ==
    \/ \E id \in AdapterIds : OwnerCall(id) \/ ActivateAdapter(id)
    \/ \E c \in Implementations : Redeploy(c)
    \/ Tick

RegistrySpec == RegistryInit /\ [][RegistryNext]_registry

---------------------------------------------------------------------------
(* Properties                                                              *)

\* Every variable of the registry keeps its type.
RegistryTypeOK ==
    /\ adapters \in [AdapterIds -> Config]
    /\ pendingAdapters \in [AdapterIds -> Pending]
    /\ now \in Nat \ {0}
    /\ codeOf \in [Implementations -> Nat]
    /\ proposed \in [AdapterIds -> Proposal]

\* The configuration of a live adapterId is replaced only by the owner's latest
\* request, once, and only after that very request has waited the whole delay:
\* re-proposing, cancelling and late activation never shorten the wait or bring
\* an abandoned or already applied request back.
Replaced(id) == adapters[id].version # 0 /\ adapters'[id].version # adapters[id].version

IsWaitedFor(id) ==
    /\ proposed[id] # NoProposal
    /\ now >= proposed[id].at + Delay
    /\ \A f \in DOMAIN proposed[id].request : adapters'[id][f] = proposed[id].request[f]

SwapWaitsForItsProposal ==
    [][\A id \in AdapterIds : Replaced(id) => IsWaitedFor(id)]_registry
=============================================================================
