------------------------ MODULE AdapterRegistry_proofs ------------------------
(***************************************************************************)
(* For every set of adapterIds, implementations and requests and every     *)
(* delay: the registry keeps its types, and a live configuration is        *)
(* replaced only by the latest request after it waited the delay.          *)
(***************************************************************************)
EXTENDS AdapterRegistry, TLAPS

\* A request has these four fields and no other.
LEMMA RequestFields ==
    ASSUME NEW r \in Requests
    PROVE  /\ r.implementation \in Implementations /\ r.asset \in Assets
           /\ r.maxAmount \in Nat \ {0} /\ r.enabled \in BOOLEAN
           /\ DOMAIN r = {"implementation", "asset", "maxAmount", "enabled"}
BY RequestsAssumption DEF Request

\* What _applyAdapterConfig writes is a configuration of version one or more.
LEMMA AppliedType ==
    ASSUME RegistryTypeOK, NEW id \in AdapterIds, NEW r \in Requests
    PROVE  Applied(id, r) \in Config
<1>1. codeOf[r.implementation] \in Nat
  BY RequestFields DEF RegistryTypeOK
<1>2. adapters[id].version + 1 \in Nat \ {0}
  <2>1. adapters[id] \in Config
    BY DEF RegistryTypeOK
  <2>2. adapters[id].version \in Nat
    BY <2>1 DEF Config, NotConfigured
  <2> QED  BY <2>2
<1> QED  BY <1>1, <1>2, RequestFields DEF Applied, Config

\* A scheduled change takes effect at a time after 0.
LEMMA ScheduledType ==
    ASSUME RegistryTypeOK, NEW r \in Requests
    PROVE  Scheduled(r) \in Pending
<1>1. now + Delay \in Nat \ {0}
  BY DelayAssumption DEF RegistryTypeOK
<1> QED  BY <1>1 DEF Scheduled, Pending

\* A pending change carries the request of a scheduling call.
LEMMA PendingRequest ==
    ASSUME RegistryTypeOK, NEW id \in AdapterIds, pendingAdapters[id].effectiveAt # 0
    PROVE  /\ pendingAdapters[id] # NoChange
           /\ pendingAdapters[id].request \in Requests
<1>1. pendingAdapters[id] \in Pending
  BY DEF RegistryTypeOK
<1> QED  BY <1>1 DEF Pending, NoChange

---------------------------------------------------------------------------
(* Types                                                                   *)

\* One step keeps the types.
LEMMA TypeStep ==
    ASSUME RegistryTypeOK, [RegistryNext]_registry
    PROVE  RegistryTypeOK'
<1>1. ASSUME NEW id \in AdapterIds, NEW r \in Requests, ConfigureAdapter(id, r)
      PROVE  RegistryTypeOK'
  <2>1. Applied(id, r) \in Config /\ Scheduled(r) \in Pending
    BY AppliedType, ScheduledType
  <2>2. [request |-> r, at |-> now] \in Proposal
    BY DEF Proposal, RegistryTypeOK
  <2> QED  BY <1>1, <2>1, <2>2 DEF ConfigureAdapter, RegistryTypeOK
<1>2. ASSUME NEW id \in AdapterIds, CancelAdapterChange(id)
      PROVE  RegistryTypeOK'
  BY <1>2 DEF CancelAdapterChange, RegistryTypeOK, Pending, Proposal
<1>3. ASSUME NEW id \in AdapterIds, NEW e \in BOOLEAN, SetAdapterEnabled(id, e)
      PROVE  RegistryTypeOK'
  <2>1. adapters[id] \in Config /\ adapters[id].implementation # NoImplementation
    BY <1>3 DEF SetAdapterEnabled, RegistryTypeOK
  <2>2. [adapters[id] EXCEPT !.enabled = e] \in Config
    BY <2>1 DEF Config, NotConfigured
  <2>3. adapters' = [adapters EXCEPT ![id] = [adapters[id] EXCEPT !.enabled = e]]
    BY <1>3 DEF SetAdapterEnabled
  <2> QED  BY <1>3, <2>2, <2>3 DEF SetAdapterEnabled, RegistryTypeOK
<1>4. ASSUME NEW id \in AdapterIds, ActivateAdapter(id)
      PROVE  RegistryTypeOK'
  <2>1. pendingAdapters[id].request \in Requests
    BY <1>4, PendingRequest DEF ActivateAdapter, Due
  <2>2. Applied(id, pendingAdapters[id].request) \in Config
    BY <2>1, AppliedType
  <2>3. NoChange \in Pending /\ NoProposal \in Proposal
    BY DEF Pending, Proposal
  <2> QED  BY <1>4, <2>2, <2>3 DEF ActivateAdapter, RegistryTypeOK
<1>5. ASSUME NEW c \in Implementations, Redeploy(c)
      PROVE  RegistryTypeOK'
  BY <1>5 DEF Redeploy, RegistryTypeOK
<1>6. CASE Tick
  BY <1>6 DEF Tick, RegistryTypeOK
<1>7. CASE UNCHANGED registry
  BY <1>7 DEF registry, RegistryTypeOK
<1> QED
  BY <1>1, <1>2, <1>3, <1>4, <1>5, <1>6, <1>7 DEF RegistryNext, OwnerCall

\* Every reachable state of the registry is well typed.
THEOREM RegistryTypeCorrect == RegistrySpec => []RegistryTypeOK
<1>1. RegistryInit => RegistryTypeOK
  BY DEF RegistryInit, RegistryTypeOK, Config, Pending, Proposal
<1> QED  BY <1>1, TypeStep, PTL DEF RegistrySpec

---------------------------------------------------------------------------
(* The timelock                                                            *)

\* What is pending is the latest proposal, due one delay after it was made.
PendingIsProposed ==
    \A id \in AdapterIds :
        pendingAdapters[id].effectiveAt # 0 =>
            /\ proposed[id] # NoProposal
            /\ proposed[id].request = pendingAdapters[id].request
            /\ pendingAdapters[id].effectiveAt = proposed[id].at + Delay

\* One step keeps it so.
LEMMA PendingStep ==
    ASSUME RegistryTypeOK, PendingIsProposed, [RegistryNext]_registry
    PROVE  PendingIsProposed'
<1>1. ASSUME NEW id \in AdapterIds, NEW r \in Requests, ConfigureAdapter(id, r)
      PROVE  PendingIsProposed'
  <2>1. CASE UNCHANGED <<pendingAdapters, proposed>>
    BY <2>1 DEF PendingIsProposed
  <2>2. CASE /\ pendingAdapters' = [pendingAdapters EXCEPT ![id] = Scheduled(r)]
             /\ proposed' = [proposed EXCEPT ![id] = [request |-> r, at |-> now]]
    <3>1. [request |-> r, at |-> now] # NoProposal
      BY DEF NoProposal
    <3> QED  BY <2>2, <3>1 DEF PendingIsProposed, Scheduled, RegistryTypeOK
  <2> QED  BY <1>1, <2>1, <2>2 DEF ConfigureAdapter
<1>2. ASSUME NEW id \in AdapterIds, CancelAdapterChange(id) \/ ActivateAdapter(id)
      PROVE  PendingIsProposed'
  BY <1>2 DEF CancelAdapterChange, ActivateAdapter, NoChange, PendingIsProposed, RegistryTypeOK
<1>3. CASE UNCHANGED <<pendingAdapters, proposed>>
  BY <1>3 DEF PendingIsProposed
<1> QED
  BY <1>1, <1>2, <1>3
     DEF RegistryNext, OwnerCall, SetAdapterEnabled, Redeploy, Tick, registry

\* Of all steps only an activation replaces a live configuration.
LEMMA ReplacedByActivation ==
    ASSUME RegistryTypeOK, [RegistryNext]_registry, NEW id \in AdapterIds, Replaced(id)
    PROVE  ActivateAdapter(id)
<1>1. ASSUME NEW x \in AdapterIds, NEW r \in Requests, ConfigureAdapter(x, r)
      PROVE  adapters'[id].version = adapters[id].version \/ adapters[id].version = 0
  BY <1>1 DEF ConfigureAdapter, RegistryTypeOK
<1>2. ASSUME NEW x \in AdapterIds, NEW e \in BOOLEAN, SetAdapterEnabled(x, e)
      PROVE  adapters'[id].version = adapters[id].version
  <2>1. adapters[id] \in Config /\ adapters[x] \in Config
    BY DEF RegistryTypeOK
  <2>2. [adapters[x] EXCEPT !.enabled = e].version = adapters[x].version
    BY <2>1 DEF Config, NotConfigured
  <2>3. adapters' = [adapters EXCEPT ![x] = [adapters[x] EXCEPT !.enabled = e]]
    BY <1>2 DEF SetAdapterEnabled
  <2> QED  BY <2>2, <2>3 DEF RegistryTypeOK
<1>3. ASSUME NEW x \in AdapterIds, ActivateAdapter(x), x # id
      PROVE  adapters'[id].version = adapters[id].version
  BY <1>3 DEF ActivateAdapter, RegistryTypeOK
<1>4. CASE UNCHANGED adapters
  BY <1>4 DEF Replaced
<1> QED
  BY <1>1, <1>2, <1>3, <1>4
     DEF Replaced, RegistryNext, OwnerCall, CancelAdapterChange, Redeploy, Tick, registry

\* An activation applies what waited.
LEMMA ActivationWaited ==
    ASSUME RegistryTypeOK, PendingIsProposed, NEW id \in AdapterIds, ActivateAdapter(id)
    PROVE  IsWaitedFor(id)
<1> DEFINE r == pendingAdapters[id].request
<1>1. /\ pendingAdapters[id].effectiveAt # 0 /\ now >= pendingAdapters[id].effectiveAt
      /\ adapters'[id] = Applied(id, r)
  BY DEF ActivateAdapter, Due, RegistryTypeOK
<1>2. /\ proposed[id] # NoProposal /\ proposed[id].request = r
      /\ now >= proposed[id].at + Delay
  BY <1>1 DEF PendingIsProposed
<1>3. r \in Requests
  BY <1>1, PendingRequest
<1>4. \A f \in DOMAIN r : Applied(id, r)[f] = r[f]
  BY <1>3, RequestFields DEF Applied
<1> QED  BY <1>1, <1>2, <1>4 DEF IsWaitedFor

\* The timelock holds for every delay, however proposals, cancellations and
\* activations follow one another.
THEOREM TimelockHolds == RegistrySpec => SwapWaitsForItsProposal
<1>1. RegistryInit => PendingIsProposed
  BY DEF RegistryInit, PendingIsProposed, NoChange
<1>2. ASSUME RegistryTypeOK, PendingIsProposed, [RegistryNext]_registry
      PROVE  [\A id \in AdapterIds : Replaced(id) => IsWaitedFor(id)]_registry
  BY <1>2, ReplacedByActivation, ActivationWaited
<1> QED
  BY <1>1, <1>2, RegistryTypeCorrect, PendingStep, PTL
     DEF RegistrySpec, SwapWaitsForItsProposal
=============================================================================
