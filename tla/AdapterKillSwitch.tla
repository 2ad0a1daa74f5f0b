--------------------------- MODULE AdapterKillSwitch ---------------------------
(***************************************************************************)
(* AdapterRegistry with the memory of what its owner asked for last: has   *)
(* he disabled an adapter with setAdapterEnabled, and since then neither   *)
(* enabled it again nor asked for another configuration?                   *)
(***************************************************************************)
EXTENDS AdapterRegistry

VARIABLE killed   \* history: the adapterIds whose owner's last word was to disable them

killRegistry == <<registry, killed>>

KillInit == RegistryInit /\ killed = {}

\* setAdapterEnabled(adapterId, false).
Disable(id) ==
    /\ SetAdapterEnabled(id, FALSE)
    /\ killed' = killed \cup {id}

\* setAdapterEnabled(adapterId, true), or a proposal made after the disabling.
AskOtherwise(id) ==
    /\ \/ SetAdapterEnabled(id, TRUE)
       \/ \E r \in Requests : ConfigureAdapter(id, r)
    /\ killed' = killed \ {id}

\* A proposal made before it is cancelled by the owner, or activated by anyone.
EndChange(id) ==
    /\ CancelAdapterChange(id) \/ ActivateAdapter(id)
    /\ UNCHANGED killed

KillNext ==
    \/ \E id \in AdapterIds : Disable(id) \/ AskOtherwise(id) \/ EndChange(id)
    \/ Tick /\ UNCHANGED killed
    \/ \E c \in Implementations : Redeploy(c) /\ UNCHANGED killed

KillSpec == KillInit /\ [][KillNext]_killRegistry

\* "Disabling is a fail-safe kill switch": an adapter that the owner has disabled stays
\* so until he asks for something else.  A change he proposed before is no such thing.
KillSwitchHolds == \A id \in killed : ~adapters[id].enabled
=============================================================================
