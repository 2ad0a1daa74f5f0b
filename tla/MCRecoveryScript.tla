--------------------------- MODULE MCRecoveryScript ---------------------------
(* Instances of RecoveryTimeline for TLC.                                   *)
EXTENDS RecoveryTimeline, TLC

CONSTANTS operator1, operator2

\* No, some and nearly all relative fee, with and without a minimum fee.
AllSettings == [feeBIPS : {0, 3, 9}, minimumFeeUBA : {0, 2}]

OneSetting == {[feeBIPS |-> 3, minimumFeeUBA |-> 2]}
=============================================================================
