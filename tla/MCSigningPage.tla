----------------------------- MODULE MCSigningPage -----------------------------
(* Instances of SigningPage for TLC.                                        *)
EXTENDS SigningPage, TLC

CONSTANTS post1, post2, get1, get2, op1, op2, op3, key1, key2

\* Deposits of one nonce that were planned in two different seconds.
OneNonce == op1 :> key1 @@ op2 :> key1

\* The same, and one of another account.
TwoNonces == OneNonce @@ op3 :> key2
=============================================================================
