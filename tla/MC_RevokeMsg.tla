---------------------------- MODULE MC_RevokeMsg -----------------------------
(* Model-checking instance of RevokeMsg: three users (so that sender,     *)
(* owner and a third member can all differ) and two concurrent requests,  *)
(* given as model values in the .cfg.                                      *)
EXTENDS RevokeMsg, TLC

CONSTANTS u1, u2, u3, r1, r2

MC_Users == {u1, u2, u3}
MC_Requests == {r1, r2}

\* Ex values: none, the high rights together with the operation rights
\* (rank 3 by the first "true"), and the operation rights alone (rank 2).
MC_ExValues ==
    {EmptyEx,
     [kind |-> "json", anchor_auth |-> "false", high_auth |-> "true",
      operation_auth |-> "true", sendStatus |-> 0],
     [kind |-> "json", anchor_auth |-> "false", high_auth |-> "false",
      operation_auth |-> "true", sendStatus |-> 0]}

\* The requests are interchangeable.
MC_Symmetry == Permutations(MC_Requests)
=============================================================================
