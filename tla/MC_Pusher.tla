----------------------------- MODULE MC_Pusher ------------------------------
(* Model-checking instance of Pusher: three users (the sender and two      *)
(* others) and two or three gateways, given as model values in the .cfg.  *)
EXTENDS Pusher, TLC

CONSTANTS u1, u2, u3, g1, g2, g3

MC_Users == {u1, u2, u3}
\* The sender and one other user: the liveness runs, which cannot use symmetry.
MC_TwoUsers == {u1, u2}
MC_TwoGateways == {g1, g2}
MC_ThreeGateways == {g1, g2, g3}

\* The group notifications that notification.yaml configures, so that
\* offlinePushMsg finds them in ContentTypeConf.
MC_NotificationConf == {"MemberQuit", "MemberKicked", "GroupDismissed"}

\* The gateways are interchangeable, and so are the users other than the
\* sender: symmetry for the runs that check invariants only.
MC_Symmetry == Permutations(MC_TwoGateways) \cup Permutations({u2, u3})
=============================================================================
