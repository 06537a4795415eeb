------------------------ MODULE MC_ConversationLocalCache --------------------
(* Model-checking instance of ConversationLocalCache: three concurrent     *)
(* calls for one user, lists as model values.                              *)
EXTENDS ConversationLocalCache, TLC
CONSTANTS r1, r2, r3, la, lb, lc
MC_Readers == {r1, r2, r3}
\* The list changes twice, to lists it never held before.
MC_FreshHistory == <<la, lb, lc>>
\* A conversation is added and then removed: the list returns to its
\* earlier content, and so does its hash.
MC_RevertingHistory == <<la, lb, la>>
\* The calls are interchangeable (invariant runs only).
MC_Symmetry == Permutations(MC_Readers)
=============================================================================
