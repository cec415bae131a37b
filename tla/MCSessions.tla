----------------------------- MODULE MCSessions -----------------------------
(* An admin and another user.                                                *)
EXTENDS Sessions, TLC

Symmetric == Permutations(Requests) \cup Permutations(Tokens)
=============================================================================
