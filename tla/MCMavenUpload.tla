---------------------------- MODULE MCMavenUpload ---------------------------
(* A small instance of MavenUpload.                                         *)
EXTENDS MavenUpload, TLC

Symmetric == Permutations(Versions) \cup Permutations(Bodies) \cup Permutations(Clients)
=============================================================================
