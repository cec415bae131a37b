-------------------------- MODULE MCDockerUpload ---------------------------
(* A small instance of DockerUpload: bodies of at most MaxBody pieces.      *)
EXTENDS DockerUpload, TLC

CONSTANT x

\* What clients claim: the digests of one and of two pieces.
MCClaims == {Sha(<<x>>), Sha(<<x, x>>)}

Symmetric == Permutations(Requests)
=============================================================================
