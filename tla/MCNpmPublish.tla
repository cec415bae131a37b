---------------------------- MODULE MCNpmPublish ----------------------------
(* A small instance of NpmPublish.                                          *)
EXTENDS NpmPublish, TLC

Symmetric == Permutations(Publishers) \cup Permutations(Versions) \cup
             Permutations(Tarballs) \cup Permutations(Installers)
=============================================================================
