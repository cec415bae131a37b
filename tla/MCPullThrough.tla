--------------------------- MODULE MCPullThrough ---------------------------
(* A group of a hosted repository and a proxy.                              *)
EXTENDS PullThrough, TLC

CONSTANTS g, hosted, proxy, metadata, tag

TwoMembers == <<hosted, proxy>>

Symmetric == Permutations(Fetchers) \cup Permutations(Wheels)
=============================================================================
