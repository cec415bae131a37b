---------------------------- MODULE VersionIndex ----------------------------
(***************************************************************************)
(* What a package registry promises about the versions of one package: a   *)
(* version that is listed stays listed and keeps its content, and a        *)
(* publisher who is told "created" finds the version in the list.          *)
(***************************************************************************)
CONSTANTS
  Publishers,   \* publish requests, each made once
  Versions,     \* version numbers
  Contents,     \* what is published under a version
  Unlisted      \* a version that is not in the list

VARIABLES
  index,        \* index[v]: the content listed for version v, or Unlisted
  phase         \* phase[p]: "idle", "open", "listed", "created", "refused"

vars == <<index, phase>>

Init ==
  /\ index = [v \in Versions |-> Unlisted]
  /\ phase = [p \in Publishers |-> "idle"]

Goto(p, from, to) ==
  /\ phase[p] = from
  /\ phase' = [phase EXCEPT ![p] = to]

Begin(p) == Goto(p, "idle", "open") /\ UNCHANGED index

\* The version is added, and it was not there.
List(p, v, c) ==
  /\ Goto(p, "open", "listed")
  /\ index[v] = Unlisted
  /\ index' = [index EXCEPT ![v] = c]

Answer(p) == Goto(p, "listed", "created") /\ UNCHANGED index

\* Publishers may be refused, fail or be cut off, at any time.
Abort(S) ==
  /\ \A p \in S : phase[p] \in {"idle", "open", "listed"}
  /\ phase' = [p \in Publishers |-> IF p \in S THEN "refused" ELSE phase[p]]
  /\ UNCHANGED index

Next ==
  \/ \E p \in Publishers :
       \/ Begin(p)
       \/ \E v \in Versions, c \in Contents : List(p, v, c)
       \/ Answer(p)
  \/ \E S \in SUBSET Publishers : Abort(S)

Spec == Init /\ [][Next]_vars
=============================================================================
