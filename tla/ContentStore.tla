---------------------------- MODULE ContentStore ----------------------------
(***************************************************************************)
(* What the content-addressable layer promises its callers, without files: *)
(* a store maps a digest to the one body that has it, and a Put takes      *)
(* effect at a single instant between its invocation and its return.       *)
(*                                                                         *)
(* BlobStore implements this specification (its Promise).                  *)
(***************************************************************************)

CONSTANTS
  Calls,    \* the Put calls of a behaviour, each made once
  Bodies,   \* the byte strings that callers store
  Digests,  \* the digest values
  Sha,      \* the digest of each body
  Absent    \* "there is no such object"

VARIABLES
  store,    \* store[d]: the body kept under digest d, or Absent
  phase,    \* phase[c]: how far the Put call c has come
  arg       \* arg[c]: the body handed to c, Absent before it is invoked

vars == <<store, phase, arg>>

Init ==
  /\ store = [d \in Digests |-> Absent]
  /\ phase = [c \in Calls |-> "idle"]
  /\ arg = [c \in Calls |-> Absent]

\* A caller hands a body to Put.
Invoke(c, b) ==
  /\ phase[c] = "idle"
  /\ phase' = [phase EXCEPT ![c] = "open"]
  /\ arg' = [arg EXCEPT ![c] = b]
  /\ UNCHANGED store

\* The instant at which the Put takes effect. Storing a body that is already
\* there changes nothing: identical bytes are kept once.
Commit(c) ==
  /\ phase[c] = "open"
  /\ phase' = [phase EXCEPT ![c] = "committed"]
  /\ store' = [store EXCEPT ![Sha[arg[c]]] = arg[c]]
  /\ UNCHANGED arg

\* Put returns the digest: only a committed call may.
Return(c) ==
  /\ phase[c] = "committed"
  /\ phase' = [phase EXCEPT ![c] = "returned"]
  /\ UNCHANGED <<store, arg>>

\* Calls end without an answer: an error for one of them, or a crash of the
\* process for all of them. An unacknowledged body may be stored or not.
Abort(S) ==
  /\ \A c \in S : phase[c] \in {"open", "committed"}
  /\ phase' = [c \in Calls |-> IF c \in S THEN "aborted" ELSE phase[c]]
  /\ UNCHANGED <<store, arg>>

\* Delete by digest; a digest that is not there is not an error.
Remove(d) ==
  /\ store' = [store EXCEPT ![d] = Absent]
  /\ UNCHANGED <<phase, arg>>

Next ==
  \/ \E c \in Calls :
       \/ \E b \in Bodies : Invoke(c, b)
       \/ Commit(c)
       \/ Return(c)
  \/ \E S \in SUBSET Calls : Abort(S)
  \/ \E d \in Digests : Remove(d)

Spec == Init /\ [][Next]_vars
=============================================================================
