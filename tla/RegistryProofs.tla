--------------------------- MODULE RegistryProofs ---------------------------
(***************************************************************************)
(* Proofs about the blob store (BlobStore) and about the rows and the      *)
(* collector over it (Registry), for any number of calls, paths, bodies    *)
(* and collections: what a digest key holds and that the store implements  *)
(* ContentStore; that Registry uses it only through its operations; and    *)
(* that no row dangles while the collector and the uploads are kept apart. *)
(***************************************************************************)
EXTENDS Registry, TLAPS, FiniteSetTheorems, WellFoundedInduction

-----------------------------------------------------------------------------
(***************************************************************************)
(* The blob store: what a digest key holds, what calls leave behind, and   *)
(* that the layer implements ContentStore.                                 *)
(*                                                                         *)
(* The inductive invariant. ContentIntegrity rests on what is copied to a  *)
(* digest key, the upload of the call, being the body whose digest was     *)
(* computed; NoLeftovers rests on where each of a call's files can be.     *)
(***************************************************************************)
Begun == \A c \in Calls : pc[c] # "idle" => body[c] \in Bodies

UploadIsBody ==
  \A c \in Calls :
    pc[c] \in {"received", "hit", "copying", "linked"} => file[UploadKey(c)] = body[c]

NoUploadYet ==
  \A c \in Calls : pc[c] = "receiving" => ~Exists(UploadKey(c))

OneTmpAtMost ==
  \A c \in Calls :
    /\ pc[c] \in {"received", "hit", "copying", "linked"} => ~Exists(UploadTmp(c))
    /\ pc[c] \in {"receiving", "received", "hit", "linked"} => ~Exists(BlobTmp(c))

StoreInv ==
  /\ StoreTypeOK
  /\ ContentIntegrity
  /\ NoLeftovers
  /\ Begun
  /\ UploadIsBody
  /\ NoUploadYet
  /\ OneTmpAtMost

-----------------------------------------------------------------------------
(* Keys: which are keys, and that no two of them coincide. *)

LEMMA KeyFacts ==
  /\ \A c \in Calls : UploadKey(c) \in Keys /\ UploadTmp(c) \in Keys /\ BlobTmp(c) \in Keys
  /\ \A d \in Digests : BlobKey(d) \in Keys
  /\ \A c, e \in Calls :
       /\ UploadKey(c) = UploadKey(e) => c = e
       /\ UploadTmp(c) = UploadTmp(e) => c = e
       /\ BlobTmp(c) = BlobTmp(e) => c = e
       /\ UploadKey(c) # UploadTmp(e)
       /\ UploadKey(c) # BlobTmp(e)
       /\ UploadTmp(c) # BlobTmp(e)
  /\ \A c \in Calls, d \in Digests :
       /\ UploadKey(c) # BlobKey(d)
       /\ UploadTmp(c) # BlobKey(d)
       /\ BlobTmp(c) # BlobKey(d)
  /\ \A d, e \in Digests : BlobKey(d) = BlobKey(e) => d = e
  BY DEF Keys, UploadKeys, BlobTmps, BlobKeys, UploadKey, UploadTmp, BlobTmp, BlobKey

LEMMA DigestType ==
  ASSUME StoreTypeOK, Begun, NEW c \in Calls, pc[c] # "idle"
  PROVE  body[c] \in Bodies /\ Digest(c) \in Digests /\ FinalKey(c) \in Keys
  BY HashAssumption, KeyFacts DEF StoreTypeOK, Begun, Digest, FinalKey

LEMMA StoreInitInv == StoreInit => StoreInv
  <1> SUFFICES ASSUME StoreInit PROVE StoreInv
    OBVIOUS
  <1> USE KeyFacts, MarkerAssumption DEF StoreInit
  <1>1. StoreTypeOK
    BY DEF StoreTypeOK, Content
  <1>2. ContentIntegrity /\ NoLeftovers
    BY DEF ContentIntegrity, NoLeftovers, Exists
  <1>3. Begun /\ UploadIsBody /\ NoUploadYet /\ OneTmpAtMost
    BY DEF Begun, UploadIsBody, NoUploadYet, OneTmpAtMost
  <1> QED BY <1>1, <1>2, <1>3 DEF StoreInv

-----------------------------------------------------------------------------
(* Each step preserves the invariant. *)

LEMMA StoreNextInv == StoreInv /\ [StoreNext]_storeVars => StoreInv'
  <1> SUFFICES ASSUME StoreInv, [StoreNext]_storeVars PROVE StoreInv'
    OBVIOUS
  <1> USE KeyFacts, MarkerAssumption DEF StoreInv, StoreTypeOK, Content, InFlight, Exists
  <1>1. ASSUME NEW c \in Calls, NEW b \in Bodies, PutBegin(c, b) PROVE StoreInv'
    <2>1. StoreTypeOK'
      BY <1>1 DEF PutBegin, Goto, CreateTmp
    <2>2. ContentIntegrity'
      BY <1>1 DEF PutBegin, Goto, CreateTmp, ContentIntegrity
    <2>3. NoLeftovers'
      BY <1>1 DEF PutBegin, Goto, CreateTmp, NoLeftovers
    <2>4. Begun'
      BY <1>1 DEF PutBegin, Goto, CreateTmp, Begun
    <2>5. UploadIsBody'
      BY <1>1 DEF PutBegin, Goto, CreateTmp, UploadIsBody
    <2>6. NoUploadYet'
      BY <1>1 DEF PutBegin, Goto, CreateTmp, NoUploadYet, NoLeftovers
    <2>7. OneTmpAtMost'
      BY <1>1 DEF PutBegin, Goto, CreateTmp, OneTmpAtMost, NoLeftovers
    <2> QED BY <2>1, <2>2, <2>3, <2>4, <2>5, <2>6, <2>7
  <1>2. ASSUME NEW c \in Calls, PutRefused(c) PROVE StoreInv'
    <2>1. StoreTypeOK'
      BY <1>2 DEF PutRefused, Goto, DropOwn, RemoveFails, Remove
    <2>2. ContentIntegrity'
      BY <1>2 DEF PutRefused, Goto, DropOwn, RemoveFails, Remove, ContentIntegrity
    <2>3. NoLeftovers'
      BY <1>2 DEF PutRefused, Goto, DropOwn, RemoveFails, Remove, NoLeftovers, NoUploadYet, OneTmpAtMost
    <2>4. Begun'
      BY <1>2 DEF PutRefused, Goto, DropOwn, RemoveFails, Remove, Begun
    <2>5. UploadIsBody'
      BY <1>2 DEF PutRefused, Goto, DropOwn, RemoveFails, Remove, UploadIsBody
    <2>6. NoUploadYet'
      BY <1>2 DEF PutRefused, Goto, DropOwn, RemoveFails, Remove, NoUploadYet
    <2>7. OneTmpAtMost'
      BY <1>2 DEF PutRefused, Goto, DropOwn, RemoveFails, Remove, OneTmpAtMost
    <2> QED BY <2>1, <2>2, <2>3, <2>4, <2>5, <2>6, <2>7
  <1>3. ASSUME NEW c \in Calls, PutReceived(c) PROVE StoreInv'
    <2>1. StoreTypeOK'
      BY <1>3 DEF PutReceived, Goto, Rename
    <2>2. ContentIntegrity'
      BY <1>3 DEF PutReceived, Goto, Rename, ContentIntegrity
    <2>3. NoLeftovers'
      BY <1>3 DEF PutReceived, Goto, Rename, NoLeftovers
    <2>4. Begun'
      BY <1>3 DEF PutReceived, Goto, Rename, Begun
    <2>5. UploadIsBody'
      BY <1>3 DEF PutReceived, Goto, Rename, UploadIsBody
    <2>6. NoUploadYet'
      BY <1>3 DEF PutReceived, Goto, Rename, NoUploadYet
    <2>7. OneTmpAtMost'
      BY <1>3 DEF PutReceived, Goto, Rename, OneTmpAtMost
    <2> QED BY <2>1, <2>2, <2>3, <2>4, <2>5, <2>6, <2>7
  <1>4. ASSUME NEW c \in Calls, PutHit(c) PROVE StoreInv'
    <2>1. StoreTypeOK'
      BY <1>4 DEF PutHit, Goto, FinalKey, Digest
    <2>2. ContentIntegrity'
      BY <1>4 DEF PutHit, Goto, FinalKey, Digest, ContentIntegrity
    <2>3. NoLeftovers'
      BY <1>4 DEF PutHit, Goto, FinalKey, Digest, NoLeftovers
    <2>4. Begun'
      BY <1>4 DEF PutHit, Goto, FinalKey, Digest, Begun
    <2>5. UploadIsBody'
      BY <1>4 DEF PutHit, Goto, FinalKey, Digest, UploadIsBody
    <2>6. NoUploadYet'
      BY <1>4 DEF PutHit, Goto, FinalKey, Digest, NoUploadYet
    <2>7. OneTmpAtMost'
      BY <1>4 DEF PutHit, Goto, FinalKey, Digest, OneTmpAtMost
    <2> QED BY <2>1, <2>2, <2>3, <2>4, <2>5, <2>6, <2>7
  <1>5. ASSUME NEW c \in Calls, PutMiss(c) PROVE StoreInv'
    <2>1. StoreTypeOK'
      BY <1>5 DEF PutMiss, Goto, CreateTmp, FinalKey, Digest
    <2>2. ContentIntegrity'
      BY <1>5 DEF PutMiss, Goto, CreateTmp, FinalKey, Digest, ContentIntegrity
    <2>3. NoLeftovers'
      BY <1>5 DEF PutMiss, Goto, CreateTmp, FinalKey, Digest, NoLeftovers
    <2>4. Begun'
      BY <1>5 DEF PutMiss, Goto, CreateTmp, FinalKey, Digest, Begun
    <2>5. UploadIsBody'
      BY <1>5 DEF PutMiss, Goto, CreateTmp, FinalKey, Digest, UploadIsBody
    <2>6. NoUploadYet'
      BY <1>5 DEF PutMiss, Goto, CreateTmp, FinalKey, Digest, NoUploadYet
    <2>7. OneTmpAtMost'
      BY <1>5 DEF PutMiss, Goto, CreateTmp, FinalKey, Digest, OneTmpAtMost
    <2> QED BY <2>1, <2>2, <2>3, <2>4, <2>5, <2>6, <2>7
  <1>6. ASSUME NEW c \in Calls, PutLink(c) PROVE StoreInv'
    <2> DEFINE up == UploadKey(c)
               tmp == BlobTmp(c)
               dst == FinalKey(c)
    <2>1. /\ pc[c] = "copying" /\ pc' = [pc EXCEPT ![c] = "linked"]
          /\ file' = [file EXCEPT ![tmp] = Absent, ![dst] = file[up]]
          /\ body' = body /\ stuck' = stuck
      BY <1>6 DEF PutLink, Goto, Rename
    <2>2. /\ body[c] \in Bodies /\ Digest(c) \in Digests
          /\ dst \in Keys /\ dst = BlobKey(Digest(c))
          /\ file[up] = body[c]
          /\ Sha[body[c]] = Digest(c)
      BY <2>1, DigestType DEF UploadIsBody, FinalKey, Digest
    <2>3. StoreTypeOK'
      BY <2>1, <2>2
    <2>4. ASSUME NEW d \in Digests
          PROVE  file'[BlobKey(d)] = IF d = Digest(c) THEN body[c] ELSE file[BlobKey(d)]
      BY <2>1, <2>2
    <2>5. ContentIntegrity'
      BY <2>2, <2>4 DEF ContentIntegrity
    <2>6. /\ \A e \in Calls : /\ file'[UploadKey(e)] = file[UploadKey(e)]
                              /\ file'[UploadTmp(e)] = file[UploadTmp(e)]
                              /\ e # c => file'[BlobTmp(e)] = file[BlobTmp(e)]
          /\ ~Exists(tmp)'
      BY <2>1, <2>2
    <2>7. NoLeftovers' /\ Begun'
      BY <2>1, <2>2, <2>6 DEF NoLeftovers, Begun
    <2>8. UploadIsBody' /\ NoUploadYet' /\ OneTmpAtMost'
      BY <2>1, <2>2, <2>6 DEF UploadIsBody, NoUploadYet, OneTmpAtMost
    <2> QED BY <2>3, <2>5, <2>7, <2>8
  <1>7. ASSUME NEW c \in Calls, PutCopyFails(c) PROVE StoreInv'
    <2>1. StoreTypeOK'
      BY <1>7 DEF PutCopyFails, Goto, DropOwn, RemoveFails, Remove
    <2>2. ContentIntegrity'
      BY <1>7 DEF PutCopyFails, Goto, DropOwn, RemoveFails, Remove, ContentIntegrity
    <2>3. NoLeftovers'
      BY <1>7 DEF PutCopyFails, Goto, DropOwn, RemoveFails, Remove, NoLeftovers, OneTmpAtMost
    <2>4. Begun'
      BY <1>7 DEF PutCopyFails, Goto, DropOwn, RemoveFails, Remove, Begun
    <2>5. UploadIsBody'
      BY <1>7 DEF PutCopyFails, Goto, DropOwn, RemoveFails, Remove, UploadIsBody
    <2>6. NoUploadYet'
      BY <1>7 DEF PutCopyFails, Goto, DropOwn, RemoveFails, Remove, NoUploadYet
    <2>7. OneTmpAtMost'
      BY <1>7 DEF PutCopyFails, Goto, DropOwn, RemoveFails, Remove, OneTmpAtMost
    <2> QED BY <2>1, <2>2, <2>3, <2>4, <2>5, <2>6, <2>7
  <1>8. ASSUME NEW c \in Calls, PutReturn(c) PROVE StoreInv'
    <2>1. StoreTypeOK'
      BY <1>8 DEF PutReturn, Goto, DropOwn, RemoveFails, Remove
    <2>2. ContentIntegrity'
      BY <1>8 DEF PutReturn, Goto, DropOwn, RemoveFails, Remove, ContentIntegrity
    <2>3. NoLeftovers'
      BY <1>8 DEF PutReturn, Goto, DropOwn, RemoveFails, Remove, NoLeftovers, OneTmpAtMost
    <2>4. Begun'
      BY <1>8 DEF PutReturn, Goto, DropOwn, RemoveFails, Remove, Begun
    <2>5. UploadIsBody'
      BY <1>8 DEF PutReturn, Goto, DropOwn, RemoveFails, Remove, UploadIsBody
    <2>6. NoUploadYet'
      BY <1>8 DEF PutReturn, Goto, DropOwn, RemoveFails, Remove, NoUploadYet
    <2>7. OneTmpAtMost'
      BY <1>8 DEF PutReturn, Goto, DropOwn, RemoveFails, Remove, OneTmpAtMost
    <2> QED BY <2>1, <2>2, <2>3, <2>4, <2>5, <2>6, <2>7
  <1>9. ASSUME NEW c \in Calls, SweepTmp(c) PROVE StoreInv'
    <2>1. StoreTypeOK'
      BY <1>9 DEF SweepTmp, Remove
    <2>2. ContentIntegrity'
      BY <1>9 DEF SweepTmp, Remove, ContentIntegrity
    <2>3. NoLeftovers'
      BY <1>9 DEF SweepTmp, Remove, NoLeftovers
    <2>4. Begun'
      BY <1>9 DEF SweepTmp, Remove, Begun
    <2>5. UploadIsBody'
      BY <1>9 DEF SweepTmp, Remove, UploadIsBody
    <2>6. NoUploadYet'
      BY <1>9 DEF SweepTmp, Remove, NoUploadYet
    <2>7. OneTmpAtMost'
      BY <1>9 DEF SweepTmp, Remove, OneTmpAtMost
    <2> QED BY <2>1, <2>2, <2>3, <2>4, <2>5, <2>6, <2>7
  <1>10. CASE Crash
    <2>1. StoreTypeOK'
      BY <1>10 DEF Crash
    <2>2. ContentIntegrity'
      BY <1>10 DEF Crash, ContentIntegrity
    <2>3. NoLeftovers'
      BY <1>10 DEF Crash, NoLeftovers
    <2>4. Begun'
      BY <1>10 DEF Crash, Begun
    <2>5. UploadIsBody'
      BY <1>10 DEF Crash, UploadIsBody
    <2>6. NoUploadYet'
      BY <1>10 DEF Crash, NoUploadYet
    <2>7. OneTmpAtMost'
      BY <1>10 DEF Crash, OneTmpAtMost
    <2> QED BY <2>1, <2>2, <2>3, <2>4, <2>5, <2>6, <2>7
  <1>11. ASSUME NEW d \in Digests, DeleteBlob(d) PROVE StoreInv'
    <2>1. StoreTypeOK'
      BY <1>11 DEF DeleteBlob, Remove
    <2>2. ContentIntegrity'
      BY <1>11 DEF DeleteBlob, Remove, ContentIntegrity
    <2>3. NoLeftovers'
      BY <1>11 DEF DeleteBlob, Remove, NoLeftovers
    <2>4. Begun'
      BY <1>11 DEF DeleteBlob, Remove, Begun
    <2>5. UploadIsBody'
      BY <1>11 DEF DeleteBlob, Remove, UploadIsBody
    <2>6. NoUploadYet'
      BY <1>11 DEF DeleteBlob, Remove, NoUploadYet
    <2>7. OneTmpAtMost'
      BY <1>11 DEF DeleteBlob, Remove, OneTmpAtMost
    <2> QED BY <2>1, <2>2, <2>3, <2>4, <2>5, <2>6, <2>7
  <1>12. CASE UNCHANGED storeVars
    <2>1. StoreTypeOK'
      BY <1>12 DEF storeVars
    <2>2. ContentIntegrity'
      BY <1>12 DEF storeVars, ContentIntegrity
    <2>3. NoLeftovers'
      BY <1>12 DEF storeVars, NoLeftovers
    <2>4. Begun'
      BY <1>12 DEF storeVars, Begun
    <2>5. UploadIsBody'
      BY <1>12 DEF storeVars, UploadIsBody
    <2>6. NoUploadYet'
      BY <1>12 DEF storeVars, NoUploadYet
    <2>7. OneTmpAtMost'
      BY <1>12 DEF storeVars, OneTmpAtMost
    <2> QED BY <2>1, <2>2, <2>3, <2>4, <2>5, <2>6, <2>7
  <1> QED
    BY <1>1, <1>2, <1>3, <1>4, <1>5, <1>6, <1>7, <1>8, <1>9, <1>10, <1>11, <1>12 DEF StoreNext, PutStep, PutError

-----------------------------------------------------------------------------

LEMMA StoreInvariance == StoreSpec => []StoreInv
  BY StoreInitInv, StoreNextInv, PTL DEF StoreSpec

\* The variables keep their types.
THEOREM StoreTypeCorrect == StoreSpec => []StoreTypeOK
  <1>1. StoreInv => StoreTypeOK
    BY DEF StoreInv
  <1> QED BY <1>1, StoreInvariance, PTL

\* Whatever calls, deletions and crashes interleave, a file under a digest key
\* is the whole body of that digest.
THEOREM StoreContentIntegrity == StoreSpec => []ContentIntegrity
  <1>1. StoreInv => ContentIntegrity
    BY DEF StoreInv
  <1> QED BY <1>1, StoreInvariance, PTL

\* A call that has answered has left no file but one whose deletion failed, or
\* the upload of a late error (cas.go:53-77, fs.go:86-99).
THEOREM StoreNoLeftovers == StoreSpec => []NoLeftovers
  <1>1. StoreInv => NoLeftovers
    BY DEF StoreInv
  <1> QED BY <1>1, StoreInvariance, PTL

-----------------------------------------------------------------------------
(* The refinement: which abstract step each file operation is. *)

LEMMA PromiseInit == StoreInit => Promise!Init
  BY KeyFacts DEF StoreInit, Promise!Init, PhaseOf

LEMMA PhaseValues ==
  /\ PhaseOf("idle") = "idle"
  /\ PhaseOf("receiving") = "open"
  /\ PhaseOf("received") = "open"
  /\ PhaseOf("copying") = "open"
  /\ PhaseOf("hit") = "committed"
  /\ PhaseOf("linked") = "committed"
  /\ PhaseOf("stored") = "returned"
  /\ PhaseOf("refused") = "aborted"
  /\ PhaseOf("failed") = "aborted"
  /\ PhaseOf("crashed") = "aborted"
  BY DEF PhaseOf

\* A call that moves takes its phase along.
LEMMA PhaseMoves ==
  ASSUME StoreTypeOK, NEW c \in Calls, NEW from, NEW to, Goto(c, from, to)
  PROVE  /\ PhaseOf(pc[c]) = PhaseOf(from)
         /\ PhaseOf(pc'[c]) = PhaseOf(to)
         /\ \A e \in Calls \ {c} : PhaseOf(pc'[e]) = PhaseOf(pc[e])
  BY DEF Goto, StoreTypeOK

LEMMA PromiseStep ==
  StoreInv /\ [StoreNext]_storeVars => [Promise!Next]_(Promise!vars)
  <1> SUFFICES ASSUME StoreInv, [StoreNext]_storeVars
               PROVE  [Promise!Next]_(Promise!vars)
    OBVIOUS
  <1> USE DEF StoreInv
  <1> DEFINE store == [d \in Digests |-> file[BlobKey(d)]]
             phase == [c \in Calls |-> PhaseOf(pc[c])]
  <1>1. ASSUME NEW c \in Calls, NEW b \in Bodies, PutBegin(c, b)
        PROVE  Promise!Invoke(c, b)
    <2>1. store' = store
      BY <1>1, KeyFacts DEF PutBegin, CreateTmp, StoreTypeOK
    <2>2. Goto(c, "idle", "receiving")
      BY <1>1 DEF PutBegin
    <2>3. /\ PhaseOf(pc[c]) = "idle" /\ PhaseOf(pc'[c]) = "open"
          /\ \A e \in Calls \ {c} : PhaseOf(pc'[e]) = PhaseOf(pc[e])
      BY <2>2, PhaseMoves, PhaseValues
    <2>4. phase[c] = "idle" /\ phase' = [phase EXCEPT ![c] = "open"]
      BY <2>3
    <2> QED BY <1>1, <2>1, <2>4 DEF Promise!Invoke, PutBegin
  <1>2. ASSUME NEW c \in Calls, PutRefused(c)
        PROVE  Promise!Abort({c})
    <2>1. store' = store
      BY <1>2, KeyFacts DEF PutRefused, DropOwn, RemoveFails, Remove, Goto, StoreTypeOK
    <2>2. /\ phase[c] \in {"open", "committed"}
          /\ phase' = [e \in Calls |-> IF e \in {c} THEN "aborted" ELSE phase[e]]
      BY <1>2, PhaseMoves, PhaseValues DEF PutRefused
    <2> QED BY <1>2, <2>1, <2>2 DEF Promise!Abort, PutRefused
  <1>3. ASSUME NEW c \in Calls, PutReceived(c)
        PROVE  UNCHANGED Promise!vars
    <2>1. store' = store
      BY <1>3, KeyFacts DEF PutReceived, Rename, Goto, StoreTypeOK
    <2>2. phase' = phase
      BY <1>3, PhaseMoves, PhaseValues DEF PutReceived
    <2> QED BY <1>3, <2>1, <2>2 DEF Promise!vars, PutReceived
  <1>4. ASSUME NEW c \in Calls, PutHit(c)
        PROVE  Promise!Commit(c)
    <2>1. /\ pc[c] = "received" /\ pc' = [pc EXCEPT ![c] = "hit"]
          /\ Exists(FinalKey(c)) /\ file' = file /\ body' = body
      BY <1>4 DEF PutHit, Goto
    <2>2. body[c] \in Bodies /\ Digest(c) \in Digests
      BY <2>1, DigestType
    \* What Stat finds is this very body, by integrity and collision freedom.
    <2>3. file[FinalKey(c)] = body[c]
      BY <2>1, <2>2, HashAssumption DEF ContentIntegrity, Digest, FinalKey
    <2>4. store' = [store EXCEPT ![Sha[body[c]]] = body[c]]
      BY <2>1, <2>2, <2>3 DEF Digest, FinalKey
    <2>5. Goto(c, "received", "hit")
      BY <2>1 DEF Goto
    <2>6. /\ PhaseOf(pc[c]) = "open" /\ PhaseOf(pc'[c]) = "committed"
          /\ \A e \in Calls \ {c} : PhaseOf(pc'[e]) = PhaseOf(pc[e])
      BY <2>5, PhaseMoves, PhaseValues
    <2>7. phase[c] = "open" /\ phase' = [phase EXCEPT ![c] = "committed"]
      BY <2>6
    <2> QED BY <2>1, <2>4, <2>7 DEF Promise!Commit
  <1>5. ASSUME NEW c \in Calls, PutMiss(c)
        PROVE  UNCHANGED Promise!vars
    <2>1. store' = store
      BY <1>5, KeyFacts DEF PutMiss, CreateTmp, Goto, StoreTypeOK
    <2>2. phase' = phase
      BY <1>5, PhaseMoves, PhaseValues DEF PutMiss
    <2> QED BY <1>5, <2>1, <2>2 DEF Promise!vars, PutMiss
  <1>6. ASSUME NEW c \in Calls, PutLink(c)
        PROVE  Promise!Commit(c)
    <2>1. /\ pc[c] = "copying" /\ pc' = [pc EXCEPT ![c] = "linked"]
          /\ file' = [file EXCEPT ![BlobTmp(c)] = Absent,
                                  ![FinalKey(c)] = file[UploadKey(c)]]
          /\ body' = body
      BY <1>6 DEF PutLink, Goto, Rename
    <2>2. body[c] \in Bodies /\ Digest(c) \in Digests
      BY <2>1, DigestType
    <2>3. file[UploadKey(c)] = body[c]
      BY <2>1 DEF UploadIsBody
    <2>4. store' = [store EXCEPT ![Sha[body[c]]] = body[c]]
      BY <2>1, <2>2, <2>3, KeyFacts DEF Digest, FinalKey, StoreTypeOK
    <2>5. Goto(c, "copying", "linked")
      BY <2>1 DEF Goto
    <2>6. /\ PhaseOf(pc[c]) = "open" /\ PhaseOf(pc'[c]) = "committed"
          /\ \A e \in Calls \ {c} : PhaseOf(pc'[e]) = PhaseOf(pc[e])
      BY <2>5, PhaseMoves, PhaseValues
    <2>7. phase[c] = "open" /\ phase' = [phase EXCEPT ![c] = "committed"]
      BY <2>6
    <2> QED BY <2>1, <2>4, <2>7 DEF Promise!Commit
  <1>7. ASSUME NEW c \in Calls, PutCopyFails(c)
        PROVE  Promise!Abort({c})
    <2>1. store' = store
      BY <1>7, KeyFacts DEF PutCopyFails, DropOwn, RemoveFails, Remove, Goto, StoreTypeOK
    <2>2. /\ phase[c] \in {"open", "committed"}
          /\ phase' = [e \in Calls |-> IF e \in {c} THEN "aborted" ELSE phase[e]]
      BY <1>7, PhaseMoves, PhaseValues DEF PutCopyFails
    <2> QED BY <1>7, <2>1, <2>2 DEF Promise!Abort, PutCopyFails
  <1>8. ASSUME NEW c \in Calls, PutReturn(c)
        PROVE  Promise!Return(c)
    <2>1. store' = store
      BY <1>8, KeyFacts DEF PutReturn, DropOwn, RemoveFails, Remove, Goto, StoreTypeOK
    <2>2. Goto(c, "hit", "stored") \/ Goto(c, "linked", "stored")
      BY <1>8 DEF PutReturn
    <2>3. /\ PhaseOf(pc[c]) = "committed" /\ PhaseOf(pc'[c]) = "returned"
          /\ \A e \in Calls \ {c} : PhaseOf(pc'[e]) = PhaseOf(pc[e])
      BY <2>2, PhaseMoves, PhaseValues
    <2>4. phase[c] = "committed" /\ phase' = [phase EXCEPT ![c] = "returned"]
      BY <2>3
    <2> QED BY <1>8, <2>1, <2>4 DEF Promise!Return, PutReturn
  <1>9. ASSUME NEW c \in Calls, SweepTmp(c)
        PROVE  UNCHANGED Promise!vars
    <2>1. store' = store
      BY <1>9, KeyFacts DEF SweepTmp, Remove, StoreTypeOK
    <2> QED BY <1>9, <2>1 DEF Promise!vars, SweepTmp
  <1>10. CASE Crash
    <2> DEFINE lost == {c \in Calls : pc[c] \in InFlight}
    <2>1. \A c \in lost : phase[c] \in {"open", "committed"}
      BY PhaseValues DEF InFlight
    <2>2. phase' = [c \in Calls |-> IF c \in lost THEN "aborted" ELSE phase[c]]
      BY <1>10, PhaseValues DEF Crash, StoreTypeOK, InFlight
    <2>3. Promise!Abort(lost)
      BY <1>10, <2>1, <2>2 DEF Promise!Abort, Crash
    <2>4. lost \in SUBSET Calls
      OBVIOUS
    <2> QED BY <2>3, <2>4 DEF Promise!Next
  <1>11. ASSUME NEW d \in Digests, DeleteBlob(d)
         PROVE  Promise!Remove(d)
    <2>1. store' = [store EXCEPT ![d] = Absent]
      BY <1>11, KeyFacts DEF DeleteBlob, Remove, StoreTypeOK
    <2> QED BY <1>11, <2>1 DEF Promise!Remove, DeleteBlob
  <1>12. CASE UNCHANGED storeVars
    BY <1>12 DEF storeVars, Promise!vars
  <1>13. \A c \in Calls : {c} \in SUBSET Calls
    OBVIOUS
  <1> QED
    BY <1>1, <1>2, <1>3, <1>4, <1>5, <1>6, <1>7, <1>8, <1>9, <1>10, <1>11, <1>12, <1>13
       DEF StoreNext, PutStep, PutError, Promise!Next

\* The two layers implement the abstract content store: a Put takes effect at
\* one instant between its call and its return, and only then may it return.
THEOREM StoreImplementsContentStore == StoreSpec => ImplementsContentStore
  BY PromiseInit, PromiseStep, StoreInvariance, PTL
     DEF StoreSpec, ImplementsContentStore, Promise!Spec

-----------------------------------------------------------------------------
(* Registry: rows, the server and the collector over the store. *)

\* Every step of the server or of the collector is a step of the blob store
\* or leaves it alone.
LEMMA StepUsesStore ==
  ASSUME StoreInv, TypeOK, [Next]_vars
  PROVE  [StoreNext]_storeVars
  <1>1. ASSUME NEW c \in Calls, NEW p \in Paths, NEW b \in Bodies, UploadBegin(c, p, b)
        PROVE  StoreNext
    BY <1>1 DEF UploadBegin, StoreNext
  <1>2. ASSUME NEW c \in Calls, UploadStep(c) PROVE StoreNext
    BY <1>2 DEF UploadStep, StoreNext
  <1>3. CASE ServerCrash
    <2>1. CASE \E c \in Calls : pc[c] \in InFlight
      BY <1>3, <2>1 DEF ServerCrash, Crash, StoreNext
    <2>2. CASE ~ \E c \in Calls : pc[c] \in InFlight
      BY <1>3, <2>2 DEF ServerCrash, storeVars, TypeOK, StoreTypeOK
    <2> QED BY <2>1, <2>2
  <1>12. ASSUME NEW k \in Keys, GcSweepFails(k) PROVE UNCHANGED storeVars
    BY <1>12 DEF GcSweepFails, RemoveFails, storeVars
  <1>4. ASSUME NEW k \in Keys, GcSweep(k) PROVE [StoreNext]_storeVars
    <2>1. CASE Orphan(k) /\ ~gc.dry
      <3>1. Remove(k) /\ UNCHANGED <<pc, body, stuck>>
        BY <1>4, <2>1 DEF GcSweep
      <3>2. CASE k \in BlobTmps
        BY <3>1, <3>2 DEF BlobTmps, SweepTmp, StoreNext
      <3>3. CASE \E d \in Digests \ gc.refs : k = BlobKey(d)
        BY <3>1, <3>3 DEF DeleteBlob, StoreNext
      <3> QED BY <2>1, <3>2, <3>3 DEF Orphan
    <2>2. CASE ~(Orphan(k) /\ ~gc.dry)
      BY <1>4, <2>2 DEF GcSweep, storeVars
    <2> QED BY <2>1, <2>2
  <1>5. CASE UNCHANGED storeVars
    BY <1>5
  <1>6. ASSUME NEW c \in Calls,
               \/ UploadRecord(c) \/ UploadRecordFails(c)
               \/ \E d \in Digests : FetchMisstated(c, d)
        PROVE  UNCHANGED storeVars
    BY <1>6 DEF UploadRecord, UploadRecordFails, FetchMisstated
  <1>11. ASSUME NEW c \in Calls, FetchMismatch(c) PROVE [StoreNext]_storeVars
    <2>1. Digest(c) \in Digests
      BY <1>11, DigestType DEF FetchMismatch, StoreInv
    <2> QED BY <1>11, <2>1 DEF FetchMismatch, StoreNext
  <1>7. ASSUME NEW p \in Paths, DeleteArtifact(p) PROVE UNCHANGED storeVars
    BY <1>7 DEF DeleteArtifact
  <1>8. ASSUME NEW r \in Readers,
               (\E p \in Paths : PullResolve(r, p)) \/ PullServe(r) \/ PullMissing(r)
        PROVE  UNCHANGED storeVars
    BY <1>8 DEF PullResolve, PullServe, PullMissing
  <1>9. CASE \/ \E dry \in BOOLEAN : GcSnapshot(dry)
             \/ GcList \/ GcNextPage \/ GcFinish \/ GcAbort
    BY <1>9 DEF GcSnapshot, GcList, GcNextPage, GcFinish, GcAbort
  <1>10. CASE UNCHANGED vars
    BY <1>10 DEF vars
  <1> QED
    BY <1>1, <1>2, <1>3, <1>4, <1>5, <1>6, <1>7, <1>8, <1>9, <1>10, <1>11, <1>12
       DEF Next, ServerNext, GcNext, GcStep

-----------------------------------------------------------------------------
(* Type correctness. *)

LEMMA InitTypeOK == Init => TypeOK
  <1> SUFFICES ASSUME Init PROVE TypeOK
    OBVIOUS
  <1>1. StoreTypeOK
    BY StoreInitInv DEF Init, StoreInv
  <1>2. NoPull \in [pc: {"idle", "resolved"},
                    path: Paths \cup {NoRow}, digest: Digests \cup {NoRow}]
    BY DEF NoPull
  <1>3. NoRun \in [pc: {"off", "list", "sweep"}, dry: BOOLEAN, refs: SUBSET Digests,
                   page: SUBSET Keys, token: Nat, warned: SUBSET Keys]
    BY DEF NoRun
  <1> QED BY <1>1, <1>2, <1>3 DEF Init, TypeOK

-----------------------------------------------------------------------------
(* The listing: a page is an initial part of what follows its token, and the  *)
(* next token separates it from the rest.                                     *)

LEMMA LeastNat ==
  ASSUME NEW S \in SUBSET Nat, S # {}
  PROVE  \E n \in S : \A m \in S : n <= m
  <1> DEFINE R == OpToRel(<, Nat)
  <1>1. IsWellFoundedOn(R, Nat)
    BY NatLessThanWellFounded
  <1>2. \E n \in S : \A m \in S : ~ (<<m, n>> \in R)
    <2> HIDE DEF R
    <2> QED BY <1>1, WFMin
  <1>3. \A m, n \in Nat : <<m, n>> \in R <=> m < n
    BY DEF OpToRel
  <1>4. \E n \in S : \A m \in S : ~ (m < n)
    <2> HIDE DEF R
    <2> QED BY <1>2, <1>3, Zenon
  <1> QED BY <1>4

LEMMA GreatestNat ==
  ASSUME NEW S \in SUBSET Nat, S # {}, NEW b \in Nat, \A n \in S : n <= b
  PROVE  \E n \in S : \A m \in S : m <= n
  <1> DEFINE U == {u \in Nat : \A n \in S : n <= u}
  <1>1. PICK u \in U : \A v \in U : u <= v
    <2>1. U \in SUBSET Nat /\ b \in U
      OBVIOUS
    <2> HIDE DEF U
    <2> QED BY <2>1, LeastNat
  <1>2. u \in S
    <2> SUFFICES ASSUME u \notin S PROVE FALSE
      OBVIOUS
    <2>1. \A n \in S : n < u
      BY <1>1
    <2>2. PICK n \in S : n < u
      BY <2>1
    <2>3. u \in Nat /\ u - 1 \in Nat
      BY <1>1, <2>2
    <2>4. \A m \in S : m <= u - 1
      BY <1>1, <2>1
    <2> QED BY <1>1, <2>3, <2>4
  <1> QED BY <1>1, <1>2

LEMMA BeforeFinite ==
  ASSUME NEW S \in SUBSET Keys, NEW k \in Keys
  PROVE  IsFiniteSet(Before(k, S)) /\ Cardinality(Before(k, S)) \in Nat
  <1> DEFINE f == [j \in Before(k, S) |-> KeyPos[j]]
  <1>1. KeyPos[k] \in Nat /\ IsFiniteSet(0 .. KeyPos[k])
    BY ListAssumption, FS_Interval
  <1>2. f \in Injection(Before(k, S), 0 .. KeyPos[k])
    BY ListAssumption DEF Injection, IsInjective, Before
  <1>3. IsFiniteSet(Before(k, S))
    BY <1>1, <1>2, FS_Injection
  <1> QED BY <1>3, FS_CardinalityType

LEMMA PageIsInitial ==
  ASSUME NEW t \in Nat, NEW k \in Page(t), NEW j \in After(t), KeyPos[j] <= KeyPos[k]
  PROVE  j \in Page(t)
  <1> DEFINE A == After(t)
  <1>1. A \in SUBSET Keys /\ k \in Keys /\ j \in Keys
    BY DEF Page, After
  <1>2. Before(j, A) \in SUBSET Before(k, A)
    BY <1>1, ListAssumption DEF Before
  <1>3. Cardinality(Before(j, A)) <= Cardinality(Before(k, A))
    BY <1>1, <1>2, BeforeFinite, FS_Subset
  <1> QED BY <1>1, <1>3, BeforeFinite, ListAssumption DEF Page

LEMMA PageNonempty ==
  ASSUME NEW t \in Nat, After(t) # {}
  PROVE  Page(t) # {}
  <1> DEFINE A == After(t)
             P == {KeyPos[k] : k \in A}
  <1>1. A \in SUBSET Keys /\ P \in SUBSET Nat /\ P # {}
    BY ListAssumption DEF After
  <1>2. PICK k \in A : \A j \in A : KeyPos[k] <= KeyPos[j]
    <2>1. PICK n \in P : \A m \in P : n <= m
      <3> HIDE DEF P
      <3> QED BY <1>1, LeastNat
    <2> QED BY <2>1
  <1>3. Before(k, A) = {}
    BY <1>1, <1>2, ListAssumption DEF Before
  <1>4. Cardinality(Before(k, A)) < PageLimit
    BY <1>3, FS_EmptySet, ListAssumption
  <1> QED BY <1>4 DEF Page

\* What lies beyond a page lies beyond its next token too.
LEMMA NextTokenSeparates ==
  ASSUME NEW t \in Nat
  PROVE  /\ Page(t) \in SUBSET Keys
         /\ NextToken(t) \in Nat
         /\ \A x \in After(t) \ Page(t) : NextToken(t) # 0 /\ KeyPos[x] > NextToken(t)
  <1> DEFINE P == {KeyPos[k] : k \in Page(t)}
  <1>1. Page(t) \in SUBSET After(t) /\ After(t) \in SUBSET Keys
    BY DEF Page, After
  <1>2. CASE Page(t) = After(t)
    BY <1>1, <1>2 DEF NextToken
  <1>3. CASE Page(t) # After(t)
    <2>1. PICK x \in After(t) : x \notin Page(t)
      BY <1>1, <1>3
    <2>2. \A y \in After(t) \ Page(t), k \in Page(t) : KeyPos[k] < KeyPos[y]
      BY <1>1, PageIsInitial, ListAssumption
    <2>3. P \in SUBSET (Nat \ {0}) /\ P # {}
      BY <1>1, <2>1, PageNonempty, ListAssumption
    <2>4. KeyPos[x] \in Nat /\ \A n \in P : n <= KeyPos[x]
      BY <1>1, <2>1, <2>2, ListAssumption
    <2>5. \E n \in P : \A m \in P : m <= n
      <3> HIDE DEF P
      <3> QED BY <2>3, <2>4, GreatestNat
    <2>6. NextToken(t) = CHOOSE n \in P : \A k \in Page(t) : KeyPos[k] <= n
      BY <1>3 DEF NextToken
    <2>7. NextToken(t) \in P
      <3>1. \E n \in P : \A k \in Page(t) : KeyPos[k] <= n
        BY <2>5
      <3> HIDE DEF P
      <3> QED BY <2>6, <3>1
    <2>8. NextToken(t) \in Nat \ {0}
      <3> HIDE DEF P
      <3> QED BY <2>3, <2>7
    <2>9. \A y \in After(t) \ Page(t) : KeyPos[y] > NextToken(t)
      BY <1>1, <2>2, <2>7, ListAssumption
    <2> QED BY <1>1, <2>8, <2>9
  <1> QED BY <1>2, <1>3

-----------------------------------------------------------------------------
(* Type correctness of every step. *)

LEMMA NextTypeOK ==
  ASSUME StoreInv, TypeOK, [Next]_vars
  PROVE  TypeOK'
  <1> DEFINE PullType == [pc: {"idle", "resolved"},
                          path: Paths \cup {NoRow}, digest: Digests \cup {NoRow}]
             GcType == [pc: {"off", "list", "sweep"}, dry: BOOLEAN,
                        refs: SUBSET Digests, page: SUBSET Keys, token: Nat, warned: SUBSET Keys]
  <1>0. StoreTypeOK'
    BY StepUsesStore, StoreNextInv DEF StoreInv
  <1>1. ASSUME NEW c \in Calls, NEW p \in Paths, NEW b \in Bodies, UploadBegin(c, p, b)
        PROVE  TypeOK'
    BY <1>0, <1>1 DEF UploadBegin, TypeOK
  <1>2. ASSUME NEW c \in Calls, UploadStep(c) PROVE TypeOK'
    BY <1>0, <1>2 DEF UploadStep, serverVars, TypeOK
  <1>3. ASSUME NEW c \in Calls, UploadRecord(c) \/ UploadRecordFails(c) PROVE TypeOK'
    <2>1. pc[c] = "stored"
      BY <1>3 DEF UploadRecord, UploadRecordFails
    <2>2. Digest(c) \in Digests
      BY <2>1, DigestType DEF StoreInv
    <2> QED BY <1>0, <1>3, <2>2 DEF UploadRecord, UploadRecordFails, TypeOK
  <1>14. ASSUME NEW c \in Calls, FetchMismatch(c) PROVE TypeOK'
    BY <1>0, <1>14 DEF FetchMismatch, TypeOK
  <1>15. ASSUME NEW c \in Calls, NEW d \in Digests, FetchMisstated(c, d) PROVE TypeOK'
    BY <1>0, <1>15 DEF FetchMisstated, TypeOK
  <1>4. ASSUME NEW p \in Paths, DeleteArtifact(p) PROVE TypeOK'
    BY <1>0, <1>4 DEF DeleteArtifact, TypeOK
  <1>5. ASSUME NEW r \in Readers, NEW p \in Paths, PullResolve(r, p) PROVE TypeOK'
    <2>1. [pc |-> "resolved", path |-> p, digest |-> row[p]] \in PullType
      BY DEF TypeOK
    <2> QED BY <1>0, <1>5, <2>1 DEF PullResolve, TypeOK
  <1>6. ASSUME NEW r \in Readers, PullServe(r) \/ PullMissing(r) PROVE TypeOK'
    <2>1. NoPull \in PullType
      BY DEF NoPull
    <2> QED BY <1>0, <1>6, <2>1 DEF PullServe, PullMissing, TypeOK
  <1>7. CASE ServerCrash
    <2>1. NoPull \in PullType
      BY DEF NoPull
    <2> QED BY <1>0, <1>7, <2>1 DEF ServerCrash, Pending, TypeOK
  <1>8. ASSUME NEW dry \in BOOLEAN, GcSnapshot(dry) PROVE TypeOK'
    <2>1. Referenced \in SUBSET Digests
      BY DEF Referenced, TypeOK
    <2> QED BY <1>0, <1>8, <2>1 DEF GcSnapshot, NoRun, serverVars, TypeOK
  <1>9. CASE GcList
    <2>1. Page(gc.token) \in SUBSET Keys /\ NextToken(gc.token) \in Nat
      BY NextTokenSeparates DEF TypeOK
    <2> QED BY <1>0, <1>9, <2>1 DEF GcList, serverVars, TypeOK
  <1>10. ASSUME NEW k \in Keys, GcSweep(k) PROVE TypeOK'
    BY <1>0, <1>10 DEF GcSweep, serverVars, TypeOK
  <1>16. ASSUME NEW k \in Keys, GcSweepFails(k) PROVE TypeOK'
    BY <1>0, <1>16 DEF GcSweepFails, serverVars, TypeOK
  <1>11. CASE GcNextPage
    BY <1>0, <1>11 DEF GcNextPage, serverVars, TypeOK
  <1>12. CASE GcFinish \/ GcAbort
    <2>1. NoRun \in GcType
      BY DEF NoRun
    <2> QED BY <1>0, <1>12, <2>1 DEF GcFinish, GcAbort, serverVars, TypeOK
  <1>13. CASE UNCHANGED vars
    BY <1>0, <1>13 DEF vars, TypeOK
  <1> QED
    BY <1>1, <1>2, <1>3, <1>4, <1>5, <1>6, <1>7, <1>8, <1>9, <1>10, <1>11, <1>12, <1>13,
       <1>14, <1>15, <1>16
       DEF Next, ServerNext, GcNext, GcStep

LEMMA TypeInvariance == Spec => [](StoreInv /\ TypeOK)
  <1>1. Init => StoreInv /\ TypeOK
    BY InitTypeOK, StoreInitInv DEF Init
  <1>2. StoreInv /\ TypeOK /\ [Next]_vars => (StoreInv /\ TypeOK)'
    BY NextTypeOK, StepUsesStore, StoreNextInv
  <1> QED BY <1>1, <1>2, PTL DEF Spec

\* Every variable keeps its type.
THEOREM TypeCorrect == Spec => []TypeOK
  BY TypeInvariance, PTL

\* Whatever the server and the collector do, also at the same time, the blob
\* store sees only its own operations, so that what is proved of BlobStore holds
\* of the registry.
THEOREM RegistryUsesBlobStore == Spec => UsesBlobStore
  <1>1. Init => StoreInit
    BY DEF Init
  <1>2. StoreInv /\ TypeOK /\ [Next]_vars => [StoreNext]_storeVars
    BY StepUsesStore
  <1> QED BY <1>1, <1>2, TypeInvariance, PTL DEF Spec, UsesBlobStore, StoreSpec

\* Under the collector as under everything else, a digest key never holds
\* anything but the body of that digest.
THEOREM RegistryIntegrity == Spec => []ContentIntegrity
  BY RegistryUsesBlobStore, StoreContentIntegrity, PTL DEF UsesBlobStore

\* Nor does any step of the registry make a Put that is over leave a file that
\* it did not try to delete (cas.go:53-77).
THEOREM RegistryNoLeftovers == Spec => []NoLeftovers
  BY RegistryUsesBlobStore, StoreNoLeftovers, PTL DEF UsesBlobStore

\* Beside rows, downloads, fetches and collections, the files implement the
\* abstract content store (cas.go:53-140).
THEOREM RegistryImplementsContentStore == Spec => ImplementsContentStore
  BY RegistryUsesBlobStore, StoreImplementsContentStore DEF UsesBlobStore

-----------------------------------------------------------------------------
(* No dangling row, and complete collections, as long as uploads and the      *)
(* collector do not meet. What a row names is safe because the upload that    *)
(* will write the row has its blob in place (Settled), and because a          *)
(* collection under way sees no upload and has every row in its snapshot      *)
(* (Alone). What is an orphan is still ahead of the sweep (OrphansAhead).     *)

Targets == \A c \in Calls : pc[c] # "idle" => target[c] \in Paths

OverStored == \A c \in over : pc[c] = "stored"

Settled ==
  \A c \in Calls \ over : pc[c] \in {"hit", "linked", "stored"} => Exists(FinalKey(c))

Alone == gc.pc # "off" => Pending = {} /\ Referenced \subseteq gc.refs

Ahead(k) ==
  \/ gc.pc = "list" /\ KeyPos[k] > gc.token
  \/ gc.pc = "sweep" /\ k \in gc.page
  \/ gc.pc = "sweep" /\ gc.token # 0 /\ KeyPos[k] > gc.token

OrphansAhead ==
  gc.pc # "off" /\ ~gc.dry =>
    \A k \in Keys \ gc.warned : Exists(k) /\ Orphan(k) => Ahead(k)

RegistryInv ==
  /\ Targets
  /\ OverStored
  /\ Settled
  /\ Alone
  /\ NoDanglingRow
  /\ OrphansAhead

\* No step of a Put takes a blob away, and the two that settle a call leave its
\* blob in place.
LEMMA PutKeepsBlobs ==
  ASSUME StoreInv, NEW c \in Calls,
         PutStep(c) \/ PutError(c) \/ \E b \in Bodies : PutBegin(c, b)
  PROVE  /\ \A d \in Digests : Exists(BlobKey(d)) => Exists(BlobKey(d))'
         /\ pc'[c] \in {"hit", "linked"} => Exists(FinalKey(c))' /\ body' = body
         /\ pc'[c] = "stored" => pc[c] \in {"hit", "linked"} /\ body' = body
         /\ \A e \in Calls \ {c} : pc'[e] = pc[e] /\ body'[e] = body[e]
  <1> USE KeyFacts, MarkerAssumption DEF StoreInv, StoreTypeOK, Exists, Goto
  <1>1. CASE \E b \in Bodies : PutBegin(c, b)
    BY <1>1 DEF PutBegin, CreateTmp
  <1>2. CASE PutRefused(c)
    BY <1>2 DEF PutRefused, DropOwn, RemoveFails, Remove
  <1>3. CASE PutReceived(c)
    BY <1>3 DEF PutReceived, Rename
  <1>4. CASE PutHit(c)
    BY <1>4 DEF PutHit, FinalKey, Digest
  <1>5. CASE PutMiss(c)
    BY <1>5 DEF PutMiss, CreateTmp
  <1>6. CASE PutLink(c)
    <2>1. /\ pc[c] = "copying" /\ pc' = [pc EXCEPT ![c] = "linked"]
          /\ file' = [file EXCEPT ![BlobTmp(c)] = Absent, ![FinalKey(c)] = file[UploadKey(c)]]
          /\ body' = body
      BY <1>6 DEF PutLink, Rename
    <2>2. /\ body[c] \in Bodies /\ Digest(c) \in Digests
          /\ FinalKey(c) = BlobKey(Digest(c)) /\ FinalKey(c)' = FinalKey(c)
          /\ file[UploadKey(c)] = body[c]
      BY <2>1, DigestType DEF UploadIsBody, FinalKey, Digest
    <2>3. Exists(FinalKey(c))'
      BY <2>1, <2>2
    <2>4. \A d \in Digests : Exists(BlobKey(d)) => Exists(BlobKey(d))'
      BY <2>1, <2>2
    <2> QED BY <2>1, <2>3, <2>4
  <1>7. CASE PutCopyFails(c)
    BY <1>7 DEF PutCopyFails, DropOwn, RemoveFails, Remove
  <1>8. CASE PutReturn(c)
    BY <1>8 DEF PutReturn, DropOwn, RemoveFails, Remove
  <1> QED BY <1>1, <1>2, <1>3, <1>4, <1>5, <1>6, <1>7, <1>8 DEF PutStep, PutError

LEMMA InitRegistryInv == Init => RegistryInv
  BY DEF Init, StoreInit, RegistryInv, Targets, OverStored, Settled, Alone,
         NoDanglingRow, OrphansAhead, NoRun

\* An upload that is still in cas.Put is pending.
LEMMA StepperPending ==
  ASSUME OverStored, NEW c \in Calls, PutStep(c) \/ PutError(c)
  PROVE  c \in Pending /\ pc[c] \in InFlight
  BY DEF OverStored, Pending, InFlight, PutStep, PutError, Goto, PutReceived, PutHit,
         PutMiss, PutLink, PutReturn, PutRefused, PutCopyFails

\* What has not been kept apart stays so.
LEMMA ApartStep ==
  ASSUME TypeOK, [Next]_vars, apart'
  PROVE  apart
  BY DEF TypeOK, Next, ServerNext, GcNext, GcStep, UploadBegin, UploadStep, UploadRecord,
         UploadRecordFails, FetchMismatch, FetchMisstated, DeleteArtifact, PullResolve, PullServe, PullMissing,
         ServerCrash, GcSnapshot, GcList, GcSweep, GcSweepFails, GcNextPage, GcFinish, GcAbort, vars

LEMMA RegistryStep ==
  ASSUME apart', StoreInv, TypeOK, RegistryInv, [Next]_vars
  PROVE  RegistryInv'
  <1> USE DEF RegistryInv
  <1>1. ASSUME NEW c \in Calls,
               \/ \E p \in Paths, b \in Bodies : UploadBegin(c, p, b)
               \/ UploadStep(c)
        PROVE  RegistryInv'
    <2>1. PutStep(c) \/ PutError(c) \/ \E b \in Bodies : PutBegin(c, b)
      BY <1>1 DEF UploadBegin, UploadStep
    <2>2. gc.pc = "off" /\ gc' = gc /\ row' = row /\ over' = over
      BY <1>1, StepperPending DEF UploadBegin, UploadStep, serverVars, Alone
    <2>3. /\ \A e \in Calls \ {c} : target'[e] = target[e]
          /\ pc[c] # "idle" => target'[c] = target[c]
          /\ pc[c] = "idle" => target'[c] \in Paths
      BY <1>1, StepperPending
         DEF UploadBegin, UploadStep, serverVars, TypeOK, PutBegin, Goto, InFlight
    <2>4. pc[c] \in InFlight \cup {"idle"}
      BY <1>1, StepperPending DEF UploadBegin, UploadStep, PutBegin, Goto
    <2>5. Targets'
      BY <2>1, <2>3, PutKeepsBlobs DEF Targets
    <2>6. OverStored'
      <3>1. c \notin over
        BY <2>4 DEF OverStored, InFlight
      <3> QED BY <2>1, <2>2, <3>1, PutKeepsBlobs DEF OverStored, TypeOK
    <2>7. Settled'
      <3>1. ASSUME NEW e \in Calls \ over, pc'[e] \in {"hit", "linked", "stored"}
            PROVE  Exists(FinalKey(e))'
        <4>1. CASE e = c
          <5>1. CASE pc'[c] \in {"hit", "linked"}
            BY <2>1, <4>1, <5>1, PutKeepsBlobs
          <5>2. CASE pc'[c] = "stored"
            <6>1. pc[c] \in {"hit", "linked"} /\ body' = body
              BY <2>1, <5>2, PutKeepsBlobs
            <6>2. Digest(c) \in Digests /\ Exists(BlobKey(Digest(c)))
              BY <3>1, <4>1, <6>1, DigestType DEF Settled, FinalKey, StoreInv
            <6>3. Exists(BlobKey(Digest(c)))'
              <7>1. Exists(BlobKey(Sha[body[c]]))'
                BY <2>1, <6>1, <6>2, PutKeepsBlobs DEF Digest, Exists
              <7> QED BY <6>1, <7>1 DEF Digest
            <6> QED BY <4>1, <6>3 DEF FinalKey
          <5> QED BY <3>1, <4>1, <5>1, <5>2
        <4>2. CASE e # c
          <5>1. pc'[e] = pc[e] /\ body'[e] = body[e]
            BY <2>1, <4>2, PutKeepsBlobs
          <5>2. Digest(e) \in Digests /\ Exists(BlobKey(Digest(e)))
            BY <3>1, <5>1, DigestType DEF Settled, FinalKey, StoreInv
          <5>3. Exists(BlobKey(Sha[body[e]]))'
            BY <2>1, <5>1, <5>2, PutKeepsBlobs DEF Digest, Exists
          <5> QED BY <5>1, <5>3 DEF FinalKey, Digest, Exists, BlobKey
        <4> QED BY <4>1, <4>2
      <3> QED BY <2>2, <3>1 DEF Settled
    <2>8. Alone' /\ OrphansAhead'
      BY <2>2 DEF Alone, OrphansAhead
    <2>9. NoDanglingRow'
      BY <2>1, <2>2, PutKeepsBlobs DEF NoDanglingRow, TypeOK
    <2> QED BY <2>5, <2>6, <2>7, <2>8, <2>9
  <1>2. ASSUME NEW c \in Calls, UploadRecord(c) \/ UploadRecordFails(c)
        PROVE  RegistryInv'
    <2>1. /\ pc[c] = "stored" /\ c \notin over /\ over' = over \cup {c}
          /\ pc' = pc /\ body' = body /\ file' = file /\ target' = target /\ gc' = gc
          /\ row' = row \/ row' = [row EXCEPT ![target[c]] = Digest(c)]
      BY <1>2 DEF UploadRecord, UploadRecordFails, storeVars
    <2>2. c \in Pending /\ gc.pc = "off"
      BY <2>1 DEF Pending, Alone
    <2>3. Exists(FinalKey(c)) /\ Digest(c) \in Digests /\ target[c] \in Paths
      BY <2>1, DigestType DEF Settled, Targets, StoreInv
    <2>4. Targets' /\ OverStored' /\ Settled'
      BY <2>1 DEF Targets, OverStored, Settled, FinalKey, Digest, Exists
    <2>5. Alone' /\ OrphansAhead'
      BY <2>1, <2>2 DEF Alone, OrphansAhead
    <2>6. NoDanglingRow'
      BY <2>1, <2>3 DEF NoDanglingRow, FinalKey, Exists, TypeOK
    <2> QED BY <2>4, <2>5, <2>6
  <1>13. ASSUME NEW c \in Calls, FetchMismatch(c) PROVE RegistryInv'
    <2>1. /\ pc[c] = "stored" /\ c \notin over /\ over' = over \cup {c}
          /\ UNCHANGED <<pc, body, row, target, gc>>
          /\ \/ ~Shared(c) /\ file' = [file EXCEPT ![BlobKey(Digest(c))] = Absent]
             \/ file' = file
      BY <1>13 DEF FetchMismatch, DeleteBlob, Remove, storeVars
    <2>2. c \in Pending /\ gc.pc = "off"
      BY <2>1 DEF Pending, Alone
    <2>3. \A d \in Digests \ {Digest(c)} : Exists(BlobKey(d)) => Exists(BlobKey(d))'
      BY <2>1, KeyFacts, DigestType DEF StoreInv, Exists, TypeOK, StoreTypeOK
    <2>4. Targets' /\ OverStored' /\ Alone' /\ OrphansAhead'
      BY <2>1, <2>2 DEF Targets, OverStored, Alone, OrphansAhead
    <2>5. ASSUME NEW e \in Calls \ over', pc[e] \in {"hit", "linked", "stored"}
          PROVE  Exists(FinalKey(e))'
      <3>1. e \in Pending \ {c}
        BY <2>1, <2>5 DEF Pending, InFlight
      <3>2. Digest(e) \in Digests /\ Exists(BlobKey(Digest(e)))
        BY <2>1, <2>5, <3>1, DigestType DEF Settled, FinalKey, StoreInv
      <3>4. file' = file \/ Digest(e) # Digest(c)
        BY <2>1, <2>5, <3>1 DEF Shared
      <3>3. Exists(BlobKey(Sha[body[e]]))'
        BY <2>1, <2>3, <3>2, <3>4 DEF Digest, Exists
      <3> QED BY <2>1, <3>3 DEF FinalKey, Digest
    <2>6. Settled'
      BY <2>1, <2>5 DEF Settled
    <2>7. NoDanglingRow'
      BY <2>1, <2>3 DEF NoDanglingRow, Shared, Referenced, Exists, TypeOK
    <2> QED BY <2>4, <2>6, <2>7
  <1>14. ASSUME NEW c \in Calls, NEW d \in Digests, FetchMisstated(c, d) PROVE RegistryInv'
    <2>1. /\ pc[c] = "stored" /\ c \notin over /\ over' = over \cup {c}
          /\ UNCHANGED <<file, pc, body, target, gc>>
          /\ row' = [row EXCEPT ![target[c]] = d] /\ Exists(BlobKey(d))
      BY <1>14 DEF FetchMisstated, storeVars
    <2>2. c \in Pending /\ gc.pc = "off"
      BY <2>1 DEF Pending, Alone
    <2>3. Targets' /\ OverStored' /\ Settled' /\ Alone' /\ OrphansAhead'
      BY <2>1, <2>2 DEF Targets, OverStored, Settled, FinalKey, Digest, Exists, Alone,
                        OrphansAhead
    <2>4. NoDanglingRow'
      BY <2>1 DEF NoDanglingRow, Exists, TypeOK
    <2> QED BY <2>3, <2>4
  <1>3. ASSUME NEW p \in Paths, DeleteArtifact(p) PROVE RegistryInv'
    <2>1. /\ UNCHANGED <<file, pc, body, target, over, gc>>
          /\ row' = [row EXCEPT ![p] = NoRow]
      BY <1>3 DEF DeleteArtifact, storeVars
    <2>2. Targets' /\ OverStored' /\ Settled' /\ OrphansAhead'
      BY <2>1 DEF Targets, OverStored, Settled, FinalKey, Digest, Exists, OrphansAhead,
                  Orphan, Ahead
    <2>3. Referenced' \subseteq Referenced
      BY <2>1 DEF Referenced, TypeOK
    <2>4. Alone'
      BY <2>1, <2>3 DEF Alone, Pending
    <2>5. NoDanglingRow'
      BY <2>1 DEF NoDanglingRow, Exists, TypeOK
    <2> QED BY <2>2, <2>4, <2>5
  <1>4. ASSUME UNCHANGED <<file, pc, body, row, target, over, gc>> PROVE RegistryInv'
    BY <1>4 DEF Targets, OverStored, Settled, FinalKey, Digest, Exists, OrphansAhead,
                Orphan, Ahead, Alone, Pending, Referenced, NoDanglingRow
  <1>5. CASE ServerCrash
    <2>1. /\ UNCHANGED <<file, body, row, target, gc>>
          /\ pc' = [c \in Calls |-> IF pc[c] \in InFlight THEN "crashed" ELSE pc[c]]
          /\ over' = over \cup {c \in Pending : pc[c] = "stored"}
          /\ Pending # {}
      BY <1>5 DEF ServerCrash
    <2>2. gc.pc = "off"
      BY <2>1 DEF Alone
    <2>3. Targets' /\ OverStored' /\ Alone' /\ OrphansAhead' /\ NoDanglingRow'
      BY <2>1, <2>2 DEF Targets, OverStored, Alone, OrphansAhead, NoDanglingRow, Exists,
                        InFlight, Pending, TypeOK
    <2>4. \A c \in Calls \ over' : pc'[c] \notin {"hit", "linked", "stored"}
      BY <2>1 DEF InFlight, Pending
    <2>5. Settled'
      BY <2>4 DEF Settled
    <2> QED BY <2>3, <2>5
  <1>6. ASSUME NEW dry \in BOOLEAN, GcSnapshot(dry) PROVE RegistryInv'
    <2>1. /\ UNCHANGED <<file, pc, body, row, target, over>>
          /\ Pending = {}
          /\ gc' = [pc |-> "list", dry |-> dry, refs |-> Referenced, page |-> {}, token |-> 0,
                    warned |-> {}]
      BY <1>6 DEF GcSnapshot, NoRun, storeVars, serverVars
    <2>2. Targets' /\ OverStored' /\ Settled' /\ NoDanglingRow'
      BY <2>1 DEF Targets, OverStored, Settled, FinalKey, Digest, Exists, NoDanglingRow
    <2>3. Alone'
      BY <2>1 DEF Alone, Pending, Referenced
    <2>4. OrphansAhead'
      BY <2>1, ListAssumption DEF OrphansAhead, Ahead
    <2> QED BY <2>2, <2>3, <2>4
  <1>7. CASE GcList
    <2>1. /\ UNCHANGED <<file, pc, body, row, target, over>>
          /\ gc.pc = "list" /\ gc.token \in Nat
          /\ gc' = [gc EXCEPT !.pc = "sweep", !.page = Page(gc.token),
                              !.token = NextToken(gc.token)]
          /\ gc'.pc = "sweep" /\ gc'.dry = gc.dry /\ gc'.refs = gc.refs
          /\ gc'.page = Page(gc.token) /\ gc'.token = NextToken(gc.token)
          /\ gc'.warned = gc.warned
      BY <1>7 DEF GcList, storeVars, serverVars, TypeOK
    <2>2. Targets' /\ OverStored' /\ Settled' /\ NoDanglingRow'
      BY <2>1 DEF Targets, OverStored, Settled, FinalKey, Digest, Exists, NoDanglingRow
    <2>3. Alone'
      BY <2>1 DEF Alone, Pending, Referenced
    <2>4. ASSUME ~gc.dry, NEW k \in Keys \ gc.warned, Exists(k), Orphan(k)
          PROVE  k \in Page(gc.token) \/ (NextToken(gc.token) # 0 /\ KeyPos[k] > NextToken(gc.token))
      <3>1. KeyPos[k] > gc.token
        BY <2>1, <2>4 DEF OrphansAhead, Ahead
      <3>2. k \in After(gc.token)
        BY <2>4, <3>1 DEF After
      <3> QED BY <2>1, <3>2, NextTokenSeparates
    <2>5. OrphansAhead'
      BY <2>1, <2>4 DEF OrphansAhead, Ahead, Orphan, Exists
    <2> QED BY <2>2, <2>3, <2>5
  <1>8. ASSUME NEW k \in Keys, GcSweep(k) PROVE RegistryInv'
    <2>1. /\ UNCHANGED <<pc, body, row, target, over>>
          /\ gc.pc = "sweep" /\ k \in gc.page
          /\ gc'.pc = "sweep" /\ gc'.dry = gc.dry /\ gc'.refs = gc.refs
          /\ gc'.page = gc.page \ {k} /\ gc'.token = gc.token /\ gc'.warned = gc.warned
          /\ IF Orphan(k) /\ ~gc.dry THEN file' = [file EXCEPT ![k] = Absent] ELSE file' = file
      BY <1>8 DEF GcSweep, GcAt, Remove, serverVars, TypeOK
    <2>2. Pending = {} /\ Referenced \subseteq gc.refs
      BY <2>1 DEF Alone
    <2>3. Targets' /\ OverStored' /\ Alone'
      BY <2>1, <2>2 DEF Targets, OverStored, Alone, Pending, Referenced
    <2>4. Settled'
      BY <2>1, <2>2 DEF Settled, Pending, InFlight
    <2>5. ASSUME NEW p \in Paths, row[p] # NoRow PROVE Exists(BlobKey(row[p]))'
      <3>1. row[p] \in Digests \cap gc.refs /\ BlobKey(row[p]) \in Keys
        BY <2>2, <2>5, KeyFacts DEF Referenced, TypeOK
      <3>2. ~Orphan(BlobKey(row[p]))
        BY <3>1, KeyFacts DEF Orphan, BlobTmps
      <3>3. file'[BlobKey(row[p])] = file[BlobKey(row[p])]
        BY <2>1, <3>1, <3>2 DEF TypeOK, StoreTypeOK
      <3> QED BY <2>1, <2>5, <3>3 DEF NoDanglingRow, Exists, TypeOK
    <2>6. NoDanglingRow'
      BY <2>1, <2>5 DEF NoDanglingRow, Exists
    <2>7. ASSUME ~gc.dry, NEW j \in Keys, Exists(j)', Orphan(j)
          PROVE  /\ j # k /\ Exists(j)
      BY <2>1, <2>7 DEF Exists, TypeOK, StoreTypeOK
    <2>8. OrphansAhead'
      BY <2>1, <2>7 DEF OrphansAhead, Ahead, Orphan
    <2> QED BY <2>3, <2>4, <2>6, <2>8
  <1>15. ASSUME NEW k \in Keys, GcSweepFails(k) PROVE RegistryInv'
    <2>1. /\ UNCHANGED <<file, pc, body, row, target, over>>
          /\ gc.pc = "sweep"
          /\ gc'.pc = "sweep" /\ gc'.dry = gc.dry /\ gc'.refs = gc.refs
          /\ gc'.page = gc.page \ {k} /\ gc'.token = gc.token
          /\ gc'.warned = gc.warned \cup {k}
      BY <1>15 DEF GcSweepFails, GcAt, RemoveFails, serverVars, TypeOK
    <2>2. Targets' /\ OverStored' /\ Settled' /\ NoDanglingRow' /\ Alone'
      BY <2>1 DEF Targets, OverStored, Settled, FinalKey, Digest, Exists, NoDanglingRow,
                  Alone, Pending, Referenced
    <2>3. OrphansAhead'
      BY <2>1 DEF OrphansAhead, Ahead, Orphan, Exists
    <2> QED BY <2>2, <2>3
  <1>9. CASE GcNextPage
    <2>1. /\ UNCHANGED <<file, pc, body, row, target, over>>
          /\ gc.pc = "sweep" /\ gc.page = {}
          /\ gc'.pc = "list" /\ gc'.dry = gc.dry /\ gc'.refs = gc.refs /\ gc'.token = gc.token
          /\ gc'.warned = gc.warned
      BY <1>9 DEF GcNextPage, storeVars, serverVars, TypeOK
    <2>2. Targets' /\ OverStored' /\ Settled' /\ NoDanglingRow' /\ Alone'
      BY <2>1 DEF Targets, OverStored, Settled, FinalKey, Digest, Exists, NoDanglingRow,
                  Alone, Pending, Referenced
    <2>3. OrphansAhead'
      BY <2>1 DEF OrphansAhead, Ahead, Orphan, Exists
    <2> QED BY <2>2, <2>3
  <1>10. CASE GcFinish \/ GcAbort
    <2>1. UNCHANGED <<file, pc, body, row, target, over>> /\ gc'.pc = "off"
      <3>1. CASE GcFinish
        BY <3>1 DEF GcFinish, NoRun, storeVars, serverVars
      <3>2. CASE GcAbort
        BY <3>2 DEF GcAbort, NoRun, storeVars, serverVars
      <3> QED BY <1>10, <3>1, <3>2
    <2> QED BY <2>1 DEF Targets, OverStored, Settled, FinalKey, Digest, Exists,
                        NoDanglingRow, Alone, OrphansAhead
  <1>11. ASSUME NEW r \in Readers,
                (\E p \in Paths : PullResolve(r, p)) \/ PullServe(r) \/ PullMissing(r)
         PROVE  UNCHANGED <<file, pc, body, row, target, over, gc>>
    BY <1>11 DEF PullResolve, PullServe, PullMissing, storeVars
  <1>12. CASE UNCHANGED vars
    BY <1>4, <1>12 DEF vars, storeVars
  <1> QED
    BY <1>1, <1>2, <1>3, <1>4, <1>5, <1>6, <1>7, <1>8, <1>9, <1>10, <1>11, <1>12,
       <1>13, <1>14, <1>15
       DEF Next, ServerNext, GcNext, GcStep

ApartInv == apart => RegistryInv

LEMMA RegistryInvariance == Spec => [](StoreInv /\ TypeOK /\ ApartInv)
  <1>1. ApartInv /\ StoreInv /\ TypeOK /\ [Next]_vars => ApartInv'
    BY ApartStep, RegistryStep DEF ApartInv
  <1>2. Init => ApartInv
    BY InitRegistryInv DEF ApartInv
  <1> QED BY <1>1, <1>2, TypeInvariance, PTL DEF Spec

\* A download that has resolved its row knows a path and a digest.
Resolved ==
  \A r \in Readers :
    pull[r].pc = "resolved" => pull[r].path \in Paths /\ pull[r].digest \in Digests

LEMMA ResolvedInvariance == Spec => []Resolved
  <1>1. Init => Resolved
    BY DEF Init, Resolved, NoPull
  <1>2. TypeOK /\ Resolved /\ [Next]_vars => Resolved'
    <2> SUFFICES ASSUME TypeOK, Resolved, [Next]_vars PROVE Resolved'
      OBVIOUS
    <2>1. ASSUME NEW r \in Readers, NEW p \in Paths, PullResolve(r, p) PROVE Resolved'
      <3>1. row[p] \in Digests
        BY <2>1 DEF PullResolve, TypeOK
      <3> QED BY <2>1, <3>1 DEF PullResolve, Resolved, TypeOK
    <2>2. ASSUME NEW r \in Readers, PullServe(r) \/ PullMissing(r) PROVE Resolved'
      BY <2>2 DEF PullServe, PullMissing, NoPull, Resolved, TypeOK
    <2>3. CASE ServerCrash
      BY <2>3 DEF ServerCrash, NoPull, Resolved
    <2>4. CASE UNCHANGED pull
      BY <2>4 DEF Resolved
    <2> QED
      BY <2>1, <2>2, <2>3, <2>4
         DEF Next, ServerNext, GcNext, GcStep, UploadBegin, UploadStep, UploadRecord,
             UploadRecordFails, FetchMismatch, FetchMisstated, DeleteArtifact, GcSnapshot, GcList, GcSweep, GcSweepFails, GcNextPage,
             GcFinish, GcAbort, vars, serverVars
  <1> QED BY <1>1, <1>2, TypeInvariance, PTL DEF Spec

\* As long as no upload has run during a collection, whatever crashes, aborts
\* and deletions happen, every row names a blob that is there.
THEOREM RowsKeepBlobsWhenApart == Spec => []RowsKeepBlobs
  <1>1. ApartInv => RowsKeepBlobs
    BY DEF ApartInv, RegistryInv, RowsKeepBlobs
  <1> QED BY <1>1, RegistryInvariance, PTL

\* Then a download misses its blob only when its row went away under it.
THEOREM PullMissesWhenApart == Spec => PullMissesOnlyStaleRows
  <1>1. ApartInv /\ Resolved =>
          [\A r \in Readers :
             apart /\ PullMissing(r) => row[pull[r].path] # pull[r].digest]_vars
    <2> SUFFICES ASSUME ApartInv, apart, Resolved, NEW r \in Readers, PullMissing(r)
                 PROVE  row[pull[r].path] # pull[r].digest
      OBVIOUS
    <2>1. pull[r].pc = "resolved" /\ ~Exists(BlobKey(pull[r].digest))
      BY DEF PullMissing
    <2>2. pull[r].path \in Paths /\ pull[r].digest \in Digests
      BY <2>1 DEF Resolved
    <2> QED BY <2>1, <2>2, RowAssumption DEF ApartInv, RegistryInv, NoDanglingRow
  <1> QED BY <1>1, RegistryInvariance, ResolvedInvariance, PTL DEF PullMissesOnlyStaleRows

\* And a collection that reaches its end leaves no orphan but those whose
\* deletion failed and that it warned of (gc.go:79-113).
THEOREM CollectsAllWhenApart == Spec => CollectsAllOrphans
  <1> DEFINE Complete ==
        /\ \A d \in Digests :
             Exists(BlobKey(d)) => d \in gc.refs \/ BlobKey(d) \in gc.warned
        /\ \A k \in BlobTmps : Exists(k) => k \in gc.warned
  <1>1. ASSUME ApartInv, apart, GcFinish, ~gc.dry PROVE Complete
    <2>1. gc.pc = "sweep" /\ gc.page = {} /\ gc.token = 0
      BY <1>1 DEF GcFinish
    <2>2. \A k \in Keys \ gc.warned : ~(Exists(k) /\ Orphan(k))
      BY <1>1, <2>1 DEF ApartInv, RegistryInv, OrphansAhead, Ahead
    <2> QED BY <2>2, KeyFacts DEF Orphan, BlobTmps
  <1>2. ApartInv => [apart /\ GcFinish /\ ~gc.dry => Complete]_vars
    BY <1>1
  <1> QED BY <1>2, RegistryInvariance, PTL DEF CollectsAllOrphans
=============================================================================
