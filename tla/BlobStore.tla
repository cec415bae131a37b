----------------------------- MODULE BlobStore ------------------------------
(***************************************************************************)
(* The content-addressable layer (internal/storage/cas) over the file      *)
(* system backend (internal/storage/fs), one action per file operation     *)
(* another process can see.                                                *)
(*                                                                         *)
(* cas.Put writes the body under a random key of blobs/_uploads/ while it  *)
(* hashes it, looks for the digest key, and either drops the upload or     *)
(* copies it to the digest key and drops it then. Each of the two writes   *)
(* is an fs.Put: a ".pkr-*.tmp" file in the directory of the destination,  *)
(* filled and renamed. Every call has a key of its own, so a call is also  *)
(* the name of the files it creates.                                       *)
(***************************************************************************)
EXTENDS Naturals, FiniteSets

CONSTANTS
  Calls,    \* the calls of cas.Put in a behaviour, each made once
  Bodies,   \* the byte strings that callers store
  Digests,  \* SHA-256 values
  Sha,      \* the digest of each body
  Partial,  \* the content of a file that is still being written
  Absent,   \* no file (os.ErrNotExist)
  MaxStuck  \* bound: the calls whose own deletion fails

\* SHA-256 is taken to be free of collisions on the bodies stored.
ASSUME HashAssumption ==
  /\ Sha \in [Bodies -> Digests]
  /\ \A a, b \in Bodies : Sha[a] = Sha[b] => a = b

ASSUME MarkerAssumption ==
  /\ Absent \notin Bodies
  /\ Partial \notin Bodies
  /\ Absent # Partial

VARIABLES
  file,     \* file[k]: the content of the file at storage key k
  pc,       \* pc[c]: where the Put call c stands
  body,     \* body[c]: the bytes c was asked to store, Absent before
  stuck     \* history: calls whose own last deletion did not succeed

storeVars == <<file, pc, body, stuck>>

-----------------------------------------------------------------------------
(* Storage keys. *)

UploadKey(c) == <<"upload", c>>       \* blobs/_uploads/<random>
UploadTmp(c) == <<"uploadTmp", c>>    \* blobs/_uploads/.pkr-*.tmp
BlobTmp(c)   == <<"blobTmp", c>>      \* blobs/sha256/<2hex>/.pkr-*.tmp
BlobKey(d)   == <<"blob", d>>         \* blobs/sha256/<2hex>/<64hex>

UploadKeys == {UploadKey(c) : c \in Calls} \cup {UploadTmp(c) : c \in Calls}
BlobTmps   == {BlobTmp(c) : c \in Calls}
BlobKeys   == {BlobKey(d) : d \in Digests}
Keys       == UploadKeys \cup BlobTmps \cup BlobKeys

Content == Bodies \cup {Partial, Absent}

Exists(k) == file[k] # Absent

\* The digest that c computes, and the key its body belongs under.
Digest(c)   == Sha[body[c]]
FinalKey(c) == BlobKey(Digest(c))

\* Where a call of cas.Put that has not returned can stand.
InFlight == {"receiving", "received", "hit", "copying", "linked"}

Goto(c, from, to) ==
  /\ pc[c] = from
  /\ pc' = [pc EXCEPT ![c] = to]

-----------------------------------------------------------------------------
(* fs.Backend: the three steps of Put, and Delete. *)

\* CreateTemp in the destination's directory; the copy into it has begun.
CreateTmp(tmp) == file' = [file EXCEPT ![tmp] = Partial]

\* The copy is complete and the rename succeeds: needs the temporary file.
Rename(tmp, dst, b) ==
  /\ Exists(tmp)
  /\ file' = [file EXCEPT ![tmp] = Absent, ![dst] = b]

\* A missing file is not an error, neither for Delete nor for the clean-up
\* of a failed Put.
Remove(k) == file' = [file EXCEPT ![k] = Absent]

\* os.Remove fails and the file stays: rights, an I/O error, or on Windows a
\* file that is still open, as cas.go:76 deletes the upload it is reading.
RemoveFails(k) == Exists(k) /\ UNCHANGED file

\* The call c drops a file of its own and ignores whether that succeeds.
DropOwn(c, k) ==
  \/ Remove(k) /\ UNCHANGED stuck
  \/ RemoveFails(k) /\ Cardinality(stuck) < MaxStuck /\ stuck' = stuck \cup {c}

-----------------------------------------------------------------------------
(* cas.Put. *)

\* The body starts to arrive under the random key.
PutBegin(c, b) ==
  /\ Goto(c, "idle", "receiving")
  /\ body' = [body EXCEPT ![c] = b]
  /\ CreateTmp(UploadTmp(c))
  /\ UNCHANGED stuck

\* The reader fails (a client that hangs up, a full disk): "cas: temp put".
PutRefused(c) ==
  /\ Goto(c, "receiving", "refused")
  /\ DropOwn(c, UploadTmp(c))
  /\ UNCHANGED body

\* The whole body is under the random key, and its digest is known.
PutReceived(c) ==
  /\ Goto(c, "receiving", "received")
  /\ Rename(UploadTmp(c), UploadKey(c), body[c])
  /\ UNCHANGED <<body, stuck>>

\* Mutant of PutHit: the Stat is taken for granted.
PutHitUnchecked(c) ==
  /\ Goto(c, "received", "hit")
  /\ UNCHANGED <<file, body, stuck>>

\* Stat finds the digest key: the upload is redundant.
PutHit(c) ==
  /\ Goto(c, "received", "hit")
  /\ Exists(FinalKey(c))
  /\ UNCHANGED <<file, body, stuck>>

\* Mutant of PutMiss: the copy is written at the digest key itself.
PutMissInPlace(c) ==
  /\ Goto(c, "received", "copying")
  /\ ~Exists(FinalKey(c))
  /\ CreateTmp(FinalKey(c))
  /\ UNCHANGED <<body, stuck>>

\* Stat finds nothing: reopen the upload and start copying it.
PutMiss(c) ==
  /\ Goto(c, "received", "copying")
  /\ ~Exists(FinalKey(c))
  /\ CreateTmp(BlobTmp(c))
  /\ UNCHANGED <<body, stuck>>

\* The copy of the upload is renamed to the digest key.
PutLink(c) ==
  /\ Goto(c, "copying", "linked")
  /\ Rename(BlobTmp(c), FinalKey(c), file[UploadKey(c)])
  /\ UNCHANGED <<body, stuck>>

\* The second write fails, or its temporary file is gone when it is to be
\* renamed: "cas: rename to digest". The upload stays under the random key.
PutCopyFails(c) ==
  /\ Goto(c, "copying", "failed")
  /\ DropOwn(c, BlobTmp(c))
  /\ UNCHANGED body

\* Mutant of PutReturn: the redundant upload is not dropped.
PutReturnKeepsUpload(c) ==
  /\ \/ Goto(c, "hit", "stored") /\ UNCHANGED <<file, stuck>>
     \/ Goto(c, "linked", "stored") /\ DropOwn(c, UploadKey(c))
  /\ UNCHANGED body

\* Delete the upload, and return the digest whether or not that succeeds.
PutReturn(c) ==
  /\ \/ Goto(c, "hit", "stored")
     \/ Goto(c, "linked", "stored")
  /\ DropOwn(c, UploadKey(c))
  /\ UNCHANGED body

PutStep(c) ==
  \/ PutReceived(c)
  \/ PutHit(c)
  \/ PutMiss(c)
  \/ PutLink(c)
  \/ PutReturn(c)

PutError(c) ==
  \/ PutRefused(c)
  \/ PutCopyFails(c)

\* The process dies: no call in flight returns, every file stays.
Crash ==
  /\ \E c \in Calls : pc[c] \in InFlight
  /\ pc' = [c \in Calls |-> IF pc[c] \in InFlight THEN "crashed" ELSE pc[c]]
  /\ UNCHANGED <<file, body, stuck>>

-----------------------------------------------------------------------------
(* What others do to the blobs while calls run. *)

\* cas.Delete, or the collector's backend.Delete of a digest key. One that
\* fails changes nothing.
DeleteBlob(d) ==
  /\ Remove(BlobKey(d))
  /\ UNCHANGED <<pc, body, stuck>>

\* The collector takes a temporary file beside the blobs for an orphan.
SweepTmp(c) ==
  /\ Remove(BlobTmp(c))
  /\ UNCHANGED <<pc, body, stuck>>

-----------------------------------------------------------------------------
StoreInit ==
  /\ file = [k \in Keys |-> Absent]
  /\ pc = [c \in Calls |-> "idle"]
  /\ body = [c \in Calls |-> Absent]
  /\ stuck = {}

StoreNext ==
  \/ \E c \in Calls :
       \/ \E b \in Bodies : PutBegin(c, b)
       \/ PutStep(c)
       \/ PutError(c)
       \/ SweepTmp(c)
  \/ Crash
  \/ \E d \in Digests : DeleteBlob(d)

StoreSpec == StoreInit /\ [][StoreNext]_storeVars

-----------------------------------------------------------------------------
(* Properties. *)

StoreTypeOK ==
  /\ file \in [Keys -> Content]
  /\ pc \in [Calls -> InFlight \cup
                      {"idle", "refused", "failed", "stored", "crashed"}]
  /\ body \in [Calls -> Bodies \cup {Absent}]
  /\ stuck \in SUBSET Calls

\* A file under a digest key holds the whole of the body with that digest,
\* never another one and never a part of it, whatever calls, deletions and
\* crashes interleave (cas.go:40-41, fs.go:71-73).
ContentIntegrity ==
  \A d \in Digests :
    Exists(BlobKey(d)) =>
      /\ file[BlobKey(d)] \in Bodies
      /\ Sha[file[BlobKey(d)]] = d

\* A call that has answered leaves nothing of its own behind but a file whose
\* deletion it tried and the system refused (cas.go:63 and 76, fs.go:89 and 96
\* ignore that), and the upload of a call that failed late, which nobody
\* deletes (cas.go:73-75). A crash may leave any of them.
NoLeftovers ==
  \A c \in Calls :
    pc[c] \in {"idle", "refused", "stored", "failed"} =>
      /\ Exists(UploadTmp(c)) => (pc[c] = "refused" /\ c \in stuck)
      /\ Exists(BlobTmp(c)) => (pc[c] = "failed" /\ c \in stuck)
      /\ Exists(UploadKey(c)) => (pc[c] = "failed" \/ (pc[c] = "stored" /\ c \in stuck))

\* The layer implements the abstract store: a Put takes effect at the rename
\* to the digest key, or at the Stat that finds it there.
PhaseOf(p) ==
  CASE p = "idle" -> "idle"
    [] p \in {"receiving", "received", "copying"} -> "open"
    [] p \in {"hit", "linked"} -> "committed"
    [] p = "stored" -> "returned"
    [] p \in {"refused", "failed", "crashed"} -> "aborted"

Promise == INSTANCE ContentStore WITH
  store <- [d \in Digests |-> file[BlobKey(d)]],
  phase <- [c \in Calls |-> PhaseOf(pc[c])],
  arg   <- body

\* Every behaviour of the two layers is one of the abstract store: a digest
\* is returned only by a call that has committed (cas.go:36-78).
ImplementsContentStore == Promise!Spec
=============================================================================
