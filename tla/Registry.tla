------------------------------ MODULE Registry ------------------------------
(***************************************************************************)
(* The server's uploads, downloads and deletions over the blob store and   *)
(* the artifacts table, with `packrune gc` as a second process on the same *)
(* database and the same file tree (cmd/packrune/gc.go).                   *)
(*                                                                         *)
(* An upload stores its body through cas.Put and then records the digest   *)
(* in the artifacts row of its path; a download reads the row and then     *)
(* opens the blob. The collector reads the referenced digests once, then   *)
(* lists the keys under blobs/ page by page and deletes what it did not    *)
(* see referenced.                                                         *)
(*                                                                         *)
(* A Docker proxy uploads to itself: it fetches a layer whose digest is in  *)
(* the path, and what the upstream sends is stored before its digest is    *)
(* compared and deleted again when it is another one; a manifest is        *)
(* recorded under the digest that the upstream's header states             *)
(* (docker/proxy.go).                                                      *)
(*                                                                         *)
(* apart remembers whether uploads and collections have been kept apart so *)
(* far, and no upstream has sent another artifact's body in place of a     *)
(* layer or stated a digest that is not there. The code does nothing to    *)
(* that end: it is up to the operator.                                     *)
(***************************************************************************)
EXTENDS BlobStore

CONSTANTS
  Paths,      \* (repository, path) pairs, the unique key of artifacts
  Readers,    \* download requests served at a time
  KeyPos,     \* position of each key in the sorted listing, from 1
  PageLimit   \* keys in a page of backend.List (1000 in gc.go)

ASSUME ListAssumption ==
  /\ KeyPos \in [Keys -> Nat \ {0}]
  /\ \A j, k \in Keys : KeyPos[j] = KeyPos[k] => j = k
  /\ PageLimit \in Nat \ {0}

\* No row for a path; no path for a call that has not begun. Digest values and
\* paths are never NoRow.
CONSTANT NoRow

ASSUME RowAssumption == NoRow \notin Digests /\ NoRow \notin Paths

\* The digest in the path of a proxy's layer, NoRow for any other path.
CONSTANT Wanted

\* The paths of a proxy's manifests.
CONSTANT Manifests

ASSUME FetchAssumption ==
  /\ Wanted \in [Paths -> Digests \cup {NoRow}]
  /\ Manifests \subseteq Paths

VARIABLES
  row,        \* row[p]: the digest column of the row of path p
  target,     \* target[c]: the path the upload c was sent to
  over,       \* uploads that got past cas.Put and whose handler has ended
  pull,       \* pull[r]: a download between its row and its blob
  gc,         \* the collector process
  apart       \* history: no upload has run during a collection, none of the
              \* mismatched layers was another artifact's blob, and the digests
              \* that were stated of manifests were there

vars == <<storeVars, row, target, over, pull, gc, apart>>
serverVars == <<row, target, over, pull>>

-----------------------------------------------------------------------------
NoPull == [pc |-> "idle", path |-> NoRow, digest |-> NoRow]

NoRun == [pc |-> "off", dry |-> FALSE, refs |-> {}, page |-> {}, token |-> 0,
          warned |-> {}]

\* Uploads that have begun and have not ended.
Pending == {c \in Calls : pc[c] \in InFlight \cup {"stored"} /\ c \notin over}

Referenced == {row[p] : p \in Paths} \ {NoRow}

\* The body of c is the layer that c was sent to fetch, or c fetches none.
Matches(c) == Wanted[target[c]] \in {NoRow, Digest(c)}

\* Somebody else counts on the blob of c being there.
Shared(c) ==
  \/ Digest(c) \in Referenced
  \/ \E e \in Pending \ {c} :
       pc[e] \in {"hit", "linked", "stored"} /\ Digest(e) = Digest(c)

-----------------------------------------------------------------------------
(* Uploads, and fetches of layers and manifests. *)

\* The handler calls cas.Put with the body of the request, or of the answer
\* of the upstream.
UploadBegin(c, p, b) ==
  /\ PutBegin(c, b)
  /\ target' = [target EXCEPT ![c] = p]
  /\ apart' = (apart /\ gc.pc = "off")
  /\ UNCHANGED <<row, over, pull, gc>>

UploadStep(c) ==
  /\ PutStep(c) \/ PutError(c)
  /\ UNCHANGED <<serverVars, gc, apart>>

\* Mutant of UploadRecord: the row is written as soon as the digest is known.
UploadRecordEarly(c) ==
  /\ pc[c] \in {"received", "stored"}
  /\ c \notin over
  /\ Matches(c)
  /\ row' = [row EXCEPT ![target[c]] = Digest(c)]
  /\ over' = over \cup {c}
  /\ UNCHANGED <<storeVars, target, pull, gc, apart>>

\* UpsertArtifact inserts the row or replaces its digest; 201 Created.
UploadRecord(c) ==
  /\ pc[c] = "stored"
  /\ c \notin over
  /\ Matches(c)
  /\ row' = [row EXCEPT ![target[c]] = Digest(c)]
  /\ over' = over \cup {c}
  /\ UNCHANGED <<storeVars, target, pull, gc, apart>>

\* UpsertArtifact fails: 500, and the blob stays without a row.
UploadRecordFails(c) ==
  /\ pc[c] = "stored"
  /\ c \notin over
  /\ Matches(c)
  /\ over' = over \cup {c}
  /\ UNCHANGED <<storeVars, row, target, pull, gc, apart>>

\* "docker: upstream digest mismatch": cas.Delete of the digest that was stored,
\* whoever else has stored it; whether that succeeds is ignored.
FetchMismatch(c) ==
  /\ pc[c] = "stored"
  /\ c \notin over
  /\ ~Matches(c)
  /\ \/ DeleteBlob(Digest(c)) /\ apart' = (apart /\ ~Shared(c))
     \/ UNCHANGED <<storeVars, apart>>
  /\ over' = over \cup {c}
  /\ UNCHANGED <<row, target, pull, gc>>

\* proxyFetchManifest records the digest of the header, which is not that of
\* the body.
FetchMisstated(c, d) ==
  /\ pc[c] = "stored"
  /\ c \notin over
  /\ target[c] \in Manifests
  /\ d # Digest(c)
  /\ row' = [row EXCEPT ![target[c]] = d]
  /\ over' = over \cup {c}
  /\ apart' = (apart /\ Exists(BlobKey(d)))
  /\ UNCHANGED <<storeVars, target, pull, gc>>

\* DELETE of an artifact removes its row and leaves the blob.
DeleteArtifact(p) ==
  /\ row[p] # NoRow
  /\ row' = [row EXCEPT ![p] = NoRow]
  /\ UNCHANGED <<storeVars, target, over, pull, gc, apart>>

-----------------------------------------------------------------------------
(* Downloads. *)

\* GetArtifact finds the row.
PullResolve(r, p) ==
  /\ pull[r].pc # "resolved"
  /\ row[p] # NoRow
  /\ pull' = [pull EXCEPT ![r] = [pc |-> "resolved", path |-> p, digest |-> row[p]]]
  /\ UNCHANGED <<storeVars, row, target, over, gc, apart>>

\* cas.Get opens the blob: once it is open, a deletion cannot take it away.
PullServe(r) ==
  /\ pull[r].pc = "resolved"
  /\ Exists(BlobKey(pull[r].digest))
  /\ pull' = [pull EXCEPT ![r] = NoPull]
  /\ UNCHANGED <<storeVars, row, target, over, gc, apart>>

\* cas.Get finds nothing: 404 "manifest blob missing".
PullMissing(r) ==
  /\ pull[r].pc = "resolved"
  /\ ~Exists(BlobKey(pull[r].digest))
  /\ pull' = [pull EXCEPT ![r] = NoPull]
  /\ UNCHANGED <<storeVars, row, target, over, gc, apart>>

\* The server dies: every request is lost, also an upload whose Put had
\* returned and whose row is not written; rows and files stay.
ServerCrash ==
  /\ Pending # {}
  /\ pc' = [c \in Calls |-> IF pc[c] \in InFlight THEN "crashed" ELSE pc[c]]
  /\ over' = over \cup {c \in Pending : pc[c] = "stored"}
  /\ pull' = [r \in Readers |-> NoPull]
  /\ UNCHANGED <<file, body, stuck, row, target, gc, apart>>

-----------------------------------------------------------------------------
(* packrune gc. *)

\* SELECT DISTINCT digest FROM artifacts, with or without --dry-run.
GcSnapshot(dry) ==
  /\ gc.pc = "off"
  /\ apart' = (apart /\ Pending = {})
  /\ gc' = [NoRun EXCEPT !.pc = "list", !.dry = dry, !.refs = Referenced]
  /\ UNCHANGED <<storeVars, serverVars>>

\* backend.List after a page token: the first PageLimit keys beyond it.
Before(k, S) == {j \in S : KeyPos[j] < KeyPos[k]}

\* Mutant of After: the cursor steps over a key without looking whether it is
\* the token's, which may have been deleted since.
AfterSkipsOne(token) ==
  LET rest == {k \in Keys : Exists(k) /\ KeyPos[k] >= token}
  IN IF token = 0 THEN rest ELSE {k \in rest : Before(k, rest) # {}}

After(token) == {k \in Keys : Exists(k) /\ KeyPos[k] > token}
Page(token) == {k \in After(token) : Cardinality(Before(k, After(token))) < PageLimit}

\* NextToken is the last key of the page when more keys follow, "" if none
\* does: 0 here.
NextToken(token) ==
  IF Page(token) = After(token) THEN 0
  ELSE CHOOSE n \in {KeyPos[k] : k \in Page(token)} :
         \A k \in Page(token) : KeyPos[k] <= n

\* Mutant of GcList: the token is not handed to backend.List.
GcListFromStart ==
  /\ gc.pc = "list"
  /\ gc' = [gc EXCEPT !.pc = "sweep", !.page = Page(0), !.token = NextToken(0)]
  /\ UNCHANGED <<storeVars, serverVars, apart>>

GcList ==
  /\ gc.pc = "list"
  /\ gc' = [gc EXCEPT !.pc = "sweep",
                      !.page = Page(gc.token),
                      !.token = NextToken(gc.token)]
  /\ UNCHANGED <<storeVars, serverVars, apart>>

\* A key is an orphan when it has the four parts of a blob key and what the
\* last one names is not in the snapshot: upload keys have three parts, and a
\* temporary file beside a blob names no digest at all.
Orphan(k) == k \in BlobTmps \/ \E d \in Digests \ gc.refs : k = BlobKey(d)

\* k is the next key of the page, in listing order.
GcAt(k) ==
  /\ gc.pc = "sweep"
  /\ k \in gc.page
  /\ Before(k, gc.page) = {}

\* The sweep keeps k, or deletes it.
GcSweep(k) ==
  /\ GcAt(k)
  /\ IF Orphan(k) /\ ~gc.dry THEN Remove(k) ELSE UNCHANGED file
  /\ gc' = [gc EXCEPT !.page = @ \ {k}]
  /\ UNCHANGED <<pc, body, stuck, serverVars, apart>>

\* backend.Delete fails: "warn: delete ...", and the sweep goes on.
GcSweepFails(k) ==
  /\ GcAt(k)
  /\ Orphan(k) /\ ~gc.dry
  /\ RemoveFails(k)
  /\ gc' = [gc EXCEPT !.page = @ \ {k}, !.warned = @ \cup {k}]
  /\ UNCHANGED <<pc, body, stuck, serverVars, apart>>

GcNextPage ==
  /\ gc.pc = "sweep"
  /\ gc.page = {}
  /\ gc.token # 0
  /\ gc' = [gc EXCEPT !.pc = "list"]
  /\ UNCHANGED <<storeVars, serverVars, apart>>

\* No page is left: "gc: scanned ... deleted ...".
GcFinish ==
  /\ gc.pc = "sweep"
  /\ gc.page = {}
  /\ gc.token = 0
  /\ gc' = NoRun
  /\ UNCHANGED <<storeVars, serverVars, apart>>

\* The run ends early: it is killed, or a file vanishes under the walk of
\* backend.List and the error ends it ("list blobs").
GcAbort ==
  /\ gc.pc # "off"
  /\ gc' = NoRun
  /\ UNCHANGED <<storeVars, serverVars, apart>>

GcStep ==
  \/ GcList
  \/ \E k \in Keys : GcSweep(k) \/ GcSweepFails(k)
  \/ GcNextPage
  \/ GcFinish

-----------------------------------------------------------------------------
Init ==
  /\ StoreInit
  /\ row = [p \in Paths |-> NoRow]
  /\ target = [c \in Calls |-> NoRow]
  /\ over = {}
  /\ pull = [r \in Readers |-> NoPull]
  /\ gc = NoRun
  /\ apart = TRUE

ServerNext ==
  \/ \E c \in Calls :
       \/ \E p \in Paths, b \in Bodies : UploadBegin(c, p, b)
       \/ UploadStep(c)
       \/ UploadRecord(c)
       \/ UploadRecordFails(c)
       \/ FetchMismatch(c)
       \/ \E d \in Digests : FetchMisstated(c, d)
  \/ \E p \in Paths : DeleteArtifact(p)
  \/ \E r \in Readers :
       \/ \E p \in Paths : PullResolve(r, p)
       \/ PullServe(r)
       \/ PullMissing(r)
  \/ ServerCrash

GcNext ==
  \/ \E dry \in BOOLEAN : GcSnapshot(dry)
  \/ GcStep
  \/ GcAbort

Next == ServerNext \/ GcNext

Spec == Init /\ [][Next]_vars

\* A run of the collector is one sequential loop that nothing blocks: once
\* started it keeps taking steps.
FairSpec == Spec /\ WF_vars(GcStep)

-----------------------------------------------------------------------------
(* Properties. *)

TypeOK ==
  /\ StoreTypeOK
  /\ row \in [Paths -> Digests \cup {NoRow}]
  /\ target \in [Calls -> Paths \cup {NoRow}]
  /\ over \in SUBSET Calls
  /\ pull \in [Readers -> [pc: {"idle", "resolved"},
                           path: Paths \cup {NoRow},
                           digest: Digests \cup {NoRow}]]
  /\ gc \in [pc: {"off", "list", "sweep"}, dry: BOOLEAN, refs: SUBSET Digests,
             page: SUBSET Keys, token: Nat, warned: SUBSET Keys]
  /\ apart \in BOOLEAN

\* Every artifacts row names a digest whose blob is there, so that what was
\* uploaded can be downloaded, whatever runs together (gc.go:4-7 and
\* README.md:503 say that the collector may run while the server does).
NoDanglingRow ==
  \A p \in Paths : row[p] # NoRow => Exists(BlobKey(row[p]))

\* A row keeps its blob through crashes, failed statements, deletions and
\* aborted collections until an upload has run during a collection
\* (gc.go:53-113), a proxy was sent another artifact's body for a layer, which
\* it deletes (docker/proxy.go:97-103), or was told a manifest's digest that
\* nobody has stored (docker/proxy.go:131-147).
RowsKeepBlobs == apart => NoDanglingRow

\* Until then a download answers "blob missing" only when the row it had read
\* was deleted or replaced under it (manifest.go:71-79).
PullMissesOnlyStaleRows ==
  [][\A r \in Readers : apart /\ PullMissing(r) => row[pull[r].path] # pull[r].digest]_vars

\* A collection that reaches its end has deleted every blob that was not
\* referenced when it began and every temporary file beside the blobs, or has
\* warned of it by name: the deletions of one page, and those that fail, hide no
\* key from the next (gc.go:79-113).
CollectsAllOrphans ==
  [][apart /\ GcFinish /\ ~gc.dry =>
       /\ \A d \in Digests : Exists(BlobKey(d)) => d \in gc.refs \/ BlobKey(d) \in gc.warned
       /\ \A k \in BlobTmps : Exists(k) => k \in gc.warned]_vars

\* The server and the collector together use the blob store only through the
\* operations BlobStore gives it.
UsesBlobStore == StoreSpec

\* A run of the collector comes to an end, also while uploads add keys
\* (gc.go:79-113: each page starts beyond the last key of the one before): again
\* and again there is none.
GcTerminates == []<>(gc.pc = "off")
=============================================================================
