# A verification project for packrune

packrune is an artifact registry: one Go process that speaks the Docker, npm, Helm,
Go, PyPI and Maven protocols over one SQL database (SQLite or Postgres) and one tree
of files named by their SHA-256. This directory has TLA+ modules of the parts of it
where interleavings, crashes and failing statements decide whether an artifact that
was accepted can be fetched again, TLC configurations that check them on small
instances, and TLAPS proofs for every value of the constants.

Run in this directory:

    tlc -workers 2 -config Registry.cfg MCRegistry    # any pair of the table of runs
    tlapm RegistryProofs.tla                          # and each other *Proofs.tla

`PROJECT.json` names the runs, the lines of source that each definition models, for
each property a mutated definition that breaks it, the hazards of the code and the
theorems.

## 1. Inventory

### Components

| component | state it keeps | operations | who calls it |
|---|---|---|---|
| content store (`internal/storage/cas` over `storage/fs`) | files `blobs/sha256/<2hex>/<hex>`, uploads under `blobs/_uploads/`, `.pkr-*.tmp` files beside both | `Put`, `Get`, `Stat`, `Delete`, `List` | every format handler, the collector |
| rows (`internal/repo/store.go`) | tables `repositories`, `artifacts` (unique on repository and path) | `Ensure`, `UpsertArtifact`, `GetArtifact`, `DeleteArtifact`, `ResolveArtifact`, `ListArtifactsByPrefix` | every format handler |
| collector (`packrune gc`, `cmd/packrune/gc.go`) | a snapshot of the referenced digests, a page token | one pass over the listing | an operator, as a process of its own |
| Docker (`internal/format/docker`) | upload sessions: a map in memory, a temporary file each; rows of layers, bindings, tags and manifests | POST, PATCH, PUT, GET and DELETE of an upload; HEAD, GET, PUT, DELETE of manifests and layers; tag list, catalog | Docker clients |
| npm (`internal/format/npm`) | one packument blob for each package, tarballs | publish, install | npm |
| Maven (`internal/format/maven`) | files, checksum files, `maven-metadata.xml` | upload, download | Maven |
| Helm, Go, PyPI handlers | rows of charts, module files, wheels; fetched copies | upload, download, index pages, pull-through | their clients |
| group repositories (`repo/store.go:155-236`) | none: a walk over the members' rows | download, listing | every format handler's reads |
| webhooks (`internal/webhook`) | tables `webhooks`, `webhook_deliveries`; goroutines | `Create`, `Delete`, `Fire`, the retry worker | admin API, server |
| migrations (`internal/db/migrate.go`) | table `schema_migrations`, the schema | `ApplyMigrations` | the server and every command line tool at start |
| users and tokens (`internal/auth`), admin API (`internal/api`), audit log (`internal/audit`) | tables `users`, `tokens`, `audit_log`; the clients' cookies | login, logout, `requireAuth`, users and tokens, change of password, pages of the log | web interface, `packrune users` |
| proxies (`proxy.go` of each format) | rows and blobs of what was fetched; PyPI's stub rows | fetch of a file, of a page, of a Docker manifest or layer | the handlers of a proxy repository |
| backup and restore (`cmd/packrune/backup.go`, `restore.go`) | an archive; the database file, its log, the tree | copy file by file, unpack file by file | an operator |

Processes meet in two places only, the database and the file tree. There is no
transaction that spans two statements of a handler (migrations are the exception), no
lock around files, and no lock between processes. A handler is a sequence of file
operations and single statements, each of which may fail or be the last one before the
process dies. That sequence is what the modules model, one action for each.

### What is hard

* **Two writes that belong together.** A blob and its row, a tag and its digest's row, a
  tarball and its packument, a file and its metadata: a reader, a collector or a crash
  comes in between.
* **Read, then write.** The collector's snapshot, the packument, the list of versions, the
  batch of the webhook worker, the size of an upload session: what was read is out of date
  when it is used.
* **Several processes.** `gc` beside the server, replicas with a worker each, processes that
  start together and migrate.
* **Failures in the middle.** Full disks, deletions that the system refuses, bodies that break off, statements that fail, lost
  answers of webhook subscribers, restarts that lose what is in memory and keep what is on disk.
* **Walks over changing data.** A paged listing while keys are deleted, a group's members
  while rows come and go, pages of the audit log while records arrive out of order, an archive of
  files that change.
* **Checked once, used later.** A login whose password is changed before its token is inserted, a
  fetch that was missing when the request began.

`PROJECT.json` has these as hazards, each at its line, with the properties aimed at it.

### What makes a component correct

| component | correctness |
|---|---|
| content store | a digest names the whole body with that digest, always; a digest is returned only when its body is in place; calls that are over leave no files but those the system would not delete |
| rows and collector | a row names a blob that is there; a complete collection leaves no orphan that it has not warned of, and comes to an end |
| Docker uploads | what is recorded was hashed and stored; the session's size is the file's length; a session ends once, with its file |
| Docker images | a tag names an image that is whole; a push that is answered is bound; listings are exact |
| npm | listed versions stay and are served as listed; a publisher who is answered has published |
| Maven | metadata names only versions that have a file, and all that were answered; checksums fit their files |
| groups | the first member that has an artifact wins; nothing that stays is missed |
| webhooks | "delivered" means accepted, and stays; a limit on attempts; retries happen |
| proxies | what was fetched once can be served from then on; a page has all its files or asks again; a row names the blob it was fetched for |
| users and tokens | no token outlives a change of password but those in flight; a logout is final |
| audit log | a client that pages to the end has seen what was there |
| backup and restore | a backup gives back what was there; a row comes back with its blob |
| migrations | versions in order, complete before the process goes on; no-op afterwards; starts succeed eventually |

## 2. Plan

Order of the modules, most important behaviour first. *Done* means modelled, checked
and described below.

1. `ContentStore`, `BlobStore`, `Registry` with their proofs: artifacts are not lost. *Done.*
2. `DockerUpload`, `ArtifactListing`, `DockerImages`. *Done.*
3. `VersionIndex`, `NpmPublish`; `MavenUpload`. *Done.*
4. `WebhookDelivery`, `Migrations`, `GroupResolve`. *Done.*
5. `PullThrough` on `GroupResolve`, the Docker proxy in `Registry`: first fetches that overlap, stub
   rows, a fetched body that does not have the digest that was asked for. *Done.*
6. `AuditLog`, `Sessions`: logins that overlap a change of password or a deactivation. *Done.*
7. `Backup`: archives of a running server, restores that break off. *Done.*
8. Proofs: every safety and action property of the runs, and both refinements, with their inductive
   invariants. *Done.*
9. Pure algorithms: semantic version order of the Helm and Go indexes, the chart parser. *Left.*

Compositions: `Registry` extends `BlobStore` and interleaves its file operations with rows,
downloads and the collector. `PullThrough` extends `GroupResolve` with a member that has an upstream,
and `Sessions` extends `AuditLog`, to which its logins write. `DockerImages` extends `ArtifactListing`, whose operators
compute the listings from its rows. `DockerUpload`, `DockerImages` and `NpmPublish` take a
`Put` as one step: that is what `BlobStore` is proved to implement.

Abstract specifications: `ContentStore` (implemented by `BlobStore`) and `VersionIndex`
(implemented by `NpmPublish` under the conditions given there).

## 3. Modules and the code

State variables are named for what they stand for, actions for the functions they
translate. Variables that only remember are called history variables here: `apart`,
`crowded`, `cut`, `bare`, `past`, `contended`, `ever`, `steady`, `given`, `own`, `had`, `voice`, `unsummed`, `sole`, `wrote`,
`gen` and `late`, `out`, `spoiled`, `sound`, the restore's `alone`, and the archive's `torn`, `collected`, `quiet` and `taken`. No action's guard reads
one. They say in which behaviours a property is promised, where the code does not promise it
in all: a property of the form *until uploads overlap, ...* is checked in a model in
which uploads do overlap, up to that moment, and not in a model in which they cannot. What lies
beyond that moment is not promised by anything here; section 7 lists it.
Definitions under a comment that begins "Mutant of" are not part of any specification: each
is a plausible error that some property has to find.

**ContentStore** (abstract). A `Put` is invoked, takes effect at one instant (`Commit`), and
returns; an error or a crash may come at any time, with or without the effect.

**BlobStore** (`cas.go`, `fs.go`). `file[k]` is the content of a storage key; keys are those of
an upload, its temporary file, the temporary file beside a blob, and the blob. `PutBegin`
... `PutReturn` are the file operations of one `cas.Put`: create a temporary file, rename it
to the upload's key, `Stat` the digest key, then either drop the upload (`PutHit`) or copy it by
a second temporary file and rename (`PutMiss`, `PutLink`). `PutRefused` and `PutCopyFails` are
its error paths, `Crash` the death of the process, `DeleteBlob` and `SweepTmp` what others do to
the files. Every deletion may be refused by the system, which cas.go:63, 76 and fs.go:89, 96 ignore: `Remove` takes the
file away or adds the call to `stuck`. *External assumptions:* `rename` is atomic, SHA-256 has no collisions
among the bodies stored (`HashAssumption`).

**Registry** (`store.go`, `helm/handler.go`, `docker/manifest.go`, `gc.go`). `row[p]` is the digest
column of a path. Uploads run `BlobStore`'s actions and then `UploadRecord`; downloads are
`PullResolve` and `PullServe` or `PullMissing`. The collector takes its snapshot
(`GcSnapshot`), lists a page (`GcList`: all keys beyond the token, in the order `KeyPos`, up to
`PageLimit`), deals with its keys one by one (`GcSweep`, or `GcSweepFails`: the deletion fails, the key is in the
warnings, `gc.warned`, and the sweep goes on), and goes on with the next token
that `fs.List` gives. It may be killed at any step. `Orphan` has the code's rule with its
two corner cases: temporary files beside blobs have four parts in their key and name no
digest, so they are deleted; upload keys have three parts and are skipped. `apart` is FALSE
from the moment an upload begins during a collection or a collection during an upload. A fetch of the
Docker proxy (`docker/proxy.go`) is an upload that may end otherwise: a layer whose body has another digest than
was asked for (`Wanted`) is stored and deleted again (`FetchMismatch`), a manifest gets its row under
the digest that the upstream's header states (`FetchMisstated`). `apart` ends when that deletion
takes a blob that somebody else stored, or that row names no blob.

**DockerUpload** (`upload.go`, `blob.go`). A session is `home[s]` (whose map has it), its file
(`named`, `bytes`) and `size`. Requests look the session up once and then work without a lock, a
step for each file operation: `OpenFile`, `CopyPiece`, `CopyEnd`, `SetSize`, `HashFile`,
`StoreBlob`, `RecordBlob`, `BindImage`, `Finish`. A file whose name is gone keeps its bytes for
those who have it open. `Monolithic` is the POST with digest and body. A restart loses
the map and keeps the files; so does the end of a session whose file the system would not remove (`RemoveFile`, `litter`). `crowded` has the sessions that two requests worked on at a time.

**ArtifactListing** (`store.go:255-274`, `manifest.go:150-220`). Pure operators: which paths
`LIKE 'prefix%'` fits, with `_` standing for any character, and what the tag list and the
catalog make of them. A path is a sequence of elements; only characters that the answer depends on
are told apart.

**DockerImages** (`manifest.go`, `blob.go`, `gc.go`). `blobs` is the store; `kept`, `bound`, `tag`,
`digest` are the four kinds of rows. A push heads and sends the layers its manifest lists, then the
manifest. A layer is stored, gets its row `blobs/<digest>` and its binding (`PushLayer`, `KeepLayer`, `BindLayer`), a manifest its blob, tag row
and digest row, and each of these steps may be the last. `HeadLayer` asks the store, not the rows. A pull resolves a tag and
then asks for the digest and the layers. That a client sends the layers before the manifest is the
client's rule, not the server's: the server reads nothing from a manifest. `Collect` runs between
pushes; `Registry` has the finer one. `cut` has the digests of which a push ended between the two rows,
or whose row was deleted; `bare` the layers that a client was told not to send while they had no row.

**VersionIndex** (abstract), **NpmPublish** (`npm/handler.go`, `packument.go`). The packument is read
(`Load`), the tarball and its row are stored, the version is merged into what was read, and the result
replaces the packument. `past` remembers overlapping publishes, a read that failed and was taken for a
new package, and a version published again with another tarball.

**MavenUpload** (`maven/handler.go`). File row, checksum (unless there is one), list of versions,
metadata. A list counts whatever row lies under the artifact's path (`Listed`): primary files, checksums, and what
clients push beside them, a signature or the files of a group that is named like the artifact (`beside`, `PushSum`, `PushBeside`);
`PushMeta` is a client's own metadata. `wrote` says who wrote the metadata last: an upload that was the only one since its list ("whole"), another ("late"), or a client;
`sole` has the upload that has been alone since its list, `unsummed` the versions whose checksum could not be written.

**WebhookDelivery** (`webhook.go`, `worker.go`). `row[d]` is the row of one event and one subscription,
`sender[d]` the goroutine that inserts it, posts and marks it, `worker[p]` the retry loop of a
process with the batch it has scanned. A POST may be accepted while its answer is lost. A
row is due or not; `ComeDue(d)` is the end of its backoff. `order` has the deliveries by the `created_at` of their rows, and `Scan`
takes the oldest rows that are due, up to `BatchLimit`. `contended` has the deliveries that two workers had in hand at a time.

**Migrations** (`migrate.go`). `objects` are the versions whose tables exist, `mark` the rows of
`schema_migrations`, `proc[p]` a process with the versions it found missing. The transaction of a
version is one step; the dirty mark is another, outside of it. `past` remembers processes that
migrated together and statements that failed for a passing reason.

**GroupResolve** (`store.go:155-236`). A walk reads the group's own rows, its record, and then for each
member the repository and its rows, each a statement of its own, with writers in between. `ever` and
`steady` remember what rows there were while a walk ran; `skipped` the members whose query failed.

**PullThrough** (`proxy.go` of Maven, Helm, Go, npm and PyPI, `pypi/handler.go`). One member of the group is a
proxy. `fetch[f]` is a request that has missed and asks the upstream: `AskFile`, then `KeepFile` or
`EndFile`; or the page of a PyPI package, `AskPage`, then `RecordLink` or `SkipLink` for each link. `stub` has
the rows of size 0: links without a file, and files without a byte, which the code cannot tell apart (`Empty`). A link may state a digest or
none (`Unstated`). Formats differ in which paths are kept (`Metadata` is not). Storing a body and
its row are one step, as `Registry` has them apart. `own` has the paths a client uploaded to the proxy, `cut` is TRUE once a page
was recorded half-way, `had` has the wheels that were fetched, `voice` the one digest that links and bodies have agreed on.

**AuditLog** (`audit.go`, `store.go`, `api/audit.go`). `log[i]` is the time of the i-th record inserted, which its process
stamped earlier; `pager` a client with its cursor and the rows it may still expect.

**Sessions** (`service_db.go`, `api/`, `cmd/packrune/users.go`). `user`, `token` are the tables. A login verifies, inserts its token,
writes its audit record and answers; every other request is let in by `requireAuth` on the rows it read, and then
acts. `packrune users passwd` updates the row and then deletes the tokens. `gen` counts passwords: a token has
the `gen` it rests on. `late` marks a request that verified before a deletion of tokens and acts after it, and what it inserts; `spoiled` the users whose
deletion failed, which the code ignores; `out` the tokens that a logout deleted.

**Backup** (`backup.go`, `restore.go`). `main` are the rows in the database file, `log` what its write-ahead log has of each page,
`blobs` the tree. The server commits, checkpoints, collects, stops (the last close removes the log), crashes (the log stays) and
starts, which leaves a log file (`ServerCrash`, `Shutdown`, `Start`). `CopyDb`, `CopyLog`, `ReadDir`, `CopyBlob` and `RestoreDb`, `RestoreLog`, `RestoreBlob` are the two commands, each of
which may end half-way. Neither asks whether a server runs: `rst.alone` is FALSE of a restore that one ran beside. *External assumption:* SQLite reads a log that lies beside a main file, whichever it is.

MC modules give the constants that a `.cfg` cannot write: functions, sequences and symmetry sets.

## 4. Runs

All passing runs are exhaustive. Sizes are distinct states.

| run | instance | states | what it shows |
|---|---|---|---|
| `registry` | 2 uploads or fetches of 2 bodies to 2 paths, 1 reader, pages of 2 of 8 keys, any number of collections, 1 call whose deletion is refused | 903,021 | digest keys hold whole bodies, ended calls leave no file that could be deleted, the files implement `ContentStore`; rows keep their blobs and collections are complete, up to what they warned of, until an upload and a collection, or a wrong fetch and its like, meet; a collection ends, whatever meets |
| `gc_dangling_row` | the same | violation | what happens when they meet (section 7) |
| `docker_upload` | 1 server, 1 session, 4 requests, bodies of up to 2 pieces | 2,987,356 up to symmetry | section 3's promises for one session |
| `docker_images` | 2 images, 2 manifests that share a layer, 2 pushers, 1 puller, 2 pushes, 1 pull, 1 deletion, 1 collection | 1,527,746 up to symmetry | images stay whole but for bare layers, resolved digests are served, listings are exact |
| `npm_publish` | 3 publishes of 2 versions and 2 tarballs, 1 install | 102,082 up to symmetry | listed versions are complete and installed with the right hash; `VersionIndex` until publishes overlap |
| `npm_lost_update` | the same | violation | what overlap does (section 7) |
| `maven_upload` | 2 clients, 2 versions, 2 bodies, 3 uploads, any number of pushes beside | 1,194,078 up to symmetry | metadata and checksums |
| `webhook_delivery` | 2 replicas, 1 subscription, 2 events, limit 3, batch 2, 1 fault | 753,032 | delivered rows were accepted and stay; attempts; retries under fairness |
| `migrations` | 3 processes, 3 versions, 2 deaths | 65,536 | order, completeness, no-op, start-up under fairness |
| `pull_through` | a group of a proxy and another member, 4 paths, 1 body, the empty body and a link without a digest, 2 fetches, 1 walk, 2 uploads or deletions | 2,431,273 up to symmetry | first member wins, nothing that stays is missed; what was fetched once can be served; PyPI pages are whole |
| `sessions` | 2 users, 2 tokens, 2 requests, 1 command, 2 passwords, 1 fault, pages of 2 of 4 records, 5 rows or changes in all | 3,578,780 up to symmetry | tokens after a change of password, logouts, pages |
| `backup` | 2 blobs, any number of commands, crashes and collections | 13,199,980 | what a backup gives back, and that rows have their blobs |

### Bounds and why they are enough

* *registry*: the page limit of 2 makes a listing of 8 keys have up to four pages, so that a page ends on a
  blob, on a temporary file and on a key that is then deleted. Two uploads meet in one collection. A
  reader needs one row. `MaxStuck` bounds the calls whose deletion is refused, so that one leaves files beside another's. A digest without a body is one that nothing may create, and that a header may state.
* *docker_upload*: POST, two requests that meet, and one that comes after: four. Two pieces make a body
  that breaks off in the middle. Sessions share nothing but the content store, so one suffices.
  More replicas only add "404, unknown session", which a restart of the one shows as well.
* *docker_images*: one image's deletion must not take another's layer: two images, one shared layer. An upload that
  ends between the blob and its row, a push that is told not to send that layer, and a collection: two pushes, one collection. A manifest that has one row, pushed by digest or
  tagged by a push that failed then, needs one deletion to be nobody's. The two
  names differ in one character, which is an underscore in one of them, the case LIKE can confuse.
* *npm_publish*, *maven_upload*: two writers overlap and a third write or a retry comes after. What Maven clients push
  beside is not bounded.
* *webhook_delivery*: the limit is 3 instead of 6 and the batch 2 instead of 50; the first attempt, a retry
  that waits for the next, and a row at the limit are all there. `Pool` lets a statement get a connection with or without foreign
  keys, as a pool of SQLite connections does after the pragma of db.go:126.
* *migrations*: with three versions one is the first, one the last and one neither.
* *pull_through*: the group's own rows and two members put a member before the one that answers, and one after. Two
  fetches overlap, two wheels make a page that is half-recorded, and two writes move a row under a walk and replace
  what was fetched. Clients upload the file that is no wheel, so that no wheel is an upload of the proxy's own; the proofs have uploads of any path, and
  any number of members.
* *sessions*: one request is past its check while a command runs and another request logs out or deactivates.
  Two tokens are one from before and one from after a change. Four records in pages of two: the client holds a page, has more rows to see, and a record stamped
  between its cursor and those is written meanwhile. Three times make ties and an order other than that of insertion. `MaxWork` bounds
  records, tokens and changes of passwords together: long histories of all three at once are left out, each alone is not.
* *backup*: one blob that the walk has passed and one that is to come. Nothing else is bounded.

`CHECK_DEADLOCK FALSE` is set where every request is made once, or a bound is spent, and the system then
rests: `docker_upload`, `docker_images`, `npm_publish`, `npm_lost_update`, `maven_upload`, `webhook_delivery`, `sessions`.

### Fairness

* `Registry`: weak fairness of `GcStep`. A collection is one sequential loop that waits for nobody. `GcAbort`
  also ends it, so the property is that it never lists for ever.
* `WebhookDelivery`: weak fairness for each goroutine, each worker (it polls every 30 s, a POST ends by its
  timeout of 15 s) and the end of each row's backoff. `Crash` and failing statements are limited by `MaxFaults` and have no fairness.
* `Migrations`: strong fairness of each process's steps: a process that exits is started again
  (`deploy/systemd/packrune.service:12-13`, `Restart=on-failure`; a Kubernetes deployment does the same), and
  keeps being started however often it is interrupted. `MaxCrashes` bounds the deaths.

## 5. Proofs

Eight modules, checked by tlapm to the last leaf; two components that belong together share one. They use nothing but the
assumptions the component modules name: `HashAssumption`, `MarkerAssumption`, `ListAssumption`, `RowAssumption`, `FetchAssumption`,
`MigrationAssumption`, `MavenAssumption`, `GroupAssumption`, `PullAssumption`, `AuditAssumption`, `SessionsAssumption`,
`ImagesAssumption`, `NamesAssumption`, `UploadAssumption`, `PublishAssumption`, `DeliveryAssumption`, `BackupAssumption`, and those that tell
records from `None`. Every safety invariant and every action property of the passing runs is the subject of a theorem,
and so are the refinements of both abstract specifications.

**RegistryProofs**, the store. For any sets of calls, bodies and digests: `StoreTypeCorrect`, `StoreContentIntegrity`,
`StoreNoLeftovers`, and `StoreImplementsContentStore`. The inductive invariant `StoreInv` has, beside the
type and the two properties, what they rest on: an upload's key holds the body of its call from the rename
to its deletion (`UploadIsBody`), a call has at most one temporary file and only where it stands (`OneTmpAtMost`), no
upload's key exists before the body was received (`NoUploadYet`), and a call past its first step has a body (`Begun`).
`ContentIntegrity` alone is not inductive: what `PutLink` renames to the digest key is the upload's
content, and nothing else says that it is the right one.
The refinement maps `store` to the files under digest keys and `phase` to the program counter. `Commit` is the
rename of the copy, or the `Stat` that finds the blob there.

**RegistryProofs**, server and collector. For any number of uploads, paths, readers and bodies, any page limit and any order of the
listing: `TypeCorrect`; `RegistryUsesBlobStore`, that server and collector together take only steps of
`BlobStore` on its variables, from which `RegistryIntegrity`, `RegistryNoLeftovers` and `RegistryImplementsContentStore` follow; and, of behaviours up to the moment an upload and
a collection meet, `RowsKeepBlobsWhenApart`, `PullMissesWhenApart`, `CollectsAllWhenApart`. The invariant is
`apart => RegistryInv`, with six parts:

* `Targets`, `OverStored`: a call that has begun has a path; a handler that is over had its digest.
* `Settled`: an upload that will write its row has its blob in place. Without it, `UploadRecord` could make a
  row dangle.
* `Alone`: while a collection runs no upload is pending and every row's digest is in the snapshot. This keeps
  `Settled` and `NoDanglingRow` through `GcSweep`.
* `NoDanglingRow`, the property.
* `OrphansAhead`: every orphan that still exists and was not warned of is on the page, or beyond the token. It needs two lemmas about
  the listing: a page is an initial part of what follows its token (`PageIsInitial`), and the next token
  separates it from the rest (`NextTokenSeparates`).

**DockerProofs**, uploads. For any servers, sessions, requests, bodies and claims: `UploadTypeCorrect`, `RecordedIsStoredAlways`,
`SizeIsFileLengthAlways`, `SessionLifecycleAlways`. A handler computes, compares, stores and records in four steps without a lock, so
`RecordedIsStored` is not inductive. `UploadInv` adds what a handler knows at each step of a session that was never crowded:
`OneByOne`, that no other handler works on it; `Compared`, that the file still has the digest that was compared, and then that this digest is
stored; `Sized`, that the file is ahead of the size by exactly what the one appending handler has sent. `RequestsKnow` says what a
request has at each place: its session, its image, a digest that somebody computed. `SessionLifecycle` needs no `crowded` and
holds of crowded sessions, too; `AtHome` says that the session of a request at work is where the request is, or was dropped, with its file gone or litter.

**DockerProofs**, images. For any images, layers, clients and bounds: `TypeCorrect`, `NamedIsWholeAlways`,
`DigestPullWorksAlways`. The first property rests on two facts. A layer with a row keeps it, so that no collection takes its blob; and `PushesWhole`: what a push need not send, or has recorded, is there when its
rows are written, unless it is bare. The property was once stated of all layers, with the blob and the row as one step; split into the code's steps it is false, and `bare` is what is left over. The second on `Follows`: what a tag names
or a client resolved has its digest row, lost it, or has a push that is about to write it.
`ListingsAreExactAlways` is a fact about every state: of the paths of rows (`PathsAre`) a pattern that ends in `/manifests/` fits
only those of images whose names it fits, because the separator tells a name's length (`LikeManifest`, `LikeNoBlob`), and a name without an
underscore fits itself alone (`FitsNoOther`). It rests on `NamesAssumption`: a name ends before the first `/manifests/`.

**NpmPublishProofs.** For any versions, tarballs, tags, publishers and installers: `TypeCorrect`, `ListedIsCompleteAlways`,
`InstallsMatchAlways` and `PublishImplementsVersionIndex`. A publisher merges into what it read long before, so the packument it writes has
to be complete in its own right: `Packed` says of every packument in use, the current one and those that publishes hold, that what it lists was published
and has a tarball, and that its tags name what it lists, which no step of another takes away. `Resolved` says of an install that the hash it holds was
published, and `Unrepeated` that a version has been published with one tarball only, until one is published again ("again"). The refinement needs `InTurn`: while publishes have not
overlapped and no read has failed, what a publisher has loaded is still what is there, so that the write that replaces the packument is
the abstract `List`, which adds one version and leaves the others alone.

**MavenUploadProofs.** For any versions, bodies, clients and uploads: `MetadataIsSoundAlways`,
`AnsweredIsListedAlways`, `AnsweredHasChecksumAlways`. `Kept` is what makes a stale list harmless: whatever has a checksum or was
listed has its file or one pushed beside, what an upload has stored has its file, and files' rows are never deleted. `ListInv` and `SumInv` follow an upload from its
list, or its checksum, to its answer.

**WebhookDeliveryProofs.** For any subscriptions, events, processes, limits and batches: `DeliveryTypeCorrect`,
`DeliveredWasAcceptedAlways`, `AttemptsWithinLimitAlways`, `RetriesAfterFirstAlways`, `DeliveredIsFinalAlways`. `RowsFollow` ties a row to the goroutine
that made it: pending with one attempt until the goroutine is done or dead. A batch is a copy of rows as they
were at the scan, so the properties are about what is out of date: `BatchesSound` says of each copied row that its first
attempt is over and that it had attempts left; `Claimed` that of an uncontended row there is one such copy, with the count that the
row still has. `FirstAccepted` and `RetryAccepted` carry "accepted" from the answer to the statement that marks the row. `Ordered`
says that a row's delivery is in `order` once, and is why a batch has no row twice. `AttemptsWithinLimit` bounds the column `attempts`, not the POSTs: one whose
UPDATE fails, or that a death cuts off, is made again and not counted.

**DatabaseProofs**, migrations. For any number of migrations, processes and deaths: `AppliedInOrderAlways`,
`UpIsCurrentAlways`, `NoopOnceCurrentAlways`. A process works from a list that it read once, so the order of the
tables is not inductive by itself: `Behind` says that whatever is no longer on a process's list has its tables,
which stays true because no step drops a table (`TablesStay`), also when another process is ahead. The
no-op rests on `Sole`: until processes overlap, what one has on its list is not recorded.

**DatabaseProofs**, backup and restore. For any number of blobs: `GivesBackAlways`, `RowsKeepFilesAlways`. `BackupInv` follows the rows through the three
places they are in. `DbSound`: a log lies in its file, and one that is folded into the main file says nothing new to the server
that folded it. `BackupFaithful`: while a backup runs, what it has copied is the database of its beginning if the server is
stopped, and in any case, unless torn, has only rows whose blobs are still there, copied if the walk has passed them. `ArchiveFaithful`: what remains of this when it is done.
`RestoreFaithful`: what a restore beside which no server runs has put in place so far is the archive's, unless a stale log lies beside it. Two facts about reading
a main file under a log carry the steps of the server, `CommittedRows` and `FoldedRows`.

**PullThroughProofs**, groups. For any group, members, paths, digests, requests and writes: `AnswerWasThereAlways`,
`FirstMemberWinsAlways`, `FoundIfThereAlways`. `History` relates the rows to what has been there ever or all
the time since each request began; with it, one query of a member settles its question for good
(`MissingNow`, `PresentNow`): a row that is missing now has not been there all the time. `Walk` carries this from member
to member in their order.

**PullThroughProofs**, proxies. For any members, paths, requests and writes: a proxy among the members changes the group's rows
in no way that uploads and deletions do not (`ProxyIsAMember`), from which the three theorems of groups follow for it
(`GroupsOfProxies`); and `MetadataNeverKept`, `PagesWhole`, `FetchedOnceServedAlways`. The invariant of pages, `PageInv`, says that while a page is
being recorded every link of it has its row or is still to do by some request. `ServedInv` is about requests that turn a fetched file back into a stub: as long
as links and bodies agree on a digest (`voice`), row and store do, too.

**SessionsProofs.** For any users, tokens, requests and commands: `TypeCorrect`, `SurvivorsWereInFlightAlways`,
`LoggedOutStaysOutAlways`, `PagesMissOnlyTiesAlways`. `RestsOnCurrent` says of requests what the first says of tokens: one that acts for a
user rests on the password of now, or a deletion has run since it verified, or is to come. `Issued` keeps a token that is gone
from coming back. `AheadOfPager`: what a paging client has still to see is before its cursor.

Only model-checked: liveness (`GcTerminates`, `FailedIsSettled`, `StartsUp`), which rests on fairness and so on ENABLED, beyond the
prover. Type invariants that are proved (`Registry`, `Migrations`, `MavenUpload`, `GroupResolve`, `PullThrough`, `Sessions`, `DockerImages`, `Backup`)
are not checked again by a run. Recursive definitions are beyond the prover, too; the batch of `WebhookDelivery` and the listings are
written without them.

## 6. Not modelled

* The Helm index, the Go list and latest version, PyPI's list of packages and renderings of a page, npm's `handleVersion`:
  computed from the rows at each request, they keep nothing. The orders and parsers in them are text.
* `Ensure` by processes that start together: the unique index lets one insert win, and the other process ends.
* Admin handlers of webhooks, repositories and the system: each decodes, calls one service and encodes.
* Postgres and SQLite themselves: a statement is atomic and may fail. The pool has 25 connections by
  default (`config.go:124`), so the statements of two handlers interleave on either.
* `LIKE` also ignores case in SQLite, and its underscore also affects the Maven, Go and PyPI listings; the
  Docker listings show the effect.
* Routing, validation of names, media types, errors, logging, metrics, configuration, the command line's
  printing, the web interface.

## 7. Disagreements with the documentation, and limits met while modelling

Two runs show a disagreement:

* `gc_dangling_row`: gc.go:4-7 and src/README.md:503 call the collector safe while the server is up. A row
  that is written after the snapshot loses its blob: the upload stores (or finds) the blob,
  the collector reads the digests, the upload writes its row, the collector deletes.
* `npm_lost_update`: packument.go:51-53 says existing versions are not overwritten. Two publishes of different
  versions that read the same packument end with only the later one's version.

The following are seen in the models, as a history variable that a property has to mention or as a
state that no property forbids:

| where | what |
|---|---|
| gc.go:88 | the collector deletes the temporary file an upload is copying to, and the upload fails |
| cas.go:63, 76, fs.go:89, 96 | a deletion that the system refuses is ignored, and the file of an ended call stays (`stuck`); on Windows that of cas.go:76 is always refused, as its reader is still open |
| gc.go:104 | a deletion that fails is a line of warning, and the collection ends as one that deleted all (`gc.warned`) |
| upload.go:90 | so is the removal of a session's file (`litter`) |
| cas.go:135 | keys of uploads have three parts and gc.go skips them: an upload that crashed stays for ever |
| upload.go:241 | a second request of a session may write to the file between the hash and the copy to the store, whose digest nobody compares (`crowded`) |
| upload.go:161 | a monolithic upload leaves its session and its file |
| upload.go:50, 176 | sessions are unknown after a restart and on other replicas, while the file stays |
| upload.go:246-255, blob.go:37 | a layer that is stored and whose row could not be written is answered as present; the next client does not send it, and the next collection takes it (`bare`) |
| manifest.go:120 | the tag is moved before the digest's row is written (`cut`) |
| blob.go:88 | deleting a layer leaves the row `blobs/<digest>`, so that the collector never finds it unreferenced |
| store.go:260 | an underscore in an image's name stands for any character (`ListingsAreExact`) |
| npm/handler.go:274 | the tarball's row is replaced before a repeated version is refused ("again") |
| npm/handler.go:253 | a read of the packument that fails is taken for a new package (`failedRead`) |
| maven/handler.go:161, 187 | a checksum is kept when its file is replaced; metadata of uploads that overlap loses a version, until the next upload |
| maven/handler.go:179, 192 | the comment says "every uploaded artifact for this (groupId, artifactId)"; the first part of any path below counts, so that a signature without its file, or the files of a group named like the artifact, make a version (`beside`) |
| worker.go:76 | nothing claims a failed row: two replicas retry it at once, and may pass the limit (`contended`) |
| webhook.go:159, 200 | Fire returns before its rows are inserted, and a row left "pending" by a death is never retried |
| worker.go:19-31 | the last delay is 16 minutes, not the 32 of src/README.md:583; Fire itself is not called by the server yet (PHASES.md:275) |
| db.go:126 | the foreign key pragma is set on one connection of the pool: a deleted webhook may keep its deliveries |
| migrate.go:158-161 | a dirty row makes the next INSERT of its version fail; processes that migrate together can leave one ("overlap", "error") |
| store.go:173-183 | a member whose query fails counts as empty (`skipped`); a group never asks a proxy's upstream |
| docker/proxy.go:101 | a fetched layer of the wrong digest is deleted under its own, which another artifact may have (`apart`) |
| docker/proxy.go:137 | a fetched manifest's row has the digest of the header, not of the body (`apart`) |
| pypi/proxy.go:111 | a page recorded half-way is never completed (`cut`); two first requests turn a file that was fetched in between back into a stub, which is still served if link and body agree (`voice`) |
| pypi/proxy.go:159, pypi/handler.go:183 | a file without a byte has the size of a stub and is asked for at each download (`Empty`) |
| webhook.go:232, worker.go:135 | a POST whose UPDATE fails is made again and not counted: the column `attempts` keeps its limit, the subscriber may see more |
| service_db.go:268-288 | a login or a request for a token in flight outlives the change of the password (`late`), and a deletion of tokens that fails is ignored (`spoiled`) |
| api/auth.go:82 | a logout whose lookup or deletion fails clears the cookie and leaves the token valid (not in `out`) |
| audit/store.go:57 | records of the time of a page's last one may be on neither page |
| restore.go:47 | nothing keeps a restore from running beside a server (`alone`); only the docs say to stop it |
| restore.go:70-114 | a log that a crash left beside the database is not removed, and is read over a restored database that came without one (`stale`) |
| backup.go:53-72 | a checkpoint while the database is copied, or a collection while the tree is, takes a row's blob away from the archive (`torn`, `collected`); backup.go:5-6 says to stop the server |
| backup.go:43-51 | a backup that fails leaves an archive that restore takes (`done`); errors of the deferred closes are ignored, so that a truncated archive may be called written (a restore of it fails) |
| pypi/handler.go:172 | a PyPI download looks at the group's own rows only ("direct") |
