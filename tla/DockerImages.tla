---------------------------- MODULE DockerImages ----------------------------
(***************************************************************************)
(* Images of a hosted Docker repository (internal/format/docker): a client   *)
(* pushes the layers of an image that the registry does not have, then its *)
(* manifest under a tag; another resolves the tag to a digest and pulls by *)
(* digest; layers and manifests are deleted; the collector runs between    *)
(* pushes (Registry has it together with them). The bytes of a layer come  *)
(* in one step here (DockerUpload has their steps), what the last request  *)
(* stores and records of it in three, any of which may be the last.        *)
(***************************************************************************)
EXTENDS ArtifactListing

CONSTANTS
  Images,          \* names of images, sequences of characters
  Layers,          \* digests of layers
  Manifests,       \* digests of manifests
  Needs,           \* Needs[m]: the layers that manifest m lists
  Pushers, Pullers,
  None,
  MaxPushes,       \* bound on pushes
  MaxPulls,        \* bound on pulls
  MaxDeletions,    \* bound on deletions
  MaxCollections   \* bound on runs of the collector

ASSUME ImagesAssumption ==
  /\ Layers \cup Manifests \subseteq Digests
  /\ Layers \cap Manifests = {}
  /\ Tags \cap Digests = {}
  /\ \A i \in Images : Len(i) > 0
  /\ Needs \in [Manifests -> SUBSET Layers]
  /\ None \notin Manifests \cup Tags \cup Layers
  /\ {MaxPushes, MaxPulls, MaxDeletions, MaxCollections} \subseteq Nat

\* A name is what comes before the first "/manifests/" of a request's path,
\* whatever follows (route.go:55-61). No tag or digest is a separator.
ASSUME NamesAssumption ==
  /\ Images \subseteq Seq(STRING \ {"/manifests/"})
  /\ Separators \cap (Tags \cup Digests) = {}

VARIABLES
  blobs,   \* digests in the content store
  kept,    \* layers with a row blobs/<digest>
  bound,   \* <<i, l>> with a row refs/<i>/blobs/<l>
  tag,     \* tag[i][t]: the manifest of the row refs/<i>/manifests/<t>
  digest,  \* <<i, m>> with a row refs/<i>/manifests/<m>
  push,    \* push[c]: the push of client c, with the layers that it has sent or
           \* need not send, and the one whose rows are being written
  pull,    \* pull[c]: the pull of client c
  count,   \* pushes, pulls, deletions and collections so far
  cut,     \* history: <<i, m>> whose row was deleted, or never written because
           \* the push failed before it, and not written since
  bare     \* history: layers that a client was told not to send while no row
           \* named them, and without a row since

vars == <<blobs, kept, bound, tag, digest, push, pull, count, cut, bare>>

-----------------------------------------------------------------------------
NoPush == [pc |-> "idle", i |-> None, t |-> None, m |-> None, there |-> {}, layer |-> None]
NoPull == [pc |-> "idle", i |-> None, m |-> None, got |-> {}]

Counted(what, bound_) == count[what] < bound_ /\ count' = [count EXCEPT ![what] = @ + 1]

Tagged == {tag[i][t] : i \in Images, t \in Tags} \ {None}

\* Mutant of Referenced: a layer is referenced by its bindings only.
ReferencedBound == {b[2] : b \in bound} \cup Tagged \cup {d[2] : d \in digest}

\* Digests that a row names.
Referenced == kept \cup {b[2] : b \in bound} \cup Tagged \cup {d[2] : d \in digest}

PushGoto(c, pc) == push' = [push EXCEPT ![c].pc = pc]
PullGoto(c, pc) == pull' = [pull EXCEPT ![c].pc = pc]

-----------------------------------------------------------------------------
(* Push. *)

\* t is None when the manifest is pushed under its digest.
PushBegin(c, i, t, m) ==
  /\ push[c] = NoPush
  /\ Counted("push", MaxPushes)
  /\ push' = [push EXCEPT ![c] = [NoPush EXCEPT !.pc = "layers", !.i = i, !.t = t, !.m = m]]
  /\ UNCHANGED <<blobs, kept, bound, tag, digest, pull, cut, bare>>

\* HEAD of a layer looks into the store, not at the rows of the image: the
\* client does not send a layer that any image has brought.
HeadLayer(c, l) ==
  /\ push[c].pc = "layers"
  /\ l \in Needs[push[c].m] \ push[c].there
  /\ l \in blobs
  /\ push' = [push EXCEPT ![c].there = @ \cup {l}]
  /\ bare' = bare \cup ({l} \ kept)
  /\ UNCHANGED <<blobs, kept, bound, tag, digest, pull, count, cut>>

\* The last request of an upload, also of a layer that is there: cas.Put.
PushLayer(c, l) ==
  /\ push[c].pc = "layers"
  /\ l \in Needs[push[c].m] \ push[c].there
  /\ blobs' = blobs \cup {l}
  /\ push' = [push EXCEPT ![c].pc = "row", ![c].layer = l]
  /\ UNCHANGED <<kept, bound, tag, digest, pull, count, cut, bare>>

\* The row of the layer.
KeepLayer(c) ==
  /\ push[c].pc = "row"
  /\ kept' = kept \cup {push[c].layer}
  /\ bare' = bare \ {push[c].layer}
  /\ PushGoto(c, "bind")
  /\ UNCHANGED <<blobs, bound, tag, digest, pull, count, cut>>

\* The binding of the image, and 201.
BindLayer(c) ==
  /\ push[c].pc = "bind"
  /\ bound' = bound \cup {<<push[c].i, push[c].layer>>}
  /\ push' = [push EXCEPT ![c].pc = "layers", ![c].there = @ \cup {push[c].layer},
                          ![c].layer = None]
  /\ UNCHANGED <<blobs, kept, tag, digest, pull, count, cut, bare>>

\* Either cannot be written: 400. The blob stays, and the client, if it goes on,
\* asks for the layer or sends it again.
LayerFails(c) ==
  /\ push[c].pc \in {"row", "bind"}
  /\ push' = [push EXCEPT ![c].pc = "layers", ![c].layer = None]
  /\ UNCHANGED <<blobs, kept, bound, tag, digest, pull, count, cut, bare>>

\* PUT of the manifest, after the client has sent what it lists: the server
\* reads no layer from it. First cas.Put.
StoreManifest(c) ==
  /\ push[c].pc = "layers"
  /\ push[c].there = Needs[push[c].m]
  /\ blobs' = blobs \cup {push[c].m}
  /\ PushGoto(c, IF push[c].t = None THEN "digest" ELSE "tag")
  /\ UNCHANGED <<kept, bound, tag, digest, pull, count, cut, bare>>

\* Mutant of BindTag: the digest's row is left to an old tag.
BindTagOnly(c) ==
  /\ push[c].pc = "tag"
  /\ tag' = [tag EXCEPT ![push[c].i][push[c].t] = push[c].m]
  /\ PushGoto(c, "answer")
  /\ UNCHANGED <<blobs, kept, bound, digest, pull, count, cut, bare>>

\* The tag is moved first.
BindTag(c) ==
  /\ push[c].pc = "tag"
  /\ tag' = [tag EXCEPT ![push[c].i][push[c].t] = push[c].m]
  /\ PushGoto(c, "digest")
  /\ UNCHANGED <<blobs, kept, bound, digest, pull, count, cut, bare>>

BindDigest(c) ==
  /\ push[c].pc = "digest"
  /\ digest' = digest \cup {<<push[c].i, push[c].m>>}
  /\ cut' = cut \ {<<push[c].i, push[c].m>>}
  /\ PushGoto(c, "answer")
  /\ UNCHANGED <<blobs, kept, bound, tag, pull, count, bare>>

\* 201: the push has been answered, and its client goes.
PushEnd(c) ==
  /\ push[c].pc = "answer"
  /\ push' = [push EXCEPT ![c] = NoPush]
  /\ UNCHANGED <<blobs, kept, bound, tag, digest, pull, count, cut, bare>>

\* A statement fails, the process dies, or the client gives up.
PushFails(c) ==
  /\ push[c].pc \in {"layers", "row", "bind", "tag", "digest"}
  /\ push' = [push EXCEPT ![c] = NoPush]
  /\ cut' = IF push[c].pc = "digest" THEN cut \cup ({<<push[c].i, push[c].m>>} \ digest) ELSE cut
  /\ UNCHANGED <<blobs, kept, bound, tag, digest, pull, count, bare>>

-----------------------------------------------------------------------------
(* Pull. *)

\* HEAD of a tag answers the digest of its manifest.
PullTag(c, i, t) ==
  /\ pull[c] = NoPull
  /\ tag[i][t] # None
  /\ Counted("pull", MaxPulls)
  /\ pull' = [pull EXCEPT ![c] = [pc |-> "manifest", i |-> i, m |-> tag[i][t], got |-> {}]]
  /\ UNCHANGED <<blobs, kept, bound, tag, digest, push, cut, bare>>

\* GET of the manifest by that digest.
PullManifest(c) ==
  /\ pull[c].pc = "manifest"
  /\ PullGoto(c, IF <<pull[c].i, pull[c].m>> \in digest /\ pull[c].m \in blobs
                 THEN "layers" ELSE "noManifest")
  /\ UNCHANGED <<blobs, kept, bound, tag, digest, push, count, cut, bare>>

PullLayer(c, l) ==
  /\ pull[c].pc = "layers"
  /\ l \in Needs[pull[c].m] \ pull[c].got
  /\ IF l \in blobs
     THEN pull' = [pull EXCEPT ![c].got = @ \cup {l}]
     ELSE PullGoto(c, "noLayer")
  /\ UNCHANGED <<blobs, kept, bound, tag, digest, push, count, cut, bare>>

PullEnd(c) ==
  /\ pull[c] # NoPull
  /\ pull[c].pc = "layers" => pull[c].got = Needs[pull[c].m]
  /\ pull[c].pc # "manifest"
  /\ pull' = [pull EXCEPT ![c] = NoPull]
  /\ UNCHANGED <<blobs, kept, bound, tag, digest, push, count, cut, bare>>

-----------------------------------------------------------------------------
(* Deletion and collection. *)

\* DELETE of a layer takes the binding, not the row of the digest.
DeleteLayer(i, l) ==
  /\ Counted("delete", MaxDeletions)
  /\ bound' = bound \ {<<i, l>>}
  /\ UNCHANGED <<blobs, kept, tag, digest, push, pull, cut, bare>>

DeleteTag(i, t) ==
  /\ Counted("delete", MaxDeletions)
  /\ tag' = [tag EXCEPT ![i][t] = None]
  /\ UNCHANGED <<blobs, kept, bound, digest, push, pull, cut, bare>>

\* DELETE by digest; the tags that name it stay.
DeleteDigest(i, m) ==
  /\ Counted("delete", MaxDeletions)
  /\ digest' = digest \ {<<i, m>>}
  /\ cut' = cut \cup {<<i, m>>}
  /\ UNCHANGED <<blobs, kept, bound, tag, push, pull, bare>>

Collect ==
  /\ \A c \in Pushers : push[c] = NoPush
  /\ Counted("collect", MaxCollections)
  /\ blobs' = blobs \cap Referenced
  /\ UNCHANGED <<kept, bound, tag, digest, push, pull, cut, bare>>

-----------------------------------------------------------------------------
Init ==
  /\ blobs = {}
  /\ kept = {}
  /\ bound = {}
  /\ tag = [i \in Images |-> [t \in Tags |-> None]]
  /\ digest = {}
  /\ push = [c \in Pushers |-> NoPush]
  /\ pull = [c \in Pullers |-> NoPull]
  /\ count = [what \in {"push", "pull", "delete", "collect"} |-> 0]
  /\ cut = {}
  /\ bare = {}

Push(c) ==
  \/ \E i \in Images, t \in Tags \cup {None}, m \in Manifests : PushBegin(c, i, t, m)
  \/ \E l \in Layers : HeadLayer(c, l) \/ PushLayer(c, l)
  \/ KeepLayer(c)
  \/ BindLayer(c)
  \/ LayerFails(c)
  \/ StoreManifest(c)
  \/ BindTag(c)
  \/ BindDigest(c)
  \/ PushEnd(c)
  \/ PushFails(c)

Pull(c) ==
  \/ \E i \in Images, t \in Tags : PullTag(c, i, t)
  \/ PullManifest(c)
  \/ \E l \in Layers : PullLayer(c, l)
  \/ PullEnd(c)

Delete ==
  \E i \in Images :
    \/ \E l \in Layers : DeleteLayer(i, l)
    \/ \E t \in Tags : DeleteTag(i, t)
    \/ \E m \in Manifests : DeleteDigest(i, m)

Next ==
  \/ \E c \in Pushers : Push(c)
  \/ \E c \in Pullers : Pull(c)
  \/ Delete
  \/ Collect

Spec == Init /\ [][Next]_vars

-----------------------------------------------------------------------------
(* Properties. *)

TypeOK ==
  /\ blobs \subseteq Layers \cup Manifests
  /\ kept \subseteq Layers
  /\ bound \subseteq Images \X Layers
  /\ tag \in [Images -> [Tags -> Manifests \cup {None}]]
  /\ digest \subseteq Images \X Manifests
  /\ push \in [Pushers -> [pc: {"idle", "layers", "row", "bind", "tag", "digest", "answer"},
                           i: Images \cup {None}, t: Tags \cup {None},
                           m: Manifests \cup {None}, there: SUBSET Layers,
                           layer: Layers \cup {None}]]
  /\ pull \in [Pullers -> [pc: {"idle", "manifest", "noManifest", "layers", "noLayer"},
                           i: Images \cup {None}, m: Manifests \cup {None}, got: SUBSET Layers]]
  /\ count \in [{"push", "pull", "delete", "collect"} -> Nat]
  /\ cut \subseteq Images \X Manifests
  /\ bare \subseteq Layers

\* What a tag or a digest row names can be pulled: the manifest and every layer
\* are in the store, whatever was deleted and collected, also of other images
\* that share a layer the client was told not to send. The server does not look
\* into the manifest: it holds because clients send what it lists
\* (manifest.go:95-138, gc.go:54-107). But the store is asked, not the rows
\* (blob.go:37): a layer whose upload stored it and failed before its row
\* (upload.go:246-255) is not sent, and the next collection takes it.
NamedIsWhole ==
  \A m \in Tagged \cup {d[2] : d \in digest} : m \in blobs /\ Needs[m] \ bare \subseteq blobs

\* "a digest-referenced pull works even when the manifest was pushed by tag
\* only" (manifest.go:128-129): a client that has resolved a tag is answered the
\* manifest, unless it was deleted, or a push is between its two rows, or
\* failed there (manifest.go:119-133).
DigestPullWorks ==
  [][\A c \in Pullers :
       PullManifest(c) /\ pull'[c].pc = "noManifest" =>
         \/ <<pull[c].i, pull[c].m>> \in cut
         \/ \E k \in Pushers : /\ push[k].pc = "digest"
                               /\ push[k].i = pull[c].i
                               /\ push[k].m = pull[c].m]_vars

\* Paths of the rows.
Paths ==
  {manifestPath(it[1], it[2]) : it \in {jt \in Images \X Tags : tag[jt[1]][jt[2]] # None}}
    \cup {manifestPath(im[1], im[2]) : im \in digest}
    \cup {blobPath(il[1], il[2]) : il \in bound}
    \cup {<<"blobs/", l>> : l \in kept}

TagsOf(i) == {<<t>> : t \in {u \in Tags : tag[i][u] # None}}

\* "returns artifacts whose path begins with prefix" (store.go:255-256): the
\* tag list has every tag of its image, and nothing else if the image's name
\* has no underscore: as a pattern it would stand for another image's name.
\* The catalog has the images with a manifest or a layer, and no others, after
\* any pushes and deletions (manifest.go:150-214).
ListingsAreExact ==
  /\ \A i \in Images :
       /\ TagsOf(i) \subseteq TagsList(Paths, i)
       /\ (\A k \in DOMAIN i : i[k] # "_") => TagsList(Paths, i) = TagsOf(i)
  /\ Catalog(Paths) =
       {i \in Images : \/ \E t \in Tags : tag[i][t] # None
                       \/ \E d \in Digests : <<i, d>> \in digest \cup bound}
=============================================================================
