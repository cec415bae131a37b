-------------------------- MODULE ArtifactListing --------------------------
(***************************************************************************)
(* Listings of the rows whose paths have a prefix (internal/repo/store.go) *)
(* and what the Docker handlers make of them (manifest.go). The prefix is  *)
(* the pattern of a LIKE, in which an underscore stands for any character; *)
(* an image name may have underscores.                                     *)
(*                                                                         *)
(* A path is a sequence of characters in which "refs/", "/manifests/",     *)
(* "/blobs/", a tag and a digest are one element each. No underscore of a  *)
(* pattern stands for one of these.                                        *)
(***************************************************************************)
EXTENDS Naturals, Sequences, SequencesExt

CONSTANTS
  Tags,
  Digests  \* of layers and of manifests

Separators == {"refs/", "/manifests/", "/blobs/"}

Markers == Separators \cup Tags \cup Digests

manifestPrefix(name) == <<"refs/">> \o name \o <<"/manifests/">>

manifestPath(name, ref) == Append(manifestPrefix(name), ref)

blobPath(name, d) == <<"refs/">> \o name \o <<"/blobs/", d>>

\* The part of a path between its first and its last separator.
nameOf(path) == SubSeq(path, 2, Len(path) - 2)

\* y is what x of a pattern stands for.
Fits(x, y) == x = y \/ (x = "_" /\ y \notin Markers)

\* path LIKE prefix%
Like(prefix, path) ==
  Len(prefix) <= Len(path) /\ \A i \in DOMAIN prefix : Fits(prefix[i], path[i])

ListArtifactsByPrefix(paths, prefix) == {path \in paths : Like(prefix, path)}

TrimPrefix(path, prefix) ==
  IF IsPrefix(prefix, path) THEN SubSeq(path, Len(prefix) + 1, Len(path)) ELSE path

\* Mutant of TagsList: the digest bindings are listed.
TagsListAll(paths, name) ==
  LET prefix == manifestPrefix(name) IN
  {TrimPrefix(path, prefix) : path \in ListArtifactsByPrefix(paths, prefix)}

\* GET /v2/<name>/tags/list: the rows without their prefix, except for the
\* bindings of digests.
TagsList(paths, name) ==
  LET prefix == manifestPrefix(name) IN
  {ref \in {TrimPrefix(path, prefix) : path \in ListArtifactsByPrefix(paths, prefix)} :
     Head(ref) \notin Digests}

\* GET /v2/_catalog: the names in the rows of manifests and layers.
Catalog(paths) == {nameOf(path) : path \in ListArtifactsByPrefix(paths, <<"refs/">>)}
=============================================================================
