----------------------------- MODULE NpmPublish -----------------------------
(***************************************************************************)
(* npm publish and npm install of one package                              *)
(* (internal/format/npm: publishPackument, mergeInto, servePackument,      *)
(* handleTarball).                                                         *)
(*                                                                         *)
(* A packument is one JSON blob that lists every version of the package    *)
(* and what the tags point to; its row names the current blob. A publish   *)
(* reads it, stores the new tarball and its row, merges its version into   *)
(* what it read, and makes the result the current packument. Nothing ties  *)
(* these steps together. Blobs are never deleted here, so a digest and the *)
(* content it names are one thing.                                         *)
(***************************************************************************)
CONSTANTS
  Publishers,  \* publish requests, each made once
  Installers,  \* npm install requests served at a time
  Versions,    \* version numbers
  Tags,        \* dist-tags
  Tarballs,    \* contents of a tarball; a version lists the hash of its own
  None         \* no row, no version

ASSUME PublishAssumption == None \notin Versions \cup Tarballs

VARIABLES
  packument,   \* the blob that row packuments/<pkg> names
  tarball,     \* tarball[v]: the blob that row tarballs/<pkg>/<file of v> names
  pub,         \* pub[p]: the handler of publish p
  install,     \* install[i]: an npm install between its two requests
  past         \* what has happened that the code does not provide against:
               \* publishes at the same time ("overlap"), a version published
               \* again with another tarball ("again"), a read that failed

vars == <<packument, tarball, pub, install, past>>

-----------------------------------------------------------------------------
\* A packument with no version: no row, or what a publish starts from.
Empty == [versions |-> [v \in Versions |-> None], tags |-> [t \in Tags |-> None]]

Idle == [pc |-> "idle", version |-> None, tarball |-> None, tag |-> None, stored |-> Empty]

NoInstall == [pc |-> "idle", version |-> None, hash |-> None]

Working == {"read", "tarball", "merge", "write", "recorded"}

Goto(p, from, to) ==
  /\ pub[p].pc = from
  /\ pub' = [pub EXCEPT ![p].pc = to]

\* Mutant of Merge: the tag is pointed at the tarball.
MergeTagsTarball(base, q) ==
  [versions |-> [base.versions EXCEPT ![q.version] = q.tarball],
   tags     |-> [base.tags EXCEPT ![q.tag] = q.tarball]]

\* packument.mergeInto, for a version that base does not list.
Merge(base, q) ==
  [versions |-> [base.versions EXCEPT ![q.version] = q.tarball],
   tags     |-> [base.tags EXCEPT ![q.tag] = q.version]]

-----------------------------------------------------------------------------
(* publishPackument. *)

Begin(p, v, b, t) ==
  /\ pub[p].pc = "idle"
  /\ past' = past \cup
       {e \in {"overlap"} : \E q \in Publishers : pub[q].pc \in Working} \cup
       {e \in {"again"} : \E q \in Publishers : pub[q].version = v /\ pub[q].tarball # b}
  /\ pub' = [pub EXCEPT ![p] = [Idle EXCEPT !.pc = "read", !.version = v,
                                            !.tarball = b, !.tag = t]]
  /\ UNCHANGED <<packument, tarball, install>>

\* The current packument; no row is an empty one.
Load(p) ==
  /\ pub[p].pc = "read"
  /\ pub' = [pub EXCEPT ![p].pc = "tarball", ![p].stored = packument]
  /\ UNCHANGED <<packument, tarball, install, past>>

\* GetArtifact, cas.Get or ReadAll fails: the code goes on as if there were no
\* packument.
LoadFails(p) ==
  /\ Goto(p, "read", "tarball")
  /\ past' = past \cup {"failedRead"}
  /\ UNCHANGED <<packument, tarball, install>>

\* Mutant of StoreTarball: the path of the row lacks the version.
StoreTarballBare(p) ==
  /\ Goto(p, "tarball", "merge")
  /\ tarball' = [v \in Versions |-> pub[p].tarball]
  /\ UNCHANGED <<packument, install, past>>

\* cas.Put of the attachment, and its row.
StoreTarball(p) ==
  /\ Goto(p, "tarball", "merge")
  /\ tarball' = [tarball EXCEPT ![pub[p].version] = pub[p].tarball]
  /\ UNCHANGED <<packument, install, past>>

\* Mutant of MergeVersion: listed versions are overwritten.
MergeVersionAnyway(p) ==
  /\ pub[p].pc = "merge"
  /\ pub' = [pub EXCEPT ![p].pc = "write", ![p].stored = Merge(@, pub[p])]
  /\ UNCHANGED <<packument, tarball, install, past>>

MergeVersion(p) ==
  /\ pub[p].pc = "merge"
  /\ pub[p].stored.versions[pub[p].version] = None
  /\ pub' = [pub EXCEPT ![p].pc = "write", ![p].stored = Merge(@, pub[p])]
  /\ UNCHANGED <<packument, tarball, install, past>>

\* "version already published": the tarball's row has been written.
MergeConflict(p) ==
  /\ Goto(p, "merge", "409")
  /\ pub[p].stored.versions[pub[p].version] # None
  /\ UNCHANGED <<packument, tarball, install, past>>

\* Mutant of WritePackument: only the tags are taken over.
WritePackumentTags(p) ==
  /\ Goto(p, "write", "recorded")
  /\ packument' = [packument EXCEPT !.tags = pub[p].stored.tags]
  /\ UNCHANGED <<tarball, install, past>>

\* cas.Put of the new packument, and its row.
WritePackument(p) ==
  /\ Goto(p, "write", "recorded")
  /\ packument' = pub[p].stored
  /\ UNCHANGED <<tarball, install, past>>

Answer(p) ==
  /\ Goto(p, "recorded", "201")
  /\ UNCHANGED <<packument, tarball, install, past>>

\* A blob or a row cannot be written: what was written stays.
PublishFails(p) ==
  /\ \/ Goto(p, "tarball", "500")
     \/ Goto(p, "write", "500")
  /\ UNCHANGED <<packument, tarball, install, past>>

\* The server dies with its handlers.
Crash ==
  /\ \E p \in Publishers : pub[p].pc \in Working
  /\ pub' = [p \in Publishers |->
       IF pub[p].pc \in Working THEN [pub[p] EXCEPT !.pc = "lost"] ELSE pub[p]]
  /\ install' = [i \in Installers |-> NoInstall]
  /\ UNCHANGED <<packument, tarball, past>>

-----------------------------------------------------------------------------
(* npm install: the packument, then the tarball of a version it lists. *)

Resolve(i, t) ==
  LET v == packument.tags[t] IN
  /\ install[i].pc # "resolved"
  /\ v # None
  /\ install' = [install EXCEPT ![i] =
       [pc |-> "resolved", version |-> v, hash |-> packument.versions[v]]]
  /\ UNCHANGED <<packument, tarball, pub, past>>

\* The client compares what it downloads with the hash that was listed.
Fetch(i) ==
  /\ install[i].pc = "resolved"
  /\ install' = [install EXCEPT ![i].pc =
       IF tarball[install[i].version] = None THEN "missing"
       ELSE IF tarball[install[i].version] = install[i].hash THEN "installed" ELSE "corrupt"]
  /\ UNCHANGED <<packument, tarball, pub, past>>

-----------------------------------------------------------------------------
Init ==
  /\ packument = Empty
  /\ tarball = [v \in Versions |-> None]
  /\ pub = [p \in Publishers |-> Idle]
  /\ install = [i \in Installers |-> NoInstall]
  /\ past = {}

Next ==
  \/ \E p \in Publishers :
       \/ \E v \in Versions, b \in Tarballs, t \in Tags : Begin(p, v, b, t)
       \/ Load(p)
       \/ LoadFails(p)
       \/ StoreTarball(p)
       \/ MergeVersion(p)
       \/ MergeConflict(p)
       \/ WritePackument(p)
       \/ Answer(p)
       \/ PublishFails(p)
  \/ Crash
  \/ \E i \in Installers :
       \/ \E t \in Tags : Resolve(i, t)
       \/ Fetch(i)

Spec == Init /\ [][Next]_vars

-----------------------------------------------------------------------------
(* Properties. *)

Packuments == [versions: [Versions -> Tarballs \cup {None}],
               tags: [Tags -> Versions \cup {None}]]

TypeOK ==
  /\ packument \in Packuments
  /\ tarball \in [Versions -> Tarballs \cup {None}]
  /\ pub \in [Publishers -> [pc: {"idle", "201", "409", "500", "lost"} \cup Working,
                             version: Versions \cup {None},
                             tarball: Tarballs \cup {None},
                             tag: Tags \cup {None}, stored: Packuments]]
  /\ install \in [Installers -> [pc: {"idle", "resolved", "installed", "missing", "corrupt"},
                                 version: Versions \cup {None},
                                 hash: Tarballs \cup {None}]]
  /\ past \subseteq {"overlap", "again", "failedRead"}

\* A listed version has a tarball and a tag names a listed version, whatever
\* publishes overlap, fail or die: the packument is written whole, and last
\* (npm/handler.go:262-305).
ListedIsComplete ==
  /\ \A v \in Versions : packument.versions[v] # None => tarball[v] # None
  /\ \A t \in Tags : packument.tags[t] # None => packument.versions[packument.tags[t]] # None

\* An install gets a tarball with the hash that it was given, however many
\* publishes overlap, fail, die or lie between its two requests, as long as no
\* version was published again with another tarball: that a version is not
\* overwritten (packument.go:51-53) is found out after the row of its tarball is
\* replaced (npm/handler.go:113-153, 195-230, 262-287).
InstallsMatch ==
  "again" \notin past => \A i \in Installers : install[i].pc \notin {"missing", "corrupt"}

\* "New version numbers are added; existing versions are NOT overwritten"
\* (packument.go:51-53): no step takes a version out of the list or changes it.
VersionsStay ==
  [][\A v \in Versions :
       packument.versions[v] # None => packument'.versions[v] = packument.versions[v]]_vars

PhaseOf(pc) ==
  CASE pc = "idle" -> "idle"
    [] pc \in {"read", "tarball", "merge", "write"} -> "open"
    [] pc = "recorded" -> "listed"
    [] pc = "201" -> "created"
    [] pc \in {"409", "500", "lost"} -> "refused"

Promise == INSTANCE VersionIndex WITH
  Contents <- Tarballs,
  Unlisted <- None,
  index <- packument.versions,
  phase <- [p \in Publishers |-> PhaseOf(pub[p].pc)]

\* Until publishes overlap or a read fails, every step is one of the version
\* list: versions are added and stay, and a publisher who is answered 201 has
\* added one, through deaths, failing writes and repeated versions
\* (npm/handler.go:251-309, packument.go:51-99).
ImplementsVersionIndex ==
  /\ Promise!Init
  /\ [][past' \subseteq {"again"} => Promise!Next \/ UNCHANGED Promise!vars]_vars
=============================================================================
