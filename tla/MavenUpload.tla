---------------------------- MODULE MavenUpload -----------------------------
(***************************************************************************)
(* Uploads of the versions of one Maven artifact                           *)
(* (internal/format/maven/handler.go). A PUT of a primary file writes its  *)
(* row, then a checksum file unless there is one, then lists the versions  *)
(* that have rows and writes the metadata from that list. The PUT is       *)
(* answered 201 even when only its first row could be written.             *)
(*                                                                         *)
(* Clients also push files of their own beside: checksums, signatures, the *)
(* metadata itself, and the files of another artifact whose group id       *)
(* begins with this artifact's path. Each is one row, and nothing follows. *)
(*                                                                         *)
(* A body stands for its checksum too: different bodies have different     *)
(* ones. The three kinds of checksum files are written alike; one is       *)
(* modelled.                                                               *)
(***************************************************************************)
EXTENDS Naturals

CONSTANTS
  Versions,    \* first parts of paths below the artifact's: its versions, and
               \* artifacts of the group that is named like it
  Bodies,
  Clients,     \* one upload at a time each
  None,
  MaxUploads   \* bound on uploads

ASSUME MavenAssumption == None \notin Bodies \cup Clients /\ MaxUploads \in Nat

VARIABLES
  file,      \* file[v]: the primary file of v, None without a row
  sum,       \* sum[v]: the body that the checksum file of v is of
  beside,    \* versions with files that clients have pushed beside the primary one
  meta,      \* versions that maven-metadata.xml lists, {} without it
  up,        \* up[c]: the upload of client c
  uploads,
  given,     \* history: bodies that v, or its checksum, has been uploaded with
  answered,  \* history: versions whose upload was answered 201
  unsummed,  \* history: versions whose checksum could not be written, last
  sole,      \* history: the client whose upload has been the only one since it
             \* listed the versions, None if there is no such
  wrote      \* history: the metadata is "whole", written by such an upload; or
             \* "late", written by another or not written; or the "client"'s own

vars == <<file, sum, beside, meta, up, uploads, given, answered, unsummed, sole, wrote>>

-----------------------------------------------------------------------------
NoUpload == [pc |-> "idle", v |-> None, body |-> None, listed |-> {}]

Goto(c, pc) == up' = [up EXCEPT ![c].pc = pc]

\* Mutant of Listed: uploads that are not stored yet are listed.
ListedAll == {v \in Versions : given[v] # {}}

\* Whatever has a row below the artifact's path is taken for a version. The
\* metadata's own path has no such part.
Listed == {v \in Versions : file[v] # None \/ sum[v] # None \/ v \in beside}

-----------------------------------------------------------------------------
(* The upload of a primary file. *)

\* The body is read to its end.
Begin(c, v, b) ==
  /\ up[c] = NoUpload
  /\ uploads < MaxUploads
  /\ uploads' = uploads + 1
  /\ given' = [given EXCEPT ![v] = @ \cup {b}]
  /\ sole' = None
  /\ up' = [up EXCEPT ![c] = [NoUpload EXCEPT !.pc = "file", !.v = v, !.body = b]]
  /\ UNCHANGED <<file, sum, beside, meta, answered, unsummed, wrote>>

\* cas.Put, and the row of the file.
StoreFile(c) ==
  /\ up[c].pc = "file"
  /\ file' = [file EXCEPT ![up[c].v] = up[c].body]
  /\ Goto(c, "sum")
  /\ UNCHANGED <<sum, beside, meta, uploads, given, answered, unsummed, sole, wrote>>

\* Either fails: 500.
StoreFails(c) ==
  /\ up[c].pc = "file"
  /\ up' = [up EXCEPT ![c] = NoUpload]
  /\ UNCHANGED <<file, sum, beside, meta, uploads, given, answered, unsummed, sole, wrote>>

\* GetArtifact of the checksum file: one that is there is kept, and one that
\* cannot be read is taken for missing.
CheckSum(c) ==
  /\ up[c].pc = "sum"
  /\ \/ Goto(c, IF sum[up[c].v] = None THEN "writeSum" ELSE "list")
     \/ Goto(c, "writeSum")
  /\ UNCHANGED <<file, sum, beside, meta, uploads, given, answered, unsummed, sole, wrote>>

\* Mutant of WriteSum: no checksum is written.
WriteSumNever(c) ==
  /\ up[c].pc = "writeSum"
  /\ Goto(c, "list")
  /\ UNCHANGED <<file, sum, beside, meta, uploads, given, answered, unsummed, sole, wrote>>

WriteSum(c) ==
  /\ up[c].pc = "writeSum"
  /\ sum' = [sum EXCEPT ![up[c].v] = up[c].body]
  /\ unsummed' = unsummed \ {up[c].v}
  /\ Goto(c, "list")
  /\ UNCHANGED <<file, beside, meta, uploads, given, answered, sole, wrote>>

\* A failure here is logged.
WriteSumFails(c) ==
  /\ up[c].pc = "writeSum"
  /\ unsummed' = unsummed \cup {up[c].v}
  /\ Goto(c, "list")
  /\ UNCHANGED <<file, sum, beside, meta, uploads, given, answered, sole, wrote>>

ListVersions(c) ==
  /\ up[c].pc = "list"
  /\ up' = [up EXCEPT ![c].pc = "writeMeta", ![c].listed = Listed]
  /\ sole' = IF \A d \in Clients \ {c} : up[d] = NoUpload THEN c ELSE None
  /\ UNCHANGED <<file, sum, beside, meta, uploads, given, answered, unsummed, wrote>>

\* Mutant of WriteMeta: the metadata has the uploaded version alone.
WriteMetaOne(c) ==
  /\ up[c].pc = "writeMeta"
  /\ meta' = {up[c].v}
  /\ wrote' = IF sole = c THEN "whole" ELSE "late"
  /\ Goto(c, "answer")
  /\ UNCHANGED <<file, sum, beside, uploads, given, answered, unsummed, sole>>

\* The metadata is written as of the list, whoever has written it since.
WriteMeta(c) ==
  /\ up[c].pc = "writeMeta"
  /\ meta' = up[c].listed
  /\ wrote' = IF sole = c THEN "whole" ELSE "late"
  /\ Goto(c, "answer")
  /\ UNCHANGED <<file, sum, beside, uploads, given, answered, unsummed, sole>>

\* The list or the write fails, which is logged.
MetadataFails(c) ==
  /\ up[c].pc \in {"list", "writeMeta"}
  /\ wrote' = IF wrote = "client" THEN "client" ELSE "late"
  /\ Goto(c, "answer")
  /\ UNCHANGED <<file, sum, beside, meta, uploads, given, answered, unsummed, sole>>

\* 201 Created.
Answer(c) ==
  /\ up[c].pc = "answer"
  /\ answered' = answered \cup {up[c].v}
  /\ up' = [up EXCEPT ![c] = NoUpload]
  /\ UNCHANGED <<file, sum, beside, meta, uploads, given, unsummed, sole, wrote>>

\* The process dies, or the client goes and its context ends the statements.
Crash(c) ==
  /\ up[c] # NoUpload
  /\ up' = [up EXCEPT ![c] = NoUpload]
  /\ UNCHANGED <<file, sum, beside, meta, uploads, given, answered, unsummed, sole, wrote>>

-----------------------------------------------------------------------------
(* Files that clients push beside, each by a PUT that writes its row alone. *)

\* The checksum of v, of the body b.
PushSum(v, b) ==
  /\ sum' = [sum EXCEPT ![v] = b]
  /\ given' = [given EXCEPT ![v] = @ \cup {b}]
  /\ beside' = beside \cup {v}
  /\ unsummed' = unsummed \ {v}
  /\ UNCHANGED <<file, meta, up, uploads, answered, sole, wrote>>

\* A signature, say, or a file of an artifact v of the group.
PushBeside(v) ==
  /\ v \notin beside
  /\ beside' = beside \cup {v}
  /\ UNCHANGED <<file, sum, meta, up, uploads, given, answered, unsummed, sole, wrote>>

\* The metadata, as a client has it.
PushMeta(vs) ==
  /\ meta' = vs
  /\ wrote' = "client"
  /\ UNCHANGED <<file, sum, beside, up, uploads, given, answered, unsummed, sole>>

-----------------------------------------------------------------------------
Init ==
  /\ file = [v \in Versions |-> None]
  /\ sum = [v \in Versions |-> None]
  /\ beside = {}
  /\ meta = {}
  /\ up = [c \in Clients |-> NoUpload]
  /\ uploads = 0
  /\ given = [v \in Versions |-> {}]
  /\ answered = {}
  /\ unsummed = {}
  /\ sole = None
  /\ wrote = "whole"

Uploading(c) ==
  \/ \E v \in Versions, b \in Bodies : Begin(c, v, b)
  \/ StoreFile(c)
  \/ StoreFails(c)
  \/ CheckSum(c)
  \/ WriteSum(c)
  \/ WriteSumFails(c)
  \/ ListVersions(c)
  \/ WriteMeta(c)
  \/ MetadataFails(c)
  \/ Answer(c)
  \/ Crash(c)

Next ==
  \/ \E c \in Clients : Uploading(c)
  \/ \E v \in Versions : PushBeside(v) \/ \E b \in Bodies : PushSum(v, b)
  \/ \E vs \in SUBSET Versions : PushMeta(vs)

Spec == Init /\ [][Next]_vars

-----------------------------------------------------------------------------
(* Properties. *)

Upload ==
  [pc: {"idle", "file", "sum", "writeSum", "list", "writeMeta", "answer"},
   v: Versions \cup {None}, body: Bodies \cup {None}, listed: SUBSET Versions]

TypeOK ==
  /\ file \in [Versions -> Bodies \cup {None}]
  /\ sum \in [Versions -> Bodies \cup {None}]
  /\ beside \subseteq Versions
  /\ meta \subseteq Versions
  /\ up \in [Clients -> Upload]
  /\ uploads \in 0..MaxUploads
  /\ given \in [Versions -> SUBSET Bodies]
  /\ answered \subseteq Versions
  /\ unsummed \subseteq Versions
  /\ sole \in Clients \cup {None}
  /\ wrote \in {"whole", "late", "client"}

\* Metadata of the server's own making lists a version without a primary file
\* only if a client has pushed another file there: whatever uploads overlap, fail
\* or die, no version of theirs is listed before its file is there
\* (handler.go:181-233). What clients push, a signature or the files of a group
\* that is named like the artifact, is counted (handler.go:192-198).
MetadataIsSound ==
  wrote # "client" => \A v \in meta : file[v] # None \/ v \in beside

\* "maven-metadata.xml auto-regenerated on each primary-artifact upload"
\* (PHASES.md:259): every version whose upload was answered is in it, once an
\* upload has written it that was the only one since it listed the versions, and
\* until another writes it, fails to, or a client pushes its own. So whatever
\* overlaps and failures have left out comes back with the next quiet upload. The
\* list and the write are two statements (handler.go:141-144, 187-232).
AnsweredIsListed == wrote = "whole" => answered \subseteq meta

\* A version whose upload was answered has the checksum of its file
\* (PHASES.md:260), through overlaps and deaths, unless it could not be written
\* the last time. One that is there, a client's or of an earlier upload, is kept
\* (handler.go:161-163), so that the version must have had one body only.
AnsweredHasChecksum ==
  \A v \in answered \ unsummed : (\A b \in given[v] : given[v] = {b}) => sum[v] = file[v]
=============================================================================
