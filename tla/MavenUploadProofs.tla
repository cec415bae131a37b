------------------------- MODULE MavenUploadProofs -------------------------
(***************************************************************************)
(* Proofs about MavenUpload, for any versions, bodies and clients and any  *)
(* number of uploads.                                                      *)
(*                                                                         *)
(* Rows of files are never deleted, so what an upload has stored or listed *)
(* stays there until it writes the metadata: that is UploadInv. What the   *)
(* metadata promises of the versions that were answered rests on the       *)
(* upload that wrote it, ListInv, and what the checksums promise on a      *)
(* checksum that is there for good once an upload is past it, SumInv.      *)
(***************************************************************************)
EXTENDS MavenUpload, TLAPS

\* An upload knows its version and body, which the version was given.
Known ==
  \A c \in Clients : up[c].pc # "idle" =>
    up[c].v \in Versions /\ up[c].body \in given[up[c].v]

\* A version has its primary file, or a client has pushed another one.
There(v) == file[v] # None \/ v \in beside

\* Whatever an upload has stored, summed or listed is there.
Kept ==
  /\ \A v \in Versions : sum[v] # None => There(v)
  /\ \A v \in answered : file[v] # None
  /\ \A c \in Clients :
       /\ up[c].pc \notin {"idle", "file"} => file[up[c].v] # None
       /\ \A v \in up[c].listed : There(v)

UploadInv == TypeOK /\ Known /\ Kept /\ MetadataIsSound

\* The list of a sole upload has its version and the answered ones, and so has
\* the metadata that it writes.
ListInv ==
  /\ \A c \in Clients : sole = c /\ up[c].pc = "writeMeta" =>
       /\ \A d \in Clients \ {c} : up[d] = NoUpload
       /\ answered \cup {up[c].v} \subseteq up[c].listed
  /\ wrote = "whole" =>
       /\ answered \subseteq meta
       /\ \A c \in Clients : up[c].pc = "answer" => up[c].v \in meta

\* Files and checksums are of bodies their versions were given, and an upload
\* that is past its checksum leaves one behind.
SumInv ==
  /\ \A v \in Versions : file[v] \in given[v] \cup {None} /\ sum[v] \in given[v] \cup {None}
  /\ \A v \in answered \ unsummed : sum[v] # None
  /\ \A c \in Clients :
       /\ up[c].pc \in {"list", "writeMeta", "answer"}
       /\ up[c].v \notin unsummed
       => sum[up[c].v] # None

-----------------------------------------------------------------------------
\* Nothing is uploaded yet.
LEMMA UploadInit == Init => UploadInv /\ ListInv /\ SumInv
BY MavenAssumption
DEF MavenAssumption, Init, UploadInv, TypeOK, Upload, Known, Kept, There, MetadataIsSound,
    ListInv, SumInv, NoUpload

\* The actions, for a leaf that looks at each of them.
LEMMA Cases ==
  ASSUME [Next]_vars
  PROVE  \/ UNCHANGED vars
         \/ \E c \in Clients :
              \/ \E v \in Versions, b \in Bodies : Begin(c, v, b)
              \/ StoreFile(c) \/ StoreFails(c)
              \/ CheckSum(c) \/ WriteSum(c) \/ WriteSumFails(c)
              \/ ListVersions(c) \/ WriteMeta(c) \/ MetadataFails(c)
              \/ Answer(c) \/ Crash(c)
         \/ \E v \in Versions : PushBeside(v) \/ \E b \in Bodies : PushSum(v, b)
         \/ \E vs \in SUBSET Versions : PushMeta(vs)
BY DEF Next, Uploading

\* Every step of an upload keeps what files there are.
LEMMA UploadStep == UploadInv /\ [Next]_vars => UploadInv'
<1> SUFFICES ASSUME UploadInv, [Next]_vars PROVE UploadInv'
  OBVIOUS
<1> USE MavenAssumption DEF MavenAssumption, UploadInv, TypeOK, Upload, Known, Kept, There,
     MetadataIsSound, NoUpload, Goto
<1>1. ASSUME NEW c \in Clients, NEW v \in Versions, NEW b \in Bodies, Begin(c, v, b)
      PROVE UploadInv'
  <2>1. TypeOK'
    <3> DEFINE new == [NoUpload EXCEPT !.pc = "file", !.v = v, !.body = b]
    <3>1. up' = [up EXCEPT ![c] = new] /\ given' = [given EXCEPT ![v] = @ \cup {b}]
      BY <1>1 DEF Begin
    <3>2. new \in [pc: {"file"}, v: Versions, body: Bodies, listed: SUBSET Versions]
      OBVIOUS
    <3>3. up' \in [Clients -> Upload]
      BY <3>1, <3>2
    <3>4. given' \in [Versions -> SUBSET Bodies]
      BY <3>1
    <3>5. uploads' \in 0..MaxUploads /\ sole' = None
      BY <1>1 DEF Begin
    <3> QED
      BY <1>1, <3>3, <3>4, <3>5 DEF Begin
  <2>2. Known'
    BY <1>1 DEF Begin
  <2>3. Kept' /\ MetadataIsSound'
    BY <1>1 DEF Begin
  <2> QED
    BY <2>1, <2>2, <2>3
<1>2. ASSUME NEW c \in Clients, StoreFile(c) PROVE UploadInv'
  BY <1>2 DEF StoreFile
<1>3. ASSUME NEW c \in Clients, StoreFails(c) \/ Crash(c) PROVE UploadInv'
  <2>1. UNCHANGED <<file, sum, beside, meta, uploads, given, answered, unsummed, sole, wrote>>
    BY <1>3 DEF StoreFails, Crash
  <2>2. up' = [up EXCEPT ![c] = NoUpload]
    BY <1>3 DEF StoreFails, Crash
  <2>3. TypeOK'
    BY <2>1, <2>2
  <2>4. Known'
    BY <2>1, <2>2
  <2>5. Kept' /\ MetadataIsSound'
    BY <2>1, <2>2
  <2> QED
    BY <2>3, <2>4, <2>5
<1>4. ASSUME NEW c \in Clients, CheckSum(c) PROVE UploadInv'
  <2>1. PICK pc \in {"list", "writeSum"} : up' = [up EXCEPT ![c].pc = pc]
    BY <1>4 DEF CheckSum
  <2>2. /\ UNCHANGED <<file, sum, beside, meta, uploads, given, answered, unsummed, sole, wrote>>
        /\ up[c].pc = "sum"
    BY <1>4 DEF CheckSum
  <2>3. TypeOK'
    BY <2>1, <2>2
  <2>4. Known'
    BY <2>1, <2>2
  <2>5. Kept' /\ MetadataIsSound'
    BY <2>1, <2>2
  <2> QED
    BY <2>3, <2>4, <2>5
<1>5. ASSUME NEW c \in Clients, WriteSum(c) PROVE UploadInv'
  BY <1>5 DEF WriteSum
<1>6. ASSUME NEW c \in Clients, WriteSumFails(c) PROVE UploadInv'
  BY <1>6 DEF WriteSumFails
<1>7. ASSUME NEW c \in Clients, ListVersions(c) PROVE UploadInv'
  <2>1. TypeOK'
    <3>1. Listed \in SUBSET Versions
      BY DEF Listed
    <3>2. up' \in [Clients -> Upload]
      <4>1. up[c] \in Upload
        OBVIOUS
      <4>2. [up[c] EXCEPT !.pc = "writeMeta", !.listed = Listed] \in Upload
        BY <3>1, <4>1
      <4>3. up' = [up EXCEPT ![c] = [up[c] EXCEPT !.pc = "writeMeta", !.listed = Listed]]
        BY <1>7 DEF ListVersions
      <4> QED
        BY <4>2, <4>3
    <3> QED
      BY <1>7, <3>2 DEF ListVersions
  <2>2. Known'
    BY <1>7 DEF ListVersions
  <2>3. Kept' /\ MetadataIsSound'
    BY <1>7 DEF ListVersions, Listed
  <2> QED
    BY <2>1, <2>2, <2>3
<1>8. ASSUME NEW c \in Clients, WriteMeta(c) PROVE UploadInv'
  BY <1>8 DEF WriteMeta
<1>9. ASSUME NEW c \in Clients, MetadataFails(c) PROVE UploadInv'
  BY <1>9 DEF MetadataFails
<1>10. ASSUME NEW c \in Clients, Answer(c) PROVE UploadInv'
  BY <1>10 DEF Answer
<1>11. ASSUME UNCHANGED vars PROVE UploadInv'
  BY <1>11 DEF vars
<1>12. ASSUME NEW v \in Versions, NEW b \in Bodies, PushSum(v, b) PROVE UploadInv'
  BY <1>12 DEF PushSum
<1>13. ASSUME NEW v \in Versions, PushBeside(v) PROVE UploadInv'
  BY <1>13 DEF PushBeside
<1>14. ASSUME NEW vs \in SUBSET Versions, PushMeta(vs) PROVE UploadInv'
  BY <1>14 DEF PushMeta
<1> QED
  BY <1>1, <1>2, <1>3, <1>4, <1>5, <1>6, <1>7, <1>8, <1>9, <1>10, <1>11, <1>12, <1>13, <1>14, Cases

\* No step but that of a sole upload writes whole metadata, and then all is
\* answered that ever was, or is to be by it.
LEMMA ListStep == UploadInv /\ ListInv /\ [Next]_vars => ListInv'
<1> SUFFICES ASSUME UploadInv, ListInv, [Next]_vars PROVE ListInv'
  OBVIOUS
<1> USE MavenAssumption DEF MavenAssumption, UploadInv, TypeOK, Upload, ListInv, NoUpload, Goto
<1>1. ASSUME NEW c \in Clients, NEW v \in Versions, NEW b \in Bodies, Begin(c, v, b)
      PROVE ListInv'
  BY <1>1 DEF Begin
<1>2. ASSUME NEW c \in Clients, StoreFile(c) \/ StoreFails(c) \/ Crash(c) PROVE ListInv'
  BY <1>2 DEF StoreFile, StoreFails, Crash
<1>3. ASSUME NEW c \in Clients, CheckSum(c) \/ WriteSum(c) \/ WriteSumFails(c) PROVE ListInv'
  BY <1>3 DEF CheckSum, WriteSum, WriteSumFails
<1>4. ASSUME NEW c \in Clients, ListVersions(c) PROVE ListInv'
  <2>1. answered \cup {up[c].v} \subseteq Listed
    BY <1>4 DEF ListVersions, Listed, Known, Kept
  <2>2. /\ up'[c].pc = "writeMeta" /\ up'[c].v = up[c].v /\ up'[c].listed = Listed
        /\ \A d \in Clients \ {c} : up'[d] = up[d]
        /\ sole' = IF \A d \in Clients \ {c} : up[d] = NoUpload THEN c ELSE None
        /\ UNCHANGED <<answered, meta, wrote>>
    BY <1>4 DEF ListVersions
  <2>3. \A d \in Clients : sole' = d => d = c /\ \A e \in Clients \ {c} : up[e] = NoUpload
    BY <2>2
  <2> QED
    BY <2>1, <2>2, <2>3
<1>5. ASSUME NEW c \in Clients, WriteMeta(c) PROVE ListInv'
  BY <1>5 DEF WriteMeta
<1>6. ASSUME NEW c \in Clients, MetadataFails(c) PROVE ListInv'
  BY <1>6 DEF MetadataFails
<1>7. ASSUME NEW c \in Clients, Answer(c) PROVE ListInv'
  BY <1>7 DEF Answer
<1>8. ASSUME UNCHANGED vars PROVE ListInv'
  BY <1>8 DEF vars
<1>9. ASSUME NEW v \in Versions, NEW b \in Bodies, PushSum(v, b) PROVE ListInv'
  BY <1>9 DEF PushSum
<1>10. ASSUME NEW v \in Versions, PushBeside(v) PROVE ListInv'
  BY <1>10 DEF PushBeside
<1>11. ASSUME NEW vs \in SUBSET Versions, PushMeta(vs) PROVE ListInv'
  BY <1>11 DEF PushMeta
<1> QED
  BY <1>1, <1>2, <1>3, <1>4, <1>5, <1>6, <1>7, <1>8, <1>9, <1>10, <1>11, Cases

\* Every step keeps the checksums that are there.
LEMMA SumStep == UploadInv /\ SumInv /\ [Next]_vars => SumInv'
<1> SUFFICES ASSUME UploadInv, SumInv, [Next]_vars PROVE SumInv'
  OBVIOUS
<1> USE MavenAssumption DEF MavenAssumption, UploadInv, TypeOK, Upload, Known, SumInv, NoUpload, Goto
<1>1. ASSUME NEW c \in Clients, NEW v \in Versions, NEW b \in Bodies, Begin(c, v, b)
      PROVE SumInv'
  BY <1>1 DEF Begin
<1>2. ASSUME NEW c \in Clients, StoreFile(c) PROVE SumInv'
  BY <1>2 DEF StoreFile
<1>3. ASSUME NEW c \in Clients, StoreFails(c) \/ Crash(c) PROVE SumInv'
  BY <1>3 DEF StoreFails, Crash
<1>4. ASSUME NEW c \in Clients, CheckSum(c) PROVE SumInv'
  BY <1>4 DEF CheckSum
<1>5. ASSUME NEW c \in Clients, WriteSum(c) PROVE SumInv'
  BY <1>5 DEF WriteSum
<1>6. ASSUME NEW c \in Clients, WriteSumFails(c) PROVE SumInv'
  BY <1>6 DEF WriteSumFails
<1>7. ASSUME NEW c \in Clients, ListVersions(c) \/ WriteMeta(c) \/ MetadataFails(c) PROVE SumInv'
  <2>1. CASE ListVersions(c)
    BY <2>1 DEF ListVersions
  <2>2. CASE WriteMeta(c)
    BY <2>2 DEF WriteMeta
  <2>3. CASE MetadataFails(c)
    BY <2>3 DEF MetadataFails
  <2> QED
    BY <1>7, <2>1, <2>2, <2>3
<1>8. ASSUME NEW c \in Clients, Answer(c) PROVE SumInv'
  BY <1>8 DEF Answer
<1>9. ASSUME UNCHANGED vars PROVE SumInv'
  BY <1>9 DEF vars
<1>10. ASSUME NEW v \in Versions, NEW b \in Bodies, PushSum(v, b) PROVE SumInv'
  BY <1>10 DEF PushSum
<1>11. ASSUME NEW v \in Versions, PushBeside(v) PROVE SumInv'
  BY <1>11 DEF PushBeside
<1>12. ASSUME NEW vs \in SUBSET Versions, PushMeta(vs) PROVE SumInv'
  BY <1>12 DEF PushMeta
<1> QED
  BY <1>1, <1>2, <1>3, <1>4, <1>5, <1>6, <1>7, <1>8, <1>9, <1>10, <1>11, <1>12, Cases

-----------------------------------------------------------------------------
\* The three invariants together are inductive.
THEOREM UploadsCorrect == Spec => [](UploadInv /\ ListInv /\ SumInv)
<1>1. Init => UploadInv /\ ListInv /\ SumInv
  BY UploadInit
<1>2. UploadInv /\ ListInv /\ SumInv /\ [Next]_vars => (UploadInv /\ ListInv /\ SumInv)'
  BY UploadStep, ListStep, SumStep
<1> QED
  BY <1>1, <1>2, PTL DEF Spec

\* Metadata of the server's own making lists a version only if its primary file
\* is there, or another one that a client has pushed, however uploads overlap, fail
\* and die (handler.go:181-233).
THEOREM MetadataIsSoundAlways == Spec => []MetadataIsSound
<1>1. UploadInv => MetadataIsSound
  BY DEF UploadInv
<1> QED
  BY <1>1, UploadsCorrect, PTL

\* Every version whose upload was answered is in metadata that an upload has
\* written alone since it listed the versions, whatever was left out before
\* (handler.go:141-144, 187-232).
THEOREM AnsweredIsListedAlways == Spec => []AnsweredIsListed
<1>1. ListInv => AnsweredIsListed
  BY DEF ListInv, AnsweredIsListed
<1> QED
  BY <1>1, UploadsCorrect, PTL

\* A version that was uploaded with one body only has the checksum of its file
\* once an upload is answered, unless the checksum could not be written the last
\* time (handler.go:157-179).
THEOREM AnsweredHasChecksumAlways == Spec => []AnsweredHasChecksum
<1>1. UploadInv /\ SumInv => AnsweredHasChecksum
  <2> SUFFICES ASSUME UploadInv, SumInv, NEW v \in answered \ unsummed,
                      \A b \in given[v] : given[v] = {b}
               PROVE  sum[v] = file[v]
    BY DEF AnsweredHasChecksum
  <2>1. v \in Versions /\ sum[v] # None /\ file[v] # None
    BY DEF UploadInv, TypeOK, Kept, SumInv
  <2>2. sum[v] \in given[v] /\ file[v] \in given[v]
    BY <2>1 DEF SumInv
  <2> QED
    BY <2>2
<1> QED
  BY <1>1, UploadsCorrect, PTL
=============================================================================
