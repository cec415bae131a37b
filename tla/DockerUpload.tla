---------------------------- MODULE DockerUpload ----------------------------
(***************************************************************************)
(* Docker blob uploads (internal/format/docker/upload.go) and the removal  *)
(* of an image's binding to a blob (blob.go).                              *)
(*                                                                         *)
(* A session is a temporary file on the server's disk and an entry of a    *)
(* map in the server's memory. Requests look the session up once, under    *)
(* the manager's lock, and then work on its file and its size without any  *)
(* lock: PATCH appends, PUT appends, hashes the file, compares it with the *)
(* client's digest, reads the file again into the content store, and       *)
(* records two rows. A file keeps its bytes for the handlers that have it  *)
(* open after its name is gone.                                            *)
(*                                                                         *)
(* The content store is the abstract one of ContentStore: a Put takes      *)
(* effect at once, as BlobStore is shown to implement it.                  *)
(***************************************************************************)
EXTENDS Naturals, Sequences

CONSTANTS
  Servers,    \* replicas, each with its own map of sessions
  Sessions,   \* session ids (UUIDs), each used once
  Requests,   \* HTTP requests in a behaviour, each made once
  Names,      \* image names
  Bytes,      \* pieces of a body that one write appends
  MaxBody,    \* bound on the pieces in the body of a request
  Claims,     \* digests that clients claim
  NoValue     \* no value: no server, no digest

ASSUME UploadAssumption ==
  /\ MaxBody \in Nat
  /\ NoValue \notin Servers \cup Sessions \cup Names \cup Claims

\* A request body: its pieces in the order they arrive.
Body == UNION {[1..n -> Bytes] : n \in 0..MaxBody}

\* SHA-256 of a sequence of pieces, free of collisions on what is uploaded.
Sha(bytes) == <<"sha256", bytes>>

VARIABLES
  home,       \* home[s]: the server whose map has session s
  named,      \* sessions whose temporary file has its name on disk
  litter,     \* files whose removal has failed
  bytes,      \* bytes[s]: what has been written to the file of s
  size,       \* size[s]: the size field of the session
  stored,     \* digests of the contents in the content store
  recorded,   \* d: there is a row "blobs/d"
  bindings,   \* <<n, d>>: there is a row "refs/n/blobs/d"
  req,        \* req[r]: the handler of request r
  crowded     \* sessions that two requests have worked on at a time

uploadVars == <<home, named, litter, bytes, size, stored, recorded, bindings, req, crowded>>
fileVars == <<named, litter, bytes>>
storeVars == <<stored, recorded, bindings>>

-----------------------------------------------------------------------------
Ops == {"none", "post", "patch", "put", "delete"}

Answers == {"201", "202", "204", "400", "404", "500"}

\* A handler that is done: it answered, or its server died.
Done == Answers \cup {"lost"}

Working == {"open", "copy", "sizing", "hash", "store", "record", "bind", "drop"}

NoRequest == [pc |-> "idle", op |-> "none", srv |-> NoValue, sess |-> NoValue,
              name |-> NoValue, claimed |-> NoValue, rest |-> <<>>, sent |-> 0,
              whole |-> TRUE, old |-> 0]

Active(r) == req[r].pc \in Working

\* Sessions whose id a client has been told.
Offered == {req[r].sess : r \in {q \in Requests : req[q].op = "post" /\ req[q].pc = "202"}}

Goto(r, from, to) ==
  /\ req[r].pc = from
  /\ req' = [req EXCEPT ![r].pc = to]

\* os.Remove, whose error nobody looks at.
RemoveFile(s) ==
  \/ named' = named \ {s} /\ UNCHANGED litter
  \/ litter' = litter \cup {s} /\ UNCHANGED named

\* uploadManager.drop: out of the map, and who finds it there removes the file.
DropSession(s) ==
  /\ home' = [home EXCEPT ![s] = NoValue]
  /\ IF home[s] = NoValue THEN UNCHANGED <<named, litter>> ELSE RemoveFile(s)
  /\ UNCHANGED bytes

-----------------------------------------------------------------------------
(* Requests arrive. *)

\* POST makes a session with an empty file.
NewSession(r, p, s, request) ==
  /\ req[r].pc = "idle"
  /\ \A q \in Requests : req[q].sess # s
  /\ home' = [home EXCEPT ![s] = p]
  /\ named' = named \cup {s}
  /\ req' = [req EXCEPT ![r] = [request EXCEPT !.op = "post", !.srv = p, !.sess = s]]
  /\ UNCHANGED <<litter, bytes, size, storeVars, crowded>>

\* Without a digest or without a body, it answers 202 and the session's id.
Start(r, p, s) == NewSession(r, p, s, [NoRequest EXCEPT !.pc = "202"])

\* With both, the handler goes on to append and to finalize.
Monolithic(r, p, s, n, claimed, body) ==
  /\ body # <<>>
  /\ NewSession(r, p, s, [NoRequest EXCEPT !.name = n, !.claimed = claimed,
                                           !.rest = body, !.pc = "open"])

\* A request for session s reaches server p: 404 if p's map does not have s.
Lookup(r, p, s, request) ==
  /\ req[r].pc = "idle"
  /\ s \in Offered
  /\ req' = [req EXCEPT ![r] =
       [request EXCEPT !.srv = p, !.sess = s,
                       !.pc = IF home[s] = p THEN @ ELSE "404"]]
  /\ crowded' = crowded \cup {t \in {s} : \E q \in Requests : req[q].sess = s /\ Active(q)}

Patch(r, p, s, body) ==
  /\ Lookup(r, p, s, [NoRequest EXCEPT !.op = "patch", !.rest = body, !.pc = "open"])
  /\ UNCHANGED <<home, fileVars, size, storeVars>>

\* PUT: a last chunk is optional (one without a Content-Length is not read,
\* and counts as none here); a missing digest is a 400.
PutPc(claimed, body) ==
  IF body # <<>> THEN "open" ELSE IF claimed = NoValue THEN "400" ELSE "hash"

Put(r, p, s, n, claimed, body) ==
  /\ Lookup(r, p, s, [NoRequest EXCEPT !.op = "put", !.name = n, !.claimed = claimed,
                                       !.rest = body, !.pc = PutPc(claimed, body)])
  /\ UNCHANGED <<home, fileVars, size, storeVars>>

\* DELETE: the client cancels.
Cancel(r, p, s) ==
  /\ Lookup(r, p, s, [NoRequest EXCEPT !.op = "delete", !.pc = "204"])
  /\ IF home[s] = p THEN DropSession(s) ELSE UNCHANGED <<home, fileVars>>
  /\ UNCHANGED <<size, storeVars>>

-----------------------------------------------------------------------------
(* uploadSession.append. *)

\* Open the file for append; it is not created again when it has gone.
OpenFile(r) ==
  /\ Goto(r, "open", IF req[r].sess \in named THEN "copy" ELSE "500")
  /\ UNCHANGED <<home, fileVars, size, storeVars, crowded>>

\* io.Copy writes the next piece at the end of the file.
CopyPiece(r) ==
  /\ req[r].pc = "copy"
  /\ req[r].rest # <<>>
  /\ bytes' = [bytes EXCEPT ![req[r].sess] = Append(@, Head(req[r].rest))]
  /\ req' = [req EXCEPT ![r].rest = Tail(@), ![r].sent = @ + 1]
  /\ UNCHANGED <<home, named, litter, size, storeVars, crowded>>

\* The body is exhausted, or reading it fails at some point: the size is about
\* to be increased by what was written, in either case.
CopyEnd(r, whole) ==
  /\ req[r].pc = "copy"
  /\ whole => req[r].rest = <<>>
  /\ req' = [req EXCEPT ![r].pc = "sizing", ![r].whole = whole, ![r].old = size[req[r].sess]]
  /\ UNCHANGED <<home, fileVars, size, storeVars, crowded>>

\* Where the handler goes when append has returned.
AfterAppend(q) ==
  CASE ~q.whole -> "500"
    [] q.whole /\ q.op = "patch" -> "202"
    [] q.whole /\ q.op = "put" /\ q.claimed = NoValue -> "400"
    [] OTHER -> "hash"

\* Mutant of SetSize: a failed append does not count.
SetSizeWholeOnly(r) ==
  LET q == req[r] IN
  /\ Goto(r, "sizing", AfterAppend(q))
  /\ size' = [size EXCEPT ![q.sess] = IF q.whole THEN q.old + q.sent ELSE @]
  /\ IF q.op = "post" /\ ~q.whole THEN DropSession(q.sess) ELSE UNCHANGED <<home, fileVars>>
  /\ UNCHANGED <<storeVars, crowded>>

\* size += n without a lock: the value read is the one of CopyEnd. A failed
\* monolithic upload drops its session.
SetSize(r) ==
  LET q == req[r] IN
  /\ Goto(r, "sizing", AfterAppend(q))
  /\ size' = [size EXCEPT ![q.sess] = q.old + q.sent]
  /\ IF q.op = "post" /\ ~q.whole THEN DropSession(q.sess) ELSE UNCHANGED <<home, fileVars>>
  /\ UNCHANGED <<storeVars, crowded>>

-----------------------------------------------------------------------------
(* finalize. *)

\* A step of finalize returns an error: 400. A PUT keeps its session for
\* another try, a monolithic POST drops it.
FinalizeError(r) ==
  /\ req' = [req EXCEPT ![r].pc = "400"]
  /\ IF req[r].op = "post" THEN DropSession(req[r].sess) ELSE UNCHANGED <<home, fileVars>>
  /\ UNCHANGED <<size, storeVars, crowded>>

\* Mutant of HashFile: the client's digest is believed.
HashFileUnchecked(r) ==
  /\ Goto(r, "hash", "store")
  /\ req[r].sess \in named
  /\ UNCHANGED <<home, fileVars, size, storeVars, crowded>>

\* The file hashes to what the client claims.
HashFile(r) ==
  /\ Goto(r, "hash", "store")
  /\ req[r].sess \in named
  /\ Sha(bytes[req[r].sess]) = req[r].claimed
  /\ UNCHANGED <<home, fileVars, size, storeVars, crowded>>

\* The file has gone, or it hashes to something else.
HashMismatch(r) ==
  /\ req[r].pc = "hash"
  /\ \/ req[r].sess \notin named
     \/ Sha(bytes[req[r].sess]) # req[r].claimed
  /\ FinalizeError(r)

\* The file is opened again and read to its end into the content store,
\* whose digest the handler does not look at.
StoreBlob(r) ==
  /\ Goto(r, "store", "record")
  /\ req[r].sess \in named
  /\ stored' = stored \cup {Sha(bytes[req[r].sess])}
  /\ UNCHANGED <<home, fileVars, size, recorded, bindings, crowded>>

RecordBlob(r) ==
  /\ Goto(r, "record", "bind")
  /\ recorded' = recorded \cup {req[r].claimed}
  /\ UNCHANGED <<home, fileVars, size, stored, bindings, crowded>>

\* Mutant of BindImage: the arguments of the path are swapped.
BindImageSwapped(r) ==
  /\ Goto(r, "bind", IF req[r].op = "put" THEN "drop" ELSE "201")
  /\ bindings' = bindings \cup {<<req[r].claimed, req[r].name>>}
  /\ UNCHANGED <<home, fileVars, size, stored, recorded, crowded>>

\* The binding to the image: a PUT then drops its session, a monolithic POST
\* answers at once.
BindImage(r) ==
  /\ Goto(r, "bind", IF req[r].op = "put" THEN "drop" ELSE "201")
  /\ bindings' = bindings \cup {<<req[r].name, req[r].claimed>>}
  /\ UNCHANGED <<home, fileVars, size, stored, recorded, crowded>>

\* The file cannot be opened again, cas.Put fails, or a row cannot be written.
FinalizeFails(r) ==
  /\ req[r].pc \in {"store", "record", "bind"}
  /\ FinalizeError(r)

\* Mutant of Finish: the session stays after the upload is complete.
FinishKeepsSession(r) ==
  /\ Goto(r, "drop", "201")
  /\ UNCHANGED <<home, fileVars, size, storeVars, crowded>>

Finish(r) ==
  /\ Goto(r, "drop", "201")
  /\ DropSession(req[r].sess)
  /\ UNCHANGED <<size, storeVars, crowded>>

-----------------------------------------------------------------------------
\* DELETE of a blob takes it out of the image and leaves the row "blobs/d".
Unbind(n, d) ==
  /\ bindings' = bindings \ {<<n, d>>}
  /\ UNCHANGED <<home, fileVars, size, stored, recorded, req, crowded>>

\* A server dies: its sessions and its requests are gone, its files are not.
Restart(p) ==
  /\ \E s \in Sessions : home[s] = p
  /\ home' = [s \in Sessions |-> IF home[s] = p THEN NoValue ELSE home[s]]
  /\ req' = [r \in Requests |->
       IF Active(r) /\ req[r].srv = p THEN [req[r] EXCEPT !.pc = "lost"] ELSE req[r]]
  /\ UNCHANGED <<fileVars, size, storeVars, crowded>>

-----------------------------------------------------------------------------
UploadInit ==
  /\ home = [s \in Sessions |-> NoValue]
  /\ named = {}
  /\ litter = {}
  /\ bytes = [s \in Sessions |-> <<>>]
  /\ size = [s \in Sessions |-> 0]
  /\ stored = {}
  /\ recorded = {}
  /\ bindings = {}
  /\ req = [r \in Requests |-> NoRequest]
  /\ crowded = {}

Arrival(r) ==
  \E p \in Servers, s \in Sessions :
    \/ Start(r, p, s)
    \/ Cancel(r, p, s)
    \/ \E body \in Body :
         \/ Patch(r, p, s, body)
         \/ \E n \in Names :
              \/ \E claimed \in Claims : Monolithic(r, p, s, n, claimed, body)
              \/ \E claimed \in Claims \cup {NoValue} : Put(r, p, s, n, claimed, body)

HandlerStep(r) ==
  \/ OpenFile(r)
  \/ CopyPiece(r)
  \/ \E whole \in BOOLEAN : CopyEnd(r, whole)
  \/ SetSize(r)
  \/ HashFile(r)
  \/ HashMismatch(r)
  \/ StoreBlob(r)
  \/ RecordBlob(r)
  \/ BindImage(r)
  \/ FinalizeFails(r)
  \/ Finish(r)

UploadNext ==
  \/ \E r \in Requests : Arrival(r) \/ HandlerStep(r)
  \/ \E n \in Names, d \in recorded : Unbind(n, d)
  \/ \E p \in Servers : Restart(p)

UploadSpec == UploadInit /\ [][UploadNext]_uploadVars

-----------------------------------------------------------------------------
(* Properties. *)

Request == [pc: {"idle"} \cup Working \cup Done, op: Ops, srv: Servers \cup {NoValue},
            sess: Sessions \cup {NoValue}, name: Names \cup {NoValue},
            claimed: Claims \cup {NoValue}, rest: Seq(Bytes), sent: Nat,
            whole: BOOLEAN, old: Nat]

ContentDigests == {"sha256"} \X Seq(Bytes)

UploadTypeOK ==
  /\ home \in [Sessions -> Servers \cup {NoValue}]
  /\ named \subseteq Sessions
  /\ litter \subseteq Sessions
  /\ bytes \in [Sessions -> Seq(Bytes)]
  /\ size \in [Sessions -> Nat]
  /\ stored \subseteq ContentDigests
  /\ recorded \subseteq ContentDigests
  /\ bindings \subseteq Names \X ContentDigests
  /\ req \in [Requests -> Request]
  /\ crowded \subseteq Sessions

\* Every recorded digest is in the content store, so a 201 means that the blob
\* can be pulled (upload.go:230-231: "verifies the computed digest matches the
\* client-claimed one, then stores the blob"), as long as the requests of a
\* session came one after the other: no lock makes it true of others.
RecordedIsStored == crowded = {} => recorded \subseteq stored

\* When no request works on it, a session's size is the length of its file,
\* also after an append that failed part-way: GET answers from the one what
\* the client resumes after in the other (upload.go:95-107, 183). The size is
\* read and written without a lock.
SizeIsFileLength ==
  \A s \in Sessions \ crowded :
    (\A r \in Requests : req[r].sess = s => req[r].pc \in Answers) =>
      size[s] = Len(bytes[s])

\* A session that is in a map has its file, and a completed PUT has left
\* neither, whatever requests came between or beside it (upload.go:57-73, 84-92,
\* 216), but for a file that could not be removed.
SessionLifecycle ==
  /\ \A s \in Sessions : home[s] # NoValue => s \in named
  /\ \A r \in Requests : req[r].op = "put" /\ req[r].pc = "201" =>
       home[req[r].sess] = NoValue /\ req[r].sess \notin named \ litter
=============================================================================
