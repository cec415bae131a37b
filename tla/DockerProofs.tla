---------------------------- MODULE DockerProofs ----------------------------
(***************************************************************************)
(* Proofs about a Docker repository: the uploads of blobs (DockerUpload)   *)
(* and the images made of them (DockerImages).                             *)
(*                                                                         *)
(* Handlers of uploads take no lock between the hash, the store and the    *)
(* rows, so what one of them has established is lost as soon as another    *)
(* works on the same session. The invariant says of a session that no two  *)
(* requests have crowded what each handler has established so far.         *)
(***************************************************************************)
EXTENDS DockerUpload, DockerImages, SequenceTheorems, TLAPS

-----------------------------------------------------------------------------
(* Uploads. *)

Pcs == {"idle"} \cup Working \cup Done

-----------------------------------------------------------------------------
(* The inductive invariant. *)

\* A request has its session, a finalizing one its image, and past the
\* comparison of the digests, one that was computed.
RequestsKnow ==
  \A r \in Requests :
    /\ req[r].pc # "idle" => req[r].sess \in Sessions
    /\ Active(r) => req[r].op \in {"post", "patch", "put"}
    /\ Active(r) /\ req[r].op # "patch" => req[r].name \in Names
    /\ req[r].pc = "open" => req[r].sent = 0
    /\ req[r].pc \in {"hash", "store", "record", "bind", "drop"} => req[r].op # "patch"
    /\ req[r].pc \in {"store", "record", "bind"} => req[r].claimed \in ContentDigests

\* Requests work on a session one after the other unless history has it crowded.
OneByOne ==
  \A s \in Sessions \ crowded : \A r, q \in Requests :
    Active(r) /\ Active(q) /\ req[r].sess = s /\ req[q].sess = s => r = q

\* The file that is stored still has the digest that was compared, and the blob
\* that is recorded is stored.
Compared ==
  \A r \in Requests : req[r].sess \notin crowded =>
    /\ req[r].pc = "store" => Sha(bytes[req[r].sess]) = req[r].claimed
    /\ req[r].pc = "record" => req[r].claimed \in stored

\* What an append has written is on its way into the size.
SizedAt(r) ==
  LET s == req[r].sess IN
  /\ req[r].pc \in {"copy", "sizing"} => Len(bytes[s]) = size[s] + req[r].sent
  /\ req[r].pc = "sizing" => req[r].old = size[s]
  /\ req[r].pc \notin {"copy", "sizing"} => Len(bytes[s]) = size[s]

Intact(s) == s \notin crowded /\ \A r \in Requests : req[r].sess = s => req[r].pc # "lost"

Sized ==
  \A s \in Sessions : Intact(s) =>
    /\ \A r \in Requests : req[r].sess = s /\ Active(r) => SizedAt(r)
    /\ (\A r \in Requests : req[r].sess = s => ~Active(r)) => Len(bytes[s]) = size[s]

\* The session of a request at work is where the request is, or has been dropped.
AtHome ==
  \A r \in Requests : Active(r) =>
    /\ home[req[r].sess] \in {req[r].srv, NoValue}
    /\ home[req[r].sess] = NoValue => req[r].sess \notin named \ litter

UploadInv ==
  /\ UploadTypeOK
  /\ RequestsKnow
  /\ AtHome
  /\ OneByOne
  /\ Compared
  /\ Sized
  /\ SessionLifecycle
  /\ RecordedIsStored

-----------------------------------------------------------------------------
(* Types. *)

LEMMA NoRequestType == NoRequest \in Request
  BY DEF NoRequest, Request, Ops

\* A request whose place alone changes.
LEMMA MoveType ==
  ASSUME req \in [Requests -> Request], NEW r \in Requests, NEW pc \in Pcs,
         req' = [req EXCEPT ![r].pc = pc]
  PROVE  /\ req' \in [Requests -> Request]
         /\ req'[r].pc = pc
         /\ req'[r].op = req[r].op /\ req'[r].sess = req[r].sess /\ req'[r].srv = req[r].srv
         /\ req'[r].name = req[r].name /\ req'[r].claimed = req[r].claimed
         /\ req'[r].sent = req[r].sent /\ req'[r].old = req[r].old
         /\ \A q \in Requests \ {r} : req'[q] = req[q]
  BY DEF Request, Pcs

LEMMA PieceType ==
  ASSUME req \in [Requests -> Request], NEW r \in Requests, req[r].rest # <<>>,
         req' = [req EXCEPT ![r].rest = Tail(@), ![r].sent = @ + 1]
  PROVE  /\ req' \in [Requests -> Request]
         /\ Head(req[r].rest) \in Bytes
         /\ req'[r].pc = req[r].pc
         /\ req'[r].op = req[r].op /\ req'[r].sess = req[r].sess /\ req'[r].srv = req[r].srv
         /\ req'[r].name = req[r].name /\ req'[r].claimed = req[r].claimed
         /\ req'[r].sent = req[r].sent + 1
         /\ \A q \in Requests \ {r} : req'[q] = req[q]
  <1>1. req[r] \in Request /\ req[r].rest \in Seq(Bytes) /\ req[r].sent \in Nat
    BY DEF Request
  <1>2. Tail(req[r].rest) \in Seq(Bytes) /\ Head(req[r].rest) \in Bytes /\ req[r].sent + 1 \in Nat
    BY <1>1
  <1> QED
    BY <1>1, <1>2 DEF Request

LEMMA CopiedType ==
  ASSUME req \in [Requests -> Request], NEW r \in Requests, NEW whole \in BOOLEAN, NEW n \in Nat,
         req' = [req EXCEPT ![r].pc = "sizing", ![r].whole = whole, ![r].old = n]
  PROVE  /\ req' \in [Requests -> Request]
         /\ req'[r].pc = "sizing"
         /\ req'[r].op = req[r].op /\ req'[r].sess = req[r].sess /\ req'[r].srv = req[r].srv
         /\ req'[r].name = req[r].name /\ req'[r].claimed = req[r].claimed
         /\ req'[r].sent = req[r].sent /\ req'[r].old = n
         /\ \A q \in Requests \ {r} : req'[q] = req[q]
  <1> DEFINE new == [req[r] EXCEPT !.pc = "sizing", !.whole = whole, !.old = n]
  <1>1. req[r] \in Request
    OBVIOUS
  <1>2. new \in Request
    BY <1>1 DEF Request, Working
  <1>3. /\ new.pc = "sizing" /\ new.old = n
        /\ new.op = req[r].op /\ new.sess = req[r].sess /\ new.srv = req[r].srv
        /\ new.name = req[r].name /\ new.claimed = req[r].claimed /\ new.sent = req[r].sent
    BY <1>1 DEF Request
  <1>4. req' = [req EXCEPT ![r] = new]
    OBVIOUS
  <1> HIDE DEF new
  <1> QED
    BY <1>2, <1>3, <1>4

LEMMA InitUpload == UploadInit => UploadInv
  <1> SUFFICES ASSUME UploadInit PROVE UploadInv
    OBVIOUS
  <1>1. UploadTypeOK
    BY NoRequestType DEF UploadInit, UploadTypeOK
  <1>2. \A r \in Requests : req[r].pc = "idle" /\ req[r].op = "none"
    BY DEF UploadInit, NoRequest
  <1>3. RequestsKnow /\ AtHome /\ OneByOne /\ Compared /\ RecordedIsStored
    BY <1>2 DEF RequestsKnow, AtHome, OneByOne, Compared, RecordedIsStored, Active, Working, UploadInit
  <1>4. Sized
    BY <1>2 DEF Sized, Active, Working, UploadInit
  <1>5. SessionLifecycle
    BY <1>2 DEF SessionLifecycle, UploadInit
  <1> QED
    BY <1>1, <1>3, <1>4, <1>5 DEF UploadInv

-----------------------------------------------------------------------------
(* The steps of a request that is at work. *)

\* What a step does to a session: nothing, or it is dropped.
Stays(s) ==
  \/ home'[s] = home[s] /\ (s \in named' \ litter' => s \in named \ litter)
  \/ home'[s] = NoValue /\ s \notin named' \ litter'

\* A session that is dropped is in no map, and its file is gone or litter.
LEMMA DropStays ==
  ASSUME UploadTypeOK, SessionLifecycle, NEW s \in Sessions,
         DropSession(s) \/ UNCHANGED <<home, fileVars>>
  PROVE  /\ home' \in [Sessions -> Servers \cup {NoValue}]
         /\ named' \subseteq Sessions /\ litter' \subseteq Sessions
         /\ bytes' = bytes
         /\ \A z \in Sessions : home'[z] # NoValue => z \in named'
         /\ \A z \in Sessions : Stays(z)
<1>1. /\ home \in [Sessions -> Servers \cup {NoValue}]
      /\ named \subseteq Sessions /\ litter \subseteq Sessions
      /\ \A z \in Sessions : home[z] # NoValue => z \in named
  BY DEF UploadTypeOK, SessionLifecycle
<1>2. CASE UNCHANGED <<home, fileVars>>
  BY <1>1, <1>2 DEF fileVars, Stays
<1>3. CASE DropSession(s)
  <2>1. /\ home' = [home EXCEPT ![s] = NoValue] /\ bytes' = bytes
        /\ \A z \in Sessions \ {s} : home'[z] = home[z]
        /\ home'[s] = NoValue /\ home' \in [Sessions -> Servers \cup {NoValue}]
    BY <1>1, <1>3 DEF DropSession
  <2>2. CASE home[s] = NoValue
    BY <1>1, <1>3, <2>1, <2>2 DEF DropSession, Stays
  <2>3. CASE home[s] # NoValue /\ named' = named \ {s} /\ litter' = litter
    BY <1>1, <2>1, <2>3 DEF Stays
  <2>4. CASE home[s] # NoValue /\ named' = named /\ litter' = litter \cup {s}
    BY <1>1, <2>1, <2>4 DEF Stays
  <2> QED
    BY <1>3, <2>2, <2>3, <2>4 DEF DropSession, RemoveFile
<1> QED
  BY <1>2, <1>3

LEMMA HandlerKeeps ==
  ASSUME UploadInv, NEW r \in Requests, Active(r), UploadTypeOK',
         \A q \in Requests \ {r} : req'[q] = req[q],
         req'[r].pc \notin {"idle", "open", "lost"},
         req'[r].op = req[r].op, req'[r].sess = req[r].sess, req'[r].srv = req[r].srv,
         req'[r].name = req[r].name, req'[r].claimed = req[r].claimed,
         req'[r].pc \in {"hash", "store", "record", "bind", "drop"} => req[r].op # "patch",
         req'[r].pc \in {"store", "record", "bind"} => req[r].claimed \in ContentDigests,
         \/ UNCHANGED <<home, named, litter>> /\ ~(req'[r].pc = "201" /\ req[r].op = "put")
         \/ DropSession(req[r].sess),
         \A s \in Sessions \ {req[r].sess} : bytes'[s] = bytes[s] /\ size'[s] = size[s],
         SizedAt(r) => SizedAt(r)',
         stored \subseteq stored', crowded' = crowded,
         req[r].sess \notin crowded /\ req'[r].pc = "store" =>
           Sha(bytes'[req[r].sess]) = req[r].claimed,
         req[r].sess \notin crowded /\ req'[r].pc = "record" => req[r].claimed \in stored',
         crowded = {} => recorded' \subseteq stored'
  PROVE  UploadInv'
  <1> USE DEF UploadInv
  <1> DEFINE s == req[r].sess
  <1>1. s \in Sessions /\ req[r].pc # "idle" /\ req[r].pc # "201"
    BY DEF RequestsKnow, Active, Working
  <1>2. \A q \in Requests : req'[q].sess = req[q].sess
    OBVIOUS
  <1>3. \A q \in Requests \ {r} : Active(q)' <=> Active(q)
    BY DEF Active
  <1>4. RequestsKnow'
    <2> SUFFICES ASSUME NEW q \in Requests
                 PROVE  /\ req'[q].pc # "idle" => req'[q].sess \in Sessions
                        /\ Active(q)' => req'[q].op \in {"post", "patch", "put"}
                        /\ Active(q)' /\ req'[q].op # "patch" => req'[q].name \in Names
                        /\ req'[q].pc = "open" => req'[q].sent = 0
                        /\ req'[q].pc \in {"hash", "store", "record", "bind", "drop"} =>
                             req'[q].op # "patch"
                        /\ req'[q].pc \in {"store", "record", "bind"} => req'[q].claimed \in ContentDigests
      BY DEF RequestsKnow
    <2>1. CASE q = r
      BY <2>1, <1>1 DEF RequestsKnow
    <2>2. CASE q # r
      BY <2>2, <1>3 DEF RequestsKnow
    <2> QED
      BY <2>1, <2>2
  <1>5. OneByOne'
    BY <1>2, <1>3 DEF OneByOne
  <1>6. Compared'
    <2> SUFFICES ASSUME NEW q \in Requests, req[q].sess \notin crowded
                 PROVE  /\ req'[q].pc = "store" => Sha(bytes'[req[q].sess]) = req'[q].claimed
                        /\ req'[q].pc = "record" => req'[q].claimed \in stored'
      BY <1>2 DEF Compared
    <2>1. CASE q = r
      BY <2>1
    <2>2. CASE q # r
      <3>1. req'[q] = req[q]
        BY <2>2
      <3>2. req[q].pc = "record" => req[q].claimed \in stored
        BY DEF Compared
      <3>3. ASSUME req[q].pc = "store" PROVE bytes'[req[q].sess] = bytes[req[q].sess]
        <4>1. Active(q) /\ req[q].sess \in Sessions
          BY <3>3 DEF Active, Working, RequestsKnow
        <4>2. req[q].sess # s
          BY <4>1, <2>2, <1>1 DEF OneByOne
        <4> QED
          BY <4>1, <4>2
      <3>4. req[q].pc = "store" => Sha(bytes[req[q].sess]) = req[q].claimed
        BY DEF Compared
      <3> QED
        BY <3>1, <3>2, <3>3, <3>4
    <2> QED
      BY <2>1, <2>2
  <1>7. Sized'
    <2> SUFFICES ASSUME NEW z \in Sessions, Intact(z)'
                 PROVE  /\ \A q \in Requests : req'[q].sess = z /\ Active(q)' => SizedAt(q)'
                        /\ (\A q \in Requests : req'[q].sess = z => ~Active(q)') =>
                             Len(bytes'[z]) = size'[z]
      BY DEF Sized
    <2>1. Intact(z)
      BY <1>1, <1>2 DEF Intact, Active, Working
    <2>2. CASE z = s
      <3>1. SizedAt(r)
        BY <2>1, <2>2 DEF Sized
      <3>2. \A q \in Requests \ {r} : req[q].sess = z => ~Active(q)
        BY <2>1, <2>2, <1>1 DEF OneByOne, Intact
      <3>3. SizedAt(r)'
        BY <3>1
      <3>4. ~Active(r)' => Len(bytes'[z]) = size'[z]
        BY <3>3, <2>2 DEF SizedAt, Active, Working
      <3> QED
        BY <3>2, <3>3, <3>4, <2>2, <1>2, <1>3
    <2>3. CASE z # s
      <3>1. bytes'[z] = bytes[z] /\ size'[z] = size[z]
        BY <2>3
      <3>2. \A q \in Requests : req[q].sess = z => q # r /\ req'[q] = req[q]
        BY <2>3
      <3>3. \A q \in Requests : req'[q].sess = z /\ Active(q)' => SizedAt(q)'
        BY <2>1, <3>1, <3>2, <1>2, <1>3 DEF Sized, SizedAt
      <3> QED
        BY <2>1, <3>1, <3>2, <3>3, <1>2, <1>3 DEF Sized
    <2> QED
      BY <2>2, <2>3
  <1>8. SessionLifecycle' /\ AtHome'
    <2>0. /\ \A z \in Sessions : home'[z] # NoValue => z \in named'
          /\ \A z \in Sessions : Stays(z)
      <3>1. CASE UNCHANGED <<home, named, litter>>
        BY <3>1 DEF SessionLifecycle, Stays
      <3>2. CASE DropSession(req[r].sess)
        BY <3>2, <1>1, DropStays
      <3> QED
        BY <3>1, <3>2
    <2>1. ASSUME NEW q \in Requests, Active(q)'
          PROVE  /\ home'[req'[q].sess] \in {req'[q].srv, NoValue}
                 /\ home'[req'[q].sess] = NoValue => req'[q].sess \notin named' \ litter'
      <3>1. Active(q) /\ req'[q].sess = req[q].sess /\ req'[q].srv = req[q].srv
        BY <2>1, <1>3
      <3>2. req[q].sess \in Sessions
        BY <3>1 DEF RequestsKnow, Active, Working
      <3>3. /\ home[req[q].sess] \in {req[q].srv, NoValue}
            /\ home[req[q].sess] = NoValue => req[q].sess \notin named \ litter
        BY <3>1 DEF AtHome
      <3> QED
        BY <3>1, <3>2, <3>3, <2>0 DEF Stays
    <2>2. ASSUME NEW q \in Requests, req'[q].op = "put", req'[q].pc = "201"
          PROVE  home'[req'[q].sess] = NoValue /\ req'[q].sess \notin named' \ litter'
      <3>1. CASE q = r
        <4>1. DropSession(req[r].sess) /\ req'[q].sess = req[r].sess
          BY <2>2, <3>1
        <4>2. home'[req[r].sess] = NoValue
          BY <4>1, <1>1 DEF DropSession, UploadTypeOK
        <4>3. CASE home[req[r].sess] = NoValue
          <5>1. req[r].sess \notin named \ litter
            BY <4>3 DEF AtHome
          <5> QED
            BY <4>1, <4>2, <5>1, <2>0, <1>1 DEF Stays
        <4>4. CASE home[req[r].sess] # NoValue
          BY <4>1, <4>2, <4>4 DEF DropSession, RemoveFile
        <4> QED
          BY <4>3, <4>4
      <3>2. CASE q # r
        <4>1. /\ req[q].sess \in Sessions /\ home[req[q].sess] = NoValue
              /\ req[q].sess \notin named \ litter
          BY <2>2, <3>2 DEF RequestsKnow, SessionLifecycle
        <4> QED
          BY <4>1, <3>2, <2>0 DEF Stays
      <3> QED
        BY <3>1, <3>2
    <2>3. AtHome'
      BY <2>1 DEF AtHome
    <2> QED
      BY <2>0, <2>2, <2>3 DEF SessionLifecycle
  <1>9. RecordedIsStored'
    BY DEF RecordedIsStored
  <1> QED
    BY <1>4, <1>5, <1>6, <1>7, <1>8, <1>9

\* What the finalizing steps have in common: only the place of the request, the
\* session and what is stored change.
LEMMA FinalizeKeeps ==
  ASSUME UploadInv, NEW r \in Requests, NEW pc \in {"store", "record", "bind", "drop", "201", "400"},
         req[r].pc \in {"hash", "store", "record", "bind", "drop"},
         req' = [req EXCEPT ![r].pc = pc],
         pc \in {"store", "record", "bind"} => req[r].claimed \in ContentDigests,
         \/ UNCHANGED <<home, fileVars>> /\ ~(pc = "201" /\ req[r].op = "put")
         \/ DropSession(req[r].sess),
         UNCHANGED <<size, crowded>>,
         stored \subseteq stored', stored' \subseteq ContentDigests,
         recorded' \subseteq ContentDigests, bindings' \subseteq Names \X ContentDigests,
         req[r].sess \notin crowded /\ pc = "store" => Sha(bytes[req[r].sess]) = req[r].claimed,
         req[r].sess \notin crowded /\ pc = "record" => req[r].claimed \in stored',
         crowded = {} => recorded' \subseteq stored'
  PROVE  UploadInv'
  <1>1. UploadTypeOK /\ RequestsKnow /\ SessionLifecycle /\ Active(r)
    BY DEF UploadInv, Active, Working
  <1>10. req[r].sess \in Sessions
    BY <1>1 DEF RequestsKnow, Active, Working
  <1>2. pc \in Pcs /\ bytes' = bytes
    BY DEF Pcs, Working, Done, Answers, DropSession, fileVars
  <1>3. /\ req' \in [Requests -> Request]
        /\ req'[r].pc = pc
        /\ req'[r].op = req[r].op /\ req'[r].sess = req[r].sess /\ req'[r].srv = req[r].srv
        /\ req'[r].name = req[r].name /\ req'[r].claimed = req[r].claimed
        /\ req'[r].sent = req[r].sent /\ req'[r].old = req[r].old
        /\ \A q \in Requests \ {r} : req'[q] = req[q]
    BY <1>1, <1>2, MoveType DEF UploadTypeOK
  <1>4. /\ home' \in [Sessions -> Servers \cup {NoValue}]
        /\ named' \subseteq Sessions /\ litter' \subseteq Sessions
    BY <1>1, <1>10, DropStays
  <1>5. UploadTypeOK'
    BY <1>1, <1>2, <1>3, <1>4 DEF UploadTypeOK
  <1>6. SizedAt(r) => SizedAt(r)'
    BY <1>2, <1>3 DEF SizedAt
  <1>7. pc \in {"hash", "store", "record", "bind", "drop"} => req[r].op # "patch"
    BY <1>1 DEF RequestsKnow
  <1>8. \/ UNCHANGED <<home, named, litter>> /\ ~(req'[r].pc = "201" /\ req[r].op = "put")
        \/ DropSession(req[r].sess)
    BY <1>3 DEF fileVars
  <1> QED
    BY <1>1, <1>2, <1>3, <1>5, <1>6, <1>7, <1>8, HandlerKeeps

LEMMA FinalizeErrorKeeps ==
  ASSUME UploadInv, NEW r \in Requests, FinalizeError(r),
         req[r].pc \in {"hash", "store", "record", "bind", "drop"}
  PROVE  UploadInv'
  <1>1. req' = [req EXCEPT ![r].pc = "400"] /\ UNCHANGED <<size, crowded, stored, recorded, bindings>>
    BY DEF FinalizeError, storeVars
  <1>2. UNCHANGED <<home, fileVars>> \/ DropSession(req[r].sess)
    BY DEF FinalizeError
  <1>3. /\ stored \subseteq ContentDigests /\ recorded \subseteq ContentDigests /\ bindings \subseteq Names \X ContentDigests
        /\ (crowded = {} => recorded \subseteq stored)
    BY DEF UploadInv, UploadTypeOK, RecordedIsStored
  <1> QED
    BY <1>1, <1>2, <1>3, FinalizeKeeps

LEMMA FinalizeStep ==
  ASSUME UploadInv, NEW r \in Requests,
         \/ HashFile(r) \/ HashMismatch(r) \/ StoreBlob(r) \/ RecordBlob(r)
         \/ BindImage(r) \/ FinalizeFails(r) \/ Finish(r)
  PROVE  UploadInv'
  <1>1. /\ stored \subseteq ContentDigests /\ recorded \subseteq ContentDigests /\ bindings \subseteq Names \X ContentDigests
        /\ (crowded = {} => recorded \subseteq stored)
        /\ bytes \in [Sessions -> Seq(Bytes)]
        /\ RequestsKnow /\ Compared
    BY DEF UploadInv, UploadTypeOK, RecordedIsStored
  <1>2. ASSUME NEW q \in Requests, Active(q) PROVE Sha(bytes[req[q].sess]) \in ContentDigests
    <2>1. req[q].sess \in Sessions
      BY <1>1, <1>2 DEF RequestsKnow, Active, Working
    <2>2. bytes[req[q].sess] \in Seq(Bytes)
      BY <1>1, <2>1
    <2> QED
      BY <2>2 DEF Sha, ContentDigests
  <1>3. CASE HashFile(r)
    <2>1. /\ req[r].pc = "hash" /\ req' = [req EXCEPT ![r].pc = "store"]
          /\ Sha(bytes[req[r].sess]) = req[r].claimed
          /\ UNCHANGED <<home, fileVars, size, stored, recorded, bindings, crowded>>
      BY <1>3 DEF HashFile, Goto, storeVars
    <2>2. req[r].claimed \in ContentDigests
      BY <1>2, <2>1 DEF Active, Working
    <2> QED
      BY <1>1, <2>1, <2>2, FinalizeKeeps
  <1>4. CASE HashMismatch(r)
    BY <1>4, FinalizeErrorKeeps DEF HashMismatch
  <1>5. CASE StoreBlob(r)
    <2>1. /\ req[r].pc = "store" /\ req' = [req EXCEPT ![r].pc = "record"]
          /\ stored' = stored \cup {Sha(bytes[req[r].sess])}
          /\ UNCHANGED <<home, fileVars, size, recorded, bindings, crowded>>
      BY <1>5 DEF StoreBlob, Goto
    <2>2. Sha(bytes[req[r].sess]) \in ContentDigests
      BY <1>2, <2>1 DEF Active, Working
    <2>3. req[r].claimed \in ContentDigests
      BY <1>1, <2>1 DEF RequestsKnow
    <2>4. req[r].sess \notin crowded => req[r].claimed \in stored'
      BY <1>1, <2>1 DEF Compared
    <2> QED
      BY <1>1, <2>1, <2>2, <2>3, <2>4, FinalizeKeeps
  <1>6. CASE RecordBlob(r)
    <2>1. /\ req[r].pc = "record" /\ req' = [req EXCEPT ![r].pc = "bind"]
          /\ recorded' = recorded \cup {req[r].claimed}
          /\ UNCHANGED <<home, fileVars, size, stored, bindings, crowded>>
      BY <1>6 DEF RecordBlob, Goto
    <2>2. req[r].claimed \in ContentDigests
      BY <1>1, <2>1 DEF RequestsKnow
    <2>3. crowded = {} => recorded' \subseteq stored'
      BY <1>1, <2>1 DEF Compared
    <2> QED
      BY <1>1, <2>1, <2>2, <2>3, FinalizeKeeps
  <1>7. CASE BindImage(r)
    <2> DEFINE pc == IF req[r].op = "put" THEN "drop" ELSE "201"
    <2>1. /\ req[r].pc = "bind" /\ req' = [req EXCEPT ![r].pc = pc]
          /\ bindings' = bindings \cup {<<req[r].name, req[r].claimed>>}
          /\ UNCHANGED <<home, fileVars, size, stored, recorded, crowded>>
      BY <1>7 DEF BindImage, Goto
    <2>2. req[r].claimed \in ContentDigests /\ req[r].name \in Names
      BY <1>1, <2>1 DEF RequestsKnow, Active, Working
    <2>3. pc \in {"drop", "201"} /\ ~(pc = "201" /\ req[r].op = "put")
      OBVIOUS
    <2>4. bindings' \subseteq Names \X ContentDigests
      BY <1>1, <2>1, <2>2
    <2> HIDE DEF pc
    <2> QED
      BY <1>1, <2>1, <2>3, <2>4, FinalizeKeeps
  <1>8. CASE FinalizeFails(r)
    BY <1>8, FinalizeErrorKeeps DEF FinalizeFails
  <1>9. CASE Finish(r)
    <2>1. /\ req[r].pc = "drop" /\ req' = [req EXCEPT ![r].pc = "201"]
          /\ DropSession(req[r].sess)
          /\ UNCHANGED <<size, stored, recorded, bindings, crowded>>
      BY <1>9 DEF Finish, Goto, storeVars
    <2> QED
      BY <1>1, <2>1, FinalizeKeeps
  <1> QED
    BY <1>3, <1>4, <1>5, <1>6, <1>7, <1>8, <1>9

LEMMA AppendStep ==
  ASSUME UploadInv, NEW r \in Requests,
         \/ OpenFile(r) \/ CopyPiece(r)
         \/ (\E whole \in BOOLEAN : CopyEnd(r, whole))
         \/ SetSize(r)
  PROVE  UploadInv'
  <1>1. /\ UploadTypeOK /\ RequestsKnow /\ SessionLifecycle
        /\ (crowded = {} => recorded \subseteq stored)
    BY DEF UploadInv, RecordedIsStored
  <1>2. ASSUME req[r].pc \in {"open", "copy", "sizing"}
        PROVE  /\ Active(r) /\ req[r].sess \in Sessions /\ req[r].op \in {"post", "patch", "put"}
               /\ size[req[r].sess] \in Nat /\ bytes[req[r].sess] \in Seq(Bytes)
               /\ req[r].sent \in Nat /\ req[r].old \in Nat /\ req[r].whole \in BOOLEAN
    <2>1. Active(r) /\ req[r].sess \in Sessions /\ req[r].op \in {"post", "patch", "put"}
      BY <1>1, <1>2 DEF RequestsKnow, Active, Working
    <2> QED
      BY <2>1, <1>1 DEF UploadTypeOK, Request
  <1>3. CASE OpenFile(r)
    <2> DEFINE pc == IF req[r].sess \in named THEN "copy" ELSE "500"
    <2>1. /\ req[r].pc = "open" /\ req' = [req EXCEPT ![r].pc = pc]
          /\ UNCHANGED <<home, named, litter, bytes, size, stored, recorded, bindings, crowded>>
      BY <1>3 DEF OpenFile, Goto, storeVars, fileVars
    <2>2. pc \in {"copy", "500"} /\ pc \in Pcs
      BY DEF Pcs, Working, Done, Answers
    <2> HIDE DEF pc
    <2>3. /\ req' \in [Requests -> Request]
          /\ req'[r].pc = pc
          /\ req'[r].op = req[r].op /\ req'[r].sess = req[r].sess /\ req'[r].srv = req[r].srv
          /\ req'[r].name = req[r].name /\ req'[r].claimed = req[r].claimed
          /\ req'[r].sent = req[r].sent
          /\ \A q \in Requests \ {r} : req'[q] = req[q]
      BY <1>1, <2>1, <2>2, MoveType DEF UploadTypeOK
    <2>4. UploadTypeOK'
      BY <1>1, <2>1, <2>3 DEF UploadTypeOK
    <2>5. SizedAt(r) => SizedAt(r)'
      <3>1. req[r].sent = 0
        BY <1>1, <2>1 DEF RequestsKnow
      <3> QED
        BY <1>2, <2>1, <2>2, <2>3, <3>1 DEF SizedAt
    <2> QED
      BY <1>1, <1>2, <2>1, <2>2, <2>3, <2>4, <2>5, HandlerKeeps
  <1>4. CASE CopyPiece(r)
    <2>1. /\ req[r].pc = "copy" /\ req[r].rest # <<>>
          /\ bytes' = [bytes EXCEPT ![req[r].sess] = Append(@, Head(req[r].rest))]
          /\ req' = [req EXCEPT ![r].rest = Tail(@), ![r].sent = @ + 1]
          /\ UNCHANGED <<home, named, litter, size, stored, recorded, bindings, crowded>>
      BY <1>4 DEF CopyPiece, storeVars
    <2>2. /\ req' \in [Requests -> Request]
          /\ Head(req[r].rest) \in Bytes
          /\ req'[r].pc = req[r].pc
          /\ req'[r].op = req[r].op /\ req'[r].sess = req[r].sess /\ req'[r].srv = req[r].srv
          /\ req'[r].name = req[r].name /\ req'[r].claimed = req[r].claimed
          /\ req'[r].sent = req[r].sent + 1
          /\ \A q \in Requests \ {r} : req'[q] = req[q]
      BY <1>1, <2>1, PieceType DEF UploadTypeOK
    <2> DEFINE new == Append(bytes[req[r].sess], Head(req[r].rest))
    <2>3. new \in Seq(Bytes) /\ Len(new) = Len(bytes[req[r].sess]) + 1
      BY <1>2, <2>1, <2>2
    <2>4. bytes' = [bytes EXCEPT ![req[r].sess] = new]
      BY <2>1
    <2> HIDE DEF new
    <2>5. /\ bytes' \in [Sessions -> Seq(Bytes)] /\ bytes'[req[r].sess] = new
          /\ \A s \in Sessions \ {req[r].sess} : bytes'[s] = bytes[s]
      BY <1>1, <1>2, <2>1, <2>3, <2>4 DEF UploadTypeOK
    <2>6. UploadTypeOK'
      BY <1>1, <2>1, <2>2, <2>5 DEF UploadTypeOK
    <2>7. SizedAt(r) => SizedAt(r)'
      <3> SUFFICES ASSUME SizedAt(r) PROVE SizedAt(r)'
        OBVIOUS
      <3>1. Len(bytes[req[r].sess]) = size[req[r].sess] + req[r].sent
        BY <2>1 DEF SizedAt
      <3>2. Len(new) = size[req[r].sess] + (req[r].sent + 1)
        BY <1>2, <2>1, <2>3, <3>1
      <3>3. bytes'[req'[r].sess] = new /\ size' = size
        BY <2>1, <2>2, <2>5
      <3> QED
        BY <2>1, <2>2, <3>2, <3>3 DEF SizedAt
    <2> QED
      BY <1>1, <1>2, <2>1, <2>2, <2>5, <2>6, <2>7, HandlerKeeps
  <1>5. ASSUME NEW whole \in BOOLEAN, CopyEnd(r, whole) PROVE UploadInv'
    <2>1. /\ req[r].pc = "copy"
          /\ req' = [req EXCEPT ![r].pc = "sizing", ![r].whole = whole,
                                ![r].old = size[req[r].sess]]
          /\ UNCHANGED <<home, named, litter, bytes, size, stored, recorded, bindings, crowded>>
      BY <1>5 DEF CopyEnd, storeVars, fileVars
    <2>2. /\ req' \in [Requests -> Request]
          /\ req'[r].pc = "sizing"
          /\ req'[r].op = req[r].op /\ req'[r].sess = req[r].sess /\ req'[r].srv = req[r].srv
          /\ req'[r].name = req[r].name /\ req'[r].claimed = req[r].claimed
          /\ req'[r].sent = req[r].sent /\ req'[r].old = size[req[r].sess]
          /\ \A q \in Requests \ {r} : req'[q] = req[q]
      BY <1>1, <1>2, <2>1, CopiedType DEF UploadTypeOK
    <2>3. UploadTypeOK'
      BY <1>1, <2>1, <2>2 DEF UploadTypeOK
    <2>4. SizedAt(r) => SizedAt(r)'
      BY <2>1, <2>2 DEF SizedAt
    <2> QED
      BY <1>1, <1>2, <2>1, <2>2, <2>3, <2>4, HandlerKeeps
  <1>6. CASE SetSize(r)
    <2> DEFINE pc == AfterAppend(req[r])
    <2>1. /\ req[r].pc = "sizing" /\ req' = [req EXCEPT ![r].pc = pc]
          /\ size' = [size EXCEPT ![req[r].sess] = req[r].old + req[r].sent]
          /\ UNCHANGED <<bytes, stored, recorded, bindings, crowded>>
          /\ UNCHANGED <<home, named, litter>> \/ DropSession(req[r].sess)
      BY <1>6 DEF SetSize, Goto, storeVars, fileVars, DropSession
    <2>2. /\ pc \in {"500", "202", "400", "hash"}
          /\ pc = "hash" => req[r].op # "patch"
      BY <1>2, <2>1 DEF AfterAppend
    <2>3. pc \in Pcs
      BY <2>2 DEF Pcs, Working, Done, Answers
    <2> HIDE DEF pc
    <2>4. /\ req' \in [Requests -> Request]
          /\ req'[r].pc = pc
          /\ req'[r].op = req[r].op /\ req'[r].sess = req[r].sess /\ req'[r].srv = req[r].srv
          /\ req'[r].name = req[r].name /\ req'[r].claimed = req[r].claimed
          /\ \A q \in Requests \ {r} : req'[q] = req[q]
      BY <1>1, <2>1, <2>3, MoveType DEF UploadTypeOK
    <2>5. /\ size' \in [Sessions -> Nat] /\ size'[req[r].sess] = req[r].old + req[r].sent
          /\ \A s \in Sessions \ {req[r].sess} : size'[s] = size[s]
      BY <1>1, <1>2, <2>1 DEF UploadTypeOK
    <2>6. /\ home' \in [Sessions -> Servers \cup {NoValue}]
          /\ named' \subseteq Sessions /\ litter' \subseteq Sessions
      BY <1>1, <1>2, <2>1, DropStays DEF fileVars
    <2>7. UploadTypeOK'
      BY <1>1, <2>1, <2>4, <2>5, <2>6 DEF UploadTypeOK
    <2>8. SizedAt(r) => SizedAt(r)'
      BY <2>1, <2>2, <2>4, <2>5 DEF SizedAt
    <2> QED
      BY <1>1, <1>2, <2>1, <2>2, <2>4, <2>5, <2>7, <2>8, HandlerKeeps
  <1> QED
    BY <1>3, <1>4, <1>5, <1>6

-----------------------------------------------------------------------------
(* Arrivals. *)

LEMMA BodySeq == Body \subseteq Seq(Bytes)
  <1> SUFFICES ASSUME NEW body \in Body PROVE body \in Seq(Bytes)
    OBVIOUS
  <1>1. PICK n \in 0..MaxBody : body \in [1..n -> Bytes]
    BY DEF Body
  <1>2. n \in Nat
    BY <1>1, UploadAssumption DEF UploadAssumption
  <1> QED
    BY <1>1, <1>2, SeqDef

LEMMA ArrivalKeeps ==
  ASSUME UploadInv, NEW r \in Requests, NEW s \in Sessions, req[r].pc = "idle",
         req' \in [Requests -> Request],
         \A q \in Requests \ {r} : req'[q] = req[q],
         req'[r].sess = s,
         req'[r].pc \in {"open", "hash", "202", "204", "400", "404"},
         req'[r].pc \in {"open", "hash"} =>
           /\ req'[r].op \in {"post", "patch", "put"}
           /\ req'[r].op # "patch" => req'[r].name \in Names,
         req'[r].pc = "hash" => req'[r].op # "patch",
         req'[r].sent = 0,
         UNCHANGED <<bytes, size, storeVars>>,
         crowded \subseteq crowded', crowded' \subseteq Sessions,
         s \notin crowded' => \A q \in Requests : req[q].sess = s => ~Active(q),
         home' \in [Sessions -> Servers \cup {NoValue}],
         named' \subseteq Sessions, litter' \subseteq Sessions,
         \A z \in Sessions : home'[z] # NoValue => z \in named',
         \A z \in Sessions : Stays(z) \/ \A q \in Requests : req[q].sess # z,
         req'[r].pc \in {"open", "hash"} => home'[s] = req'[r].srv /\ home'[s] # NoValue
  PROVE  UploadInv'
  <1> USE DEF UploadInv
  <1>1. UNCHANGED <<stored, recorded, bindings, bytes, size>>
    BY DEF storeVars
  <1>2. /\ req' \in [Requests -> Request]
        /\ \A q \in Requests \ {r} : req'[q] = req[q]
    OBVIOUS
  <1>3. UploadTypeOK'
    BY <1>1, <1>2 DEF UploadTypeOK
  <1>4. \A q \in Requests \ {r} : Active(q)' <=> Active(q)
    BY <1>2 DEF Active
  <1>5. Active(r)' => req'[r].pc \in {"open", "hash"}
    BY <1>2 DEF Active, Working
  <1>6. RequestsKnow'
    <2> SUFFICES ASSUME NEW q \in Requests
                 PROVE  /\ req'[q].pc # "idle" => req'[q].sess \in Sessions
                        /\ Active(q)' => req'[q].op \in {"post", "patch", "put"}
                        /\ Active(q)' /\ req'[q].op # "patch" => req'[q].name \in Names
                        /\ req'[q].pc = "open" => req'[q].sent = 0
                        /\ req'[q].pc \in {"hash", "store", "record", "bind", "drop"} =>
                             req'[q].op # "patch"
                        /\ req'[q].pc \in {"store", "record", "bind"} => req'[q].claimed \in ContentDigests
      BY DEF RequestsKnow
    <2>1. CASE q = r
      BY <2>1, <1>2, <1>5
    <2>2. CASE q # r
      BY <2>2, <1>2, <1>4 DEF RequestsKnow
    <2> QED
      BY <2>1, <2>2
  <1>7. OneByOne'
    <2> SUFFICES ASSUME NEW z \in Sessions \ crowded', NEW a \in Requests, NEW b \in Requests,
                        Active(a)', Active(b)', req'[a].sess = z, req'[b].sess = z, a # b
                 PROVE  FALSE
      BY DEF OneByOne
    <2>1. CASE a # r /\ b # r
      BY <2>1, <1>2, <1>4 DEF OneByOne
    <2>2. CASE a = r \/ b = r
      BY <2>2, <1>2, <1>4
    <2> QED
      BY <2>1, <2>2
  <1>8. Compared'
    BY <1>1, <1>2 DEF Compared
  <1>9. Sized'
    <2> SUFFICES ASSUME NEW z \in Sessions, Intact(z)'
                 PROVE  /\ \A q \in Requests : req'[q].sess = z /\ Active(q)' => SizedAt(q)'
                        /\ (\A q \in Requests : req'[q].sess = z => ~Active(q)') =>
                             Len(bytes'[z]) = size'[z]
      BY DEF Sized
    <2>0. ASSUME NEW q \in Requests \ {r} PROVE SizedAt(q)' <=> SizedAt(q)
      BY <1>1, <1>2 DEF SizedAt
    <2>1. CASE z = s
      <3>1. \A q \in Requests : req[q].sess = s => ~Active(q)
        BY <2>1 DEF Intact
      <3>2. Intact(s)
        BY <2>1, <3>1, <1>2, <1>4 DEF Intact, Active, Working
      <3>3. Len(bytes[s]) = size[s]
        BY <3>1, <3>2 DEF Sized
      <3>4. SizedAt(r)'
        BY <3>3, <1>1, <1>2 DEF SizedAt
      <3> QED
        BY <2>1, <3>1, <3>3, <3>4, <1>1, <1>2, <1>4
    <2>2. CASE z # s
      <3>1. Intact(z) /\ req[r].pc = "idle"
        BY <2>2, <1>2 DEF Intact
      <3>2. \A q \in Requests : req'[q].sess = z => q # r
        BY <2>2, <1>2
      <3>3. \A q \in Requests : req'[q].sess = z /\ Active(q)' => SizedAt(q)'
        BY <3>1, <3>2, <1>2, <1>4, <2>0 DEF Sized
      <3>4. (\A q \in Requests : req'[q].sess = z => ~Active(q)') => Len(bytes[z]) = size[z]
        BY <3>1, <3>2, <1>2, <1>4 DEF Sized, Active, Working
      <3> QED
        BY <3>3, <3>4, <1>1
    <2> QED
      BY <2>1, <2>2
  <1>12. AtHome'
    <2> SUFFICES ASSUME NEW q \in Requests, Active(q)'
                 PROVE  /\ home'[req'[q].sess] \in {req'[q].srv, NoValue}
                        /\ home'[req'[q].sess] = NoValue => req'[q].sess \notin named' \ litter'
      BY DEF AtHome
    <2>1. CASE q = r
      BY <2>1, <1>5
    <2>2. CASE q # r
      <3>1. req'[q] = req[q] /\ Active(q)
        BY <2>2, <1>2, <1>4
      <3>2. req[q].sess \in Sessions
        BY <3>1 DEF RequestsKnow, Active, Working
      <3>3. /\ home[req[q].sess] \in {req[q].srv, NoValue}
            /\ home[req[q].sess] = NoValue => req[q].sess \notin named \ litter
        BY <3>1 DEF AtHome
      <3>4. Stays(req[q].sess)
        BY <3>2
      <3> QED
        BY <3>1, <3>3, <3>4 DEF Stays
    <2> QED
      BY <2>1, <2>2
  <1>10. SessionLifecycle'
    <2>1. ASSUME NEW q \in Requests, req'[q].op = "put", req'[q].pc = "201"
          PROVE  home'[req'[q].sess] = NoValue /\ req'[q].sess \notin named' \ litter'
      <3>1. q # r
        BY <2>1, <1>2
      <3>2. /\ req[q].sess \in Sessions /\ home[req[q].sess] = NoValue
            /\ req[q].sess \notin named \ litter
        BY <2>1, <3>1, <1>2 DEF RequestsKnow, SessionLifecycle
      <3>3. Stays(req[q].sess)
        BY <3>2
      <3> QED
        BY <3>1, <3>2, <3>3, <1>2 DEF Stays
    <2> QED
      BY <2>1 DEF SessionLifecycle
  <1>11. RecordedIsStored'
    BY <1>1 DEF RecordedIsStored
  <1> QED
    BY <1>3, <1>6, <1>7, <1>8, <1>9, <1>10, <1>11, <1>12

\* A POST: the session is new.
LEMMA CreateKeeps ==
  ASSUME UploadInv, NEW r \in Requests, NEW p \in Servers, NEW s \in Sessions,
         NEW request \in Request, request.pc \in {"202", "open"}, request.sent = 0,
         request.pc = "open" => request.name \in Names,
         NewSession(r, p, s, request)
  PROVE  UploadInv'
  <1> DEFINE new == [request EXCEPT !.op = "post", !.srv = p, !.sess = s]
  <1>1. new \in Request
    BY DEF Request, Ops
  <1>2. /\ req[r].pc = "idle"
        /\ \A q \in Requests : req[q].sess # s
        /\ home' = [home EXCEPT ![s] = p]
        /\ named' = named \cup {s}
        /\ req' = [req EXCEPT ![r] = new]
        /\ litter' = litter
        /\ UNCHANGED <<bytes, size, storeVars>> /\ crowded' = crowded
    BY DEF NewSession
  <1>3. /\ home \in [Sessions -> Servers \cup {NoValue}]
        /\ named \subseteq Sessions /\ litter \subseteq Sessions
        /\ crowded \subseteq Sessions /\ SessionLifecycle
    BY DEF UploadInv, UploadTypeOK
  <1>4. /\ home' \in [Sessions -> Servers \cup {NoValue}]
        /\ named' \subseteq Sessions /\ litter' \subseteq Sessions
        /\ \A z \in Sessions : home'[z] # NoValue => z \in named'
        /\ \A z \in Sessions \ {s} : home'[z] = home[z] /\ (z \in named' <=> z \in named)
        /\ home'[s] = p
    BY <1>2, <1>3 DEF SessionLifecycle
  <1>5. /\ new.sess = s /\ new.srv = p /\ new.pc = request.pc /\ new.op = "post"
        /\ new.sent = 0 /\ new.name = request.name
    BY DEF Request
  <1> HIDE DEF new
  <1>9. /\ req' \in [Requests -> Request] /\ req'[r] = new
        /\ \A q \in Requests \ {r} : req'[q] = req[q]
    BY <1>1, <1>2 DEF UploadInv, UploadTypeOK
  <1>6. \A z \in Sessions : Stays(z) \/ \A q \in Requests : req[q].sess # z
    BY <1>2, <1>4 DEF Stays
  <1>7. /\ req'[r].sess = s /\ req'[r].sent = 0
        /\ req'[r].pc \in {"open", "hash", "202", "204", "400", "404"}
        /\ req'[r].pc \in {"open", "hash"} =>
             /\ req'[r].op \in {"post", "patch", "put"}
             /\ req'[r].op # "patch" => req'[r].name \in Names
        /\ req'[r].pc = "hash" => req'[r].op # "patch"
        /\ home'[s] = req'[r].srv /\ home'[s] # NoValue
    BY <1>4, <1>5, <1>9, UploadAssumption DEF UploadAssumption
  <1>8. /\ crowded \subseteq crowded' /\ crowded' \subseteq Sessions
        /\ s \notin crowded' => \A q \in Requests : req[q].sess = s => ~Active(q)
    BY <1>2, <1>3
  <1> QED
    BY <1>2, <1>4, <1>6, <1>7, <1>8, <1>9, ArrivalKeeps

\* A request for a session that a client knows.
LEMMA LookupKeeps ==
  ASSUME UploadInv, NEW r \in Requests, NEW p \in Servers, NEW s \in Sessions,
         NEW request \in Request, request.sent = 0,
         request.op \in {"patch", "put", "delete"},
         request.pc \in {"open", "hash", "204", "400"},
         request.op = "put" => request.name \in Names,
         request.op = "delete" => request.pc = "204",
         request.pc = "hash" => request.op # "patch",
         Lookup(r, p, s, request),
         UNCHANGED <<size, storeVars>>,
         \/ request.op = "delete" /\ DropSession(s)
         \/ UNCHANGED <<home, fileVars>>
  PROVE  UploadInv'
  <1> DEFINE at == IF home[s] = p THEN request.pc ELSE "404"
             new == [request EXCEPT !.srv = p, !.sess = s, !.pc = at]
  <1>1. /\ at \in {"open", "hash", "204", "400", "404"} /\ at \in {request.pc, "404"}
        /\ at # "404" => home[s] = p
    OBVIOUS
  <1>2. /\ req[r].pc = "idle"
        /\ req' = [req EXCEPT ![r] = [request EXCEPT !.srv = p, !.sess = s,
                     !.pc = IF home[s] = p THEN @ ELSE "404"]]
        /\ crowded' = crowded \cup {t \in {s} : \E q \in Requests : req[q].sess = s /\ Active(q)}
    BY DEF Lookup
  <1>3. req' = [req EXCEPT ![r] = new]
    BY <1>2
  <1> HIDE DEF at
  <1>4. /\ new \in Request
        /\ new.sess = s /\ new.srv = p /\ new.pc = at /\ new.op = request.op
        /\ new.sent = 0 /\ new.name = request.name
    BY <1>1 DEF Request, Working, Done, Answers
  <1> HIDE DEF new
  <1>5. UploadTypeOK /\ SessionLifecycle /\ crowded \subseteq Sessions
    BY DEF UploadInv, UploadTypeOK
  <1>7. /\ home' \in [Sessions -> Servers \cup {NoValue}]
        /\ named' \subseteq Sessions /\ litter' \subseteq Sessions
        /\ bytes' = bytes
        /\ \A z \in Sessions : home'[z] # NoValue => z \in named'
        /\ \A z \in Sessions : Stays(z)
    BY <1>5, DropStays
  <1>8. crowded \subseteq crowded' /\ crowded' \subseteq Sessions
    BY <1>2, <1>5
  <1>9. s \notin crowded' => \A q \in Requests : req[q].sess = s => ~Active(q)
    BY <1>2
  <1>10. /\ req' \in [Requests -> Request] /\ req'[r] = new
         /\ \A q \in Requests \ {r} : req'[q] = req[q]
    BY <1>3, <1>4 DEF UploadInv, UploadTypeOK
  <1>11. /\ req'[r].sess = s /\ req'[r].sent = 0
         /\ req'[r].pc \in {"open", "hash", "202", "204", "400", "404"}
    BY <1>1, <1>4, <1>10
  <1>12. /\ req'[r].pc \in {"open", "hash"} =>
              /\ req'[r].op \in {"post", "patch", "put"}
              /\ req'[r].op # "patch" => req'[r].name \in Names
         /\ req'[r].pc = "hash" => req'[r].op # "patch"
    BY <1>1, <1>4, <1>10
  <1>13. /\ UNCHANGED <<bytes, size, storeVars>>
         /\ \A z \in Sessions : Stays(z) \/ \A q \in Requests : req[q].sess # z
    BY <1>7
  <1>14. req'[r].pc \in {"open", "hash"} => home'[s] = req'[r].srv /\ home'[s] # NoValue
    <2> SUFFICES ASSUME req'[r].pc \in {"open", "hash"} PROVE home'[s] = p /\ p # NoValue
      BY <1>4, <1>10
    <2>1. at # "404" /\ request.op # "delete"
      BY <1>1, <1>4, <1>10
    <2>2. home' = home /\ home[s] = p
      BY <1>1, <2>1
    <2> QED
      BY <2>2, UploadAssumption DEF UploadAssumption
  <1> QED
    BY <1>2, <1>7, <1>8, <1>9, <1>10, <1>11, <1>12, <1>13, <1>14, ArrivalKeeps

LEMMA ArrivalStep ==
  ASSUME UploadInv, NEW r \in Requests, Arrival(r)
  PROVE  UploadInv'
  <1>1. PICK p \in Servers, s \in Sessions :
          \/ Start(r, p, s)
          \/ Cancel(r, p, s)
          \/ \E body \in Body :
               \/ Patch(r, p, s, body)
               \/ \E n \in Names :
                    \/ \E claimed \in Claims : Monolithic(r, p, s, n, claimed, body)
                    \/ \E claimed \in Claims \cup {NoValue} : Put(r, p, s, n, claimed, body)
    BY DEF Arrival
  <1>2. CASE Start(r, p, s)
    <2> DEFINE request == [NoRequest EXCEPT !.pc = "202"]
    <2>1. request \in Request /\ request.pc = "202" /\ request.sent = 0
      BY NoRequestType DEF NoRequest, Request, Done, Answers
    <2>2. NewSession(r, p, s, request)
      BY <1>2 DEF Start
    <2> HIDE DEF request
    <2> QED
      BY <2>1, <2>2, CreateKeeps
  <1>3. CASE Cancel(r, p, s)
    <2> DEFINE request == [NoRequest EXCEPT !.op = "delete", !.pc = "204"]
    <2>1. request \in Request /\ request.pc = "204" /\ request.op = "delete" /\ request.sent = 0
      BY NoRequestType DEF NoRequest, Request, Ops, Done, Answers
    <2>2. /\ Lookup(r, p, s, request)
          /\ UNCHANGED <<size, storeVars>>
          /\ DropSession(s) \/ UNCHANGED <<home, fileVars>>
      BY <1>3 DEF Cancel
    <2> HIDE DEF request
    <2> QED
      BY <2>1, <2>2, LookupKeeps
  <1>4. ASSUME NEW body \in Body, Patch(r, p, s, body) PROVE UploadInv'
    <2> DEFINE request == [NoRequest EXCEPT !.op = "patch", !.rest = body, !.pc = "open"]
    <2>1. body \in Seq(Bytes)
      BY BodySeq
    <2>2. request \in Request /\ request.pc = "open" /\ request.op = "patch" /\ request.sent = 0
      BY <2>1, NoRequestType DEF NoRequest, Request, Ops, Working
    <2>3. Lookup(r, p, s, request) /\ UNCHANGED <<home, fileVars, size, storeVars>>
      BY <1>4 DEF Patch
    <2> HIDE DEF request
    <2> QED
      BY <2>2, <2>3, LookupKeeps
  <1>5. ASSUME NEW body \in Body, NEW n \in Names, NEW c \in Claims, Monolithic(r, p, s, n, c, body)
        PROVE  UploadInv'
    <2> DEFINE request == [NoRequest EXCEPT !.name = n, !.claimed = c, !.rest = body, !.pc = "open"]
    <2>1. body \in Seq(Bytes)
      BY BodySeq
    <2>2. request \in Request /\ request.pc = "open" /\ request.name = n /\ request.sent = 0
      BY <2>1, NoRequestType DEF NoRequest, Request, Working
    <2>3. NewSession(r, p, s, request)
      BY <1>5 DEF Monolithic
    <2> HIDE DEF request
    <2> QED
      BY <2>2, <2>3, CreateKeeps
  <1>6. ASSUME NEW body \in Body, NEW n \in Names, NEW c \in Claims \cup {NoValue},
               Put(r, p, s, n, c, body)
        PROVE  UploadInv'
    <2> DEFINE pc == PutPc(c, body)
               request == [NoRequest EXCEPT !.op = "put", !.name = n, !.claimed = c,
                                            !.rest = body, !.pc = pc]
    <2>1. body \in Seq(Bytes)
      BY BodySeq
    <2>2. pc \in {"open", "hash", "400"}
      BY DEF PutPc
    <2>3. Lookup(r, p, s, request) /\ UNCHANGED <<home, fileVars, size, storeVars>>
      BY <1>6 DEF Put
    <2> HIDE DEF pc
    <2>4. /\ request \in Request /\ request.pc = pc /\ request.op = "put"
          /\ request.name = n /\ request.sent = 0
      BY <2>1, <2>2, NoRequestType DEF NoRequest, Request, Ops, Working, Done, Answers
    <2> HIDE DEF request
    <2> QED
      BY <2>2, <2>3, <2>4, LookupKeeps
  <1> QED
    BY <1>1, <1>2, <1>3, <1>4, <1>5, <1>6

-----------------------------------------------------------------------------
(* The other steps. *)

\* A step after which only the images' bindings may differ.
LEMMA BindingsKeep ==
  ASSUME UploadInv, bindings' \subseteq Names \X ContentDigests,
         UNCHANGED <<home, fileVars, size, stored, recorded, req, crowded>>
  PROVE  UploadInv'
  <1> USE DEF UploadInv, fileVars
  <1>1. UploadTypeOK'
    BY DEF UploadTypeOK
  <1>2. \A r \in Requests : Active(r)' <=> Active(r)
    BY DEF Active
  <1>3. RequestsKnow' /\ AtHome' /\ OneByOne' /\ Compared'
    BY <1>2 DEF RequestsKnow, AtHome, OneByOne, Compared
  <1>4. Sized'
    BY <1>2 DEF Sized, Intact, SizedAt
  <1>5. SessionLifecycle' /\ RecordedIsStored'
    BY DEF SessionLifecycle, RecordedIsStored
  <1> QED
    BY <1>1, <1>3, <1>4, <1>5

LEMMA RestartStep ==
  ASSUME UploadInv, NEW p \in Servers, Restart(p)
  PROVE  UploadInv'
  <1> USE DEF UploadInv
  <1>1. /\ home' = [s \in Sessions |-> IF home[s] = p THEN NoValue ELSE home[s]]
        /\ req' = [r \in Requests |->
             IF Active(r) /\ req[r].srv = p THEN [req[r] EXCEPT !.pc = "lost"] ELSE req[r]]
        /\ UNCHANGED <<named, litter, bytes, size, stored, recorded, bindings, crowded>>
    BY DEF Restart, fileVars, storeVars
  <1>2. ASSUME NEW r \in Requests
        PROVE  /\ req'[r] \in Request
               /\ req'[r].op = req[r].op /\ req'[r].sess = req[r].sess
               /\ req'[r].name = req[r].name /\ req'[r].claimed = req[r].claimed
               /\ req'[r].sent = req[r].sent
               /\ req'[r] = req[r] \/ (Active(r) /\ req'[r].pc = "lost")
    <2>1. req[r] \in Request
      BY DEF UploadTypeOK
    <2>2. CASE Active(r) /\ req[r].srv = p
      <3>1. req'[r] = [req[r] EXCEPT !.pc = "lost"]
        BY <1>1, <2>2
      <3> QED
        BY <2>1, <2>2, <3>1 DEF Request, Done
    <2>3. CASE ~(Active(r) /\ req[r].srv = p)
      BY <1>1, <2>1, <2>3
    <2> QED
      BY <2>2, <2>3
  <1>3. req' \in [Requests -> Request]
    BY <1>1, <1>2
  <1>4. home' \in [Sessions -> Servers \cup {NoValue}]
    BY <1>1 DEF UploadTypeOK
  <1>5. UploadTypeOK'
    BY <1>1, <1>3, <1>4 DEF UploadTypeOK
  <1>6. \A r \in Requests : Active(r)' => Active(r) /\ req'[r] = req[r]
    BY <1>2 DEF Active, Working
  <1>7. RequestsKnow'
    <2> SUFFICES ASSUME NEW q \in Requests
                 PROVE  /\ req'[q].pc # "idle" => req'[q].sess \in Sessions
                        /\ Active(q)' => req'[q].op \in {"post", "patch", "put"}
                        /\ Active(q)' /\ req'[q].op # "patch" => req'[q].name \in Names
                        /\ req'[q].pc = "open" => req'[q].sent = 0
                        /\ req'[q].pc \in {"hash", "store", "record", "bind", "drop"} =>
                             req'[q].op # "patch"
                        /\ req'[q].pc \in {"store", "record", "bind"} => req'[q].claimed \in ContentDigests
      BY DEF RequestsKnow
    <2>1. CASE req'[q] = req[q]
      BY <2>1, <1>6 DEF RequestsKnow
    <2>2. CASE Active(q) /\ req'[q].pc = "lost"
      BY <2>2, <1>2 DEF RequestsKnow, Active, Working
    <2> QED
      BY <2>1, <2>2, <1>2
  <1>8. OneByOne'
    BY <1>1, <1>6 DEF OneByOne
  <1>9. Compared'
    <2> SUFFICES ASSUME NEW q \in Requests, req'[q].sess \notin crowded
                 PROVE  /\ req'[q].pc = "store" => Sha(bytes[req'[q].sess]) = req'[q].claimed
                        /\ req'[q].pc = "record" => req'[q].claimed \in stored
      BY <1>1 DEF Compared
    <2>1. CASE req'[q] = req[q]
      BY <2>1 DEF Compared
    <2>2. CASE req'[q].pc = "lost"
      BY <2>2
    <2> QED
      BY <2>1, <2>2, <1>2
  <1>10. Sized'
    <2> SUFFICES ASSUME NEW z \in Sessions, Intact(z)'
                 PROVE  /\ \A q \in Requests : req'[q].sess = z /\ Active(q)' => SizedAt(q)'
                        /\ (\A q \in Requests : req'[q].sess = z => ~Active(q)') =>
                             Len(bytes'[z]) = size'[z]
      BY DEF Sized
    <2>1. \A q \in Requests : req[q].sess = z => req'[q] = req[q]
      BY <1>2 DEF Intact
    <2>2. Intact(z)
      BY <1>1, <1>2, <2>1 DEF Intact
    <2>3. \A q \in Requests : req'[q].sess = z =>
            req'[q] = req[q] /\ req[q].sess = z /\ (Active(q)' <=> Active(q))
      BY <1>2, <2>1 DEF Active
    <2>4. ASSUME NEW q \in Requests, req'[q].sess = z, Active(q)' PROVE SizedAt(q)'
      <3>1. req'[q] = req[q] /\ req[q].sess = z /\ Active(q)
        BY <2>3, <2>4
      <3>2. SizedAt(q)
        BY <2>2, <3>1 DEF Sized
      <3> QED
        BY <1>1, <3>1, <3>2 DEF SizedAt
    <2>5. (\A q \in Requests : req'[q].sess = z => ~Active(q)') => Len(bytes[z]) = size[z]
      BY <1>2, <2>1, <2>2, <2>3 DEF Sized, Active
    <2> QED
      BY <1>1, <2>4, <2>5
  <1>11. SessionLifecycle'
    <2>1. \A s \in Sessions : home'[s] # NoValue => s \in named'
      BY <1>1 DEF SessionLifecycle
    <2>2. ASSUME NEW q \in Requests, req'[q].op = "put", req'[q].pc = "201"
          PROVE  home'[req'[q].sess] = NoValue /\ req'[q].sess \notin named' \ litter'
      <3>1. req'[q] = req[q]
        BY <1>2, <2>2
      <3>2. /\ req[q].sess \in Sessions /\ home[req[q].sess] = NoValue
            /\ req[q].sess \notin named \ litter
        BY <2>2, <3>1 DEF SessionLifecycle, RequestsKnow
      <3> QED
        BY <1>1, <3>1, <3>2
    <2> QED
      BY <2>1, <2>2 DEF SessionLifecycle
  <1>12. RecordedIsStored'
    BY <1>1 DEF RecordedIsStored
  <1>13. AtHome'
    <2> SUFFICES ASSUME NEW q \in Requests, Active(q)'
                 PROVE  /\ home'[req[q].sess] \in {req[q].srv, NoValue}
                        /\ home'[req[q].sess] = NoValue => req[q].sess \notin named \ litter
      BY <1>1, <1>6 DEF AtHome
    <2>1. Active(q) /\ req'[q] = req[q] /\ req[q].srv # p
      BY <1>1, <1>6 DEF Active, Working
    <2>2. req[q].sess \in Sessions
      BY <2>1 DEF RequestsKnow, Active, Working
    <2>3. /\ home[req[q].sess] \in {req[q].srv, NoValue}
          /\ home[req[q].sess] = NoValue => req[q].sess \notin named \ litter
      BY <2>1 DEF AtHome
    <2>4. home'[req[q].sess] = home[req[q].sess]
      BY <1>1, <2>1, <2>2, <2>3, UploadAssumption DEF UploadAssumption
    <2> QED
      BY <2>3, <2>4
  <1> QED
    BY <1>5, <1>7, <1>8, <1>9, <1>10, <1>11, <1>12, <1>13

LEMMA UploadStep == UploadInv /\ [UploadNext]_uploadVars => UploadInv'
  <1> SUFFICES ASSUME UploadInv, [UploadNext]_uploadVars PROVE UploadInv'
    OBVIOUS
  <1>1. bindings \subseteq Names \X ContentDigests
    BY DEF UploadInv, UploadTypeOK
  <1>2. CASE UNCHANGED uploadVars
    BY <1>1, <1>2, BindingsKeep DEF uploadVars, fileVars
  <1>3. ASSUME NEW r \in Requests, Arrival(r) PROVE UploadInv'
    BY <1>3, ArrivalStep
  <1>4. ASSUME NEW r \in Requests, HandlerStep(r) PROVE UploadInv'
    BY <1>4, AppendStep, FinalizeStep DEF HandlerStep
  <1>5. ASSUME NEW n \in Names, NEW d \in recorded, Unbind(n, d) PROVE UploadInv'
    BY <1>1, <1>5, BindingsKeep DEF Unbind
  <1>6. ASSUME NEW p \in Servers, Restart(p) PROVE UploadInv'
    BY <1>6, RestartStep
  <1> QED
    BY <1>2, <1>3, <1>4, <1>5, <1>6 DEF UploadNext

-----------------------------------------------------------------------------
(* The theorems. *)

\* The inductive invariant of the uploads: requests that were not together on a
\* session see one another's work whole, whatever their number.
THEOREM UploadInvariance == UploadSpec => []UploadInv
  BY InitUpload, UploadStep, PTL DEF UploadSpec

\* Every session, request and row stays of its type (upload.go:33-107).
THEOREM UploadTypeCorrect == UploadSpec => []UploadTypeOK
  <1>1. UploadInv => UploadTypeOK
    BY DEF UploadInv
  <1> QED
    BY <1>1, UploadInvariance, PTL

\* What finalize records is in the content store, for any number of requests,
\* sessions and servers, as long as the requests of a session came one after the
\* other (upload.go:219-262): the digest that was compared is the one stored.
THEOREM RecordedIsStoredAlways == UploadSpec => []RecordedIsStored
  <1>1. UploadInv => RecordedIsStored
    BY DEF UploadInv
  <1> QED
    BY <1>1, UploadInvariance, PTL

\* The size that GET answers is the length of the file whenever no request works
\* on the session, after complete and broken appends alike (upload.go:95-107).
THEOREM SizeIsFileLengthAlways == UploadSpec => []SizeIsFileLength
  <1>1. ASSUME UploadInv PROVE SizeIsFileLength
    <2> SUFFICES ASSUME NEW s \in Sessions \ crowded,
                        \A r \in Requests : req[r].sess = s => req[r].pc \in Answers
                 PROVE  size[s] = Len(bytes[s])
      BY DEF SizeIsFileLength
    <2>1. \A r \in Requests : req[r].sess = s => ~Active(r) /\ req[r].pc # "lost"
      BY DEF Answers, Active, Working
    <2>2. Sized /\ Intact(s)
      BY <1>1, <2>1 DEF UploadInv, Intact
    <2> QED
      BY <2>1, <2>2 DEF Sized
  <1> QED
    BY <1>1, UploadInvariance, PTL

\* A session in a map has its file, and a completed PUT has left neither, whatever
\* the other requests, restarts and cancellations did (upload.go:57-73, 84-92, 216).
THEOREM SessionLifecycleAlways == UploadSpec => []SessionLifecycle
  <1>1. UploadInv => SessionLifecycle
    BY DEF UploadInv
  <1> QED
    BY <1>1, UploadInvariance, PTL

-----------------------------------------------------------------------------
(* Images. *)

PushPcs == {"idle", "layers", "row", "bind", "tag", "digest", "answer"}

\* Records of a push, of a pull, and the counters.
Pushing ==
  [pc: PushPcs, i: Images \cup {None}, t: Tags \cup {None}, m: Manifests \cup {None},
   there: SUBSET Layers, layer: Layers \cup {None}]

Pulling ==
  [pc: {"idle", "manifest", "noManifest", "layers", "noLayer"}, i: Images \cup {None},
   m: Manifests \cup {None}, got: SUBSET Layers]

Counters == [{"push", "pull", "delete", "collect"} -> Nat]

\* TypeOK, with the image and the manifest of a push or pull that is under way.
Typed ==
  /\ blobs \subseteq Layers \cup Manifests
  /\ kept \subseteq Layers
  /\ bound \subseteq Images \X Layers
  /\ tag \in [Images -> [Tags -> Manifests \cup {None}]]
  /\ digest \subseteq Images \X Manifests
  /\ push \in [Pushers -> Pushing]
  /\ pull \in [Pullers -> Pulling]
  /\ count \in Counters
  /\ cut \subseteq Images \X Manifests
  /\ bare \subseteq Layers

\* A push that is under way has an image and a manifest, a tag before it writes
\* the tag's row, and a layer between storing it and its last row.
PushesKnow ==
  \A c \in Pushers :
    /\ push[c].pc # "idle" => push[c].i \in Images /\ push[c].m \in Manifests
    /\ push[c].pc = "tag" => push[c].t \in Tags
    /\ push[c].pc \in {"row", "bind"} => push[c].layer \in Layers

IInv == Typed /\ PushesKnow

LEMMA TypedIsTypeOK == Typed <=> TypeOK
  BY DEF Typed, TypeOK, Pushing, PushPcs, Pulling, Counters

LEMMA InitTyped == Init => IInv
  <1> SUFFICES ASSUME Init PROVE IInv
    OBVIOUS
  <1>1. NoPush \in Pushing /\ NoPull \in Pulling
    BY DEF NoPush, NoPull, Pushing, PushPcs, Pulling
  <1>2. push \in [Pushers -> Pushing] /\ pull \in [Pullers -> Pulling]
    BY <1>1 DEF Init
  <1>3. Typed
    BY <1>2 DEF Init, Typed, Counters
  <1>4. PushesKnow
    BY DEF Init, PushesKnow, NoPush
  <1> QED
    BY <1>3, <1>4 DEF IInv

LEMMA CountedType ==
  ASSUME count \in Counters, NEW what \in {"push", "pull", "delete", "collect"}, NEW n,
         Counted(what, n)
  PROVE  count' \in Counters
  BY DEF Counted, Counters

\* A push whose place or layers alone change is of its type.
LEMMA PushStepType ==
  ASSUME push \in [Pushers -> Pushing], NEW c \in Pushers,
         NEW pc \in PushPcs, PushGoto(c, pc)
  PROVE  /\ push' \in [Pushers -> Pushing]
         /\ push'[c].layer = push[c].layer /\ push'[c].there = push[c].there
         /\ push'[c].i = push[c].i /\ push'[c].m = push[c].m /\ push'[c].t = push[c].t
         /\ push'[c].pc = pc
         /\ \A k \in Pushers \ {c} : push'[k] = push[k]
  BY DEF PushGoto, Pushing

LEMMA PushLayersType ==
  ASSUME push \in [Pushers -> Pushing], NEW c \in Pushers, NEW l \in Layers,
         push' = [push EXCEPT ![c].there = @ \cup {l}]
  PROVE  /\ push' \in [Pushers -> Pushing]
         /\ push'[c].i = push[c].i /\ push'[c].m = push[c].m /\ push'[c].t = push[c].t
         /\ push'[c].pc = push[c].pc
         /\ push'[c].layer = push[c].layer /\ push'[c].there = push[c].there \cup {l}
         /\ \A k \in Pushers \ {c} : push'[k] = push[k]
  BY DEF Pushing

\* A push that takes up a layer, is done with it, or leaves it.
LEMMA PushLayerType ==
  ASSUME push \in [Pushers -> Pushing], NEW c \in Pushers, NEW l \in Layers,
         push' = [push EXCEPT ![c].pc = "row", ![c].layer = l]
  PROVE  /\ push' \in [Pushers -> Pushing]
         /\ push'[c].i = push[c].i /\ push'[c].m = push[c].m /\ push'[c].t = push[c].t
         /\ push'[c].pc = "row" /\ push'[c].layer = l /\ push'[c].there = push[c].there
         /\ \A k \in Pushers \ {c} : push'[k] = push[k]
  <1>1. push[c] \in Pushing
    OBVIOUS
  <1>2. [push[c] EXCEPT !.pc = "row", !.layer = l] \in Pushing
    BY <1>1 DEF Pushing, PushPcs
  <1>3. push' = [push EXCEPT ![c] = [push[c] EXCEPT !.pc = "row", !.layer = l]]
    OBVIOUS
  <1> QED
    BY <1>1, <1>2, <1>3 DEF Pushing

LEMMA BindLayerType ==
  ASSUME push \in [Pushers -> Pushing], NEW c \in Pushers, push[c].layer \in Layers,
         push' = [push EXCEPT ![c].pc = "layers", ![c].there = @ \cup {push[c].layer},
                              ![c].layer = None]
  PROVE  /\ push' \in [Pushers -> Pushing]
         /\ push'[c].i = push[c].i /\ push'[c].m = push[c].m /\ push'[c].t = push[c].t
         /\ push'[c].pc = "layers" /\ push'[c].there = push[c].there \cup {push[c].layer}
         /\ \A k \in Pushers \ {c} : push'[k] = push[k]
  <1> DEFINE new == [push[c] EXCEPT !.pc = "layers", !.there = @ \cup {push[c].layer},
                                    !.layer = None]
  <1>1. push[c] \in Pushing
    OBVIOUS
  <1>2. new \in Pushing
    BY <1>1 DEF Pushing, PushPcs
  <1>3. push' = [push EXCEPT ![c] = new]
    OBVIOUS
  <1> QED
    BY <1>1, <1>2, <1>3 DEF Pushing

LEMMA LayerFailsType ==
  ASSUME push \in [Pushers -> Pushing], NEW c \in Pushers,
         push' = [push EXCEPT ![c].pc = "layers", ![c].layer = None]
  PROVE  /\ push' \in [Pushers -> Pushing]
         /\ push'[c].i = push[c].i /\ push'[c].m = push[c].m /\ push'[c].t = push[c].t
         /\ push'[c].pc = "layers" /\ push'[c].there = push[c].there
         /\ \A k \in Pushers \ {c} : push'[k] = push[k]
  <1> DEFINE new == [push[c] EXCEPT !.pc = "layers", !.layer = None]
  <1>1. push[c] \in Pushing
    OBVIOUS
  <1>2. new \in Pushing
    BY <1>1 DEF Pushing, PushPcs
  <1>3. push' = [push EXCEPT ![c] = new]
    OBVIOUS
  <1> QED
    BY <1>1, <1>2, <1>3 DEF Pushing

LEMMA PullStepType ==
  ASSUME pull \in [Pullers -> Pulling], NEW c \in Pullers,
         NEW pc \in {"idle", "manifest", "noManifest", "layers", "noLayer"}, PullGoto(c, pc)
  PROVE  pull' \in [Pullers -> Pulling]
  BY DEF PullGoto, Pulling

LEMMA PushPreserves ==
  ASSUME IInv, NEW c \in Pushers, Push(c) PROVE IInv'
  <1> USE DEF IInv
  <1>0. push[c] \in Pushing
    BY DEF Typed
  <1>1. ASSUME NEW i \in Images, NEW t \in Tags \cup {None}, NEW m \in Manifests,
               PushBegin(c, i, t, m)
        PROVE  IInv'
    <2> DEFINE new == [NoPush EXCEPT !.pc = "layers", !.i = i, !.t = t, !.m = m]
    <2>1. new \in Pushing
      BY DEF NoPush, Pushing, PushPcs
    <2>2. new.pc = "layers" /\ new.i = i /\ new.m = m
      BY DEF NoPush
    <2>3. push' = [push EXCEPT ![c] = new]
      BY <1>1 DEF PushBegin
    <2>4. count' \in Counters
      BY <1>1, CountedType DEF PushBegin, Typed
    <2> HIDE DEF new
    <2>5. Typed'
      BY <1>1, <2>1, <2>3, <2>4 DEF PushBegin, Typed
    <2>6. PushesKnow'
      BY <2>2, <2>3 DEF PushesKnow, Typed
    <2> QED
      BY <2>5, <2>6
  <1>2. ASSUME NEW l \in Layers, HeadLayer(c, l) PROVE IInv'
    <2>1. push' = [push EXCEPT ![c].there = @ \cup {l}]
      BY <1>2 DEF HeadLayer
    <2>2. Typed'
      BY <1>2, <2>1, PushLayersType DEF HeadLayer, Typed
    <2>3. PushesKnow'
      BY <2>1, PushLayersType DEF PushesKnow, Typed
    <2> QED
      BY <2>2, <2>3
  <1>3. ASSUME NEW l \in Layers, PushLayer(c, l) PROVE IInv'
    <2>1. push' = [push EXCEPT ![c].pc = "row", ![c].layer = l] /\ push[c].pc = "layers"
      BY <1>3 DEF PushLayer
    <2>2. Typed'
      BY <1>3, <2>1, PushLayerType DEF PushLayer, Typed
    <2>3. PushesKnow'
      BY <2>1, PushLayerType DEF PushesKnow, Typed
    <2> QED
      BY <2>2, <2>3
  <1>3a. CASE KeepLayer(c)
    <2>1. PushGoto(c, "bind") /\ "bind" \in PushPcs /\ push[c].pc = "row"
      BY <1>3a DEF KeepLayer, PushPcs
    <2>2. push[c].layer \in Layers
      BY <2>1 DEF PushesKnow
    <2>3. Typed'
      BY <1>3a, <2>1, <2>2, PushStepType DEF KeepLayer, Typed
    <2>4. PushesKnow'
      BY <2>1, <2>2, PushStepType DEF PushesKnow, Typed
    <2> QED
      BY <2>3, <2>4
  <1>3b. CASE BindLayer(c)
    <2>1. /\ push' = [push EXCEPT ![c].pc = "layers", ![c].there = @ \cup {push[c].layer},
                                  ![c].layer = None]
          /\ push[c].pc = "bind"
      BY <1>3b DEF BindLayer
    <2>2. push[c].layer \in Layers /\ <<push[c].i, push[c].layer>> \in Images \X Layers
      BY <2>1 DEF PushesKnow
    <2>3. Typed'
      BY <1>3b, <2>1, <2>2, BindLayerType DEF BindLayer, Typed
    <2>4. PushesKnow'
      BY <2>1, <2>2, BindLayerType DEF PushesKnow, Typed
    <2> QED
      BY <2>3, <2>4
  <1>3c. CASE LayerFails(c)
    <2>1. /\ push' = [push EXCEPT ![c].pc = "layers", ![c].layer = None]
          /\ push[c].pc \in {"row", "bind"}
      BY <1>3c DEF LayerFails
    <2>2. Typed'
      BY <1>3c, <2>1, LayerFailsType DEF LayerFails, Typed
    <2>3. PushesKnow'
      BY <2>1, LayerFailsType DEF PushesKnow, Typed
    <2> QED
      BY <2>2, <2>3
  <1>4. CASE StoreManifest(c)
    <2> DEFINE pc == IF push[c].t = None THEN "digest" ELSE "tag"
    <2>1. PushGoto(c, pc) /\ pc \in PushPcs /\ pc \notin {"row", "bind"}
      BY <1>4 DEF StoreManifest, PushPcs
    <2>2. push[c].m \in Manifests /\ push[c].i \in Images
      BY <1>4 DEF StoreManifest, PushesKnow
    <2>3. pc = "tag" => push[c].t \in Tags
      BY <1>0 DEF Pushing
    <2> HIDE DEF pc
    <2>4. Typed'
      BY <1>4, <2>1, <2>2, PushStepType DEF StoreManifest, Typed
    <2>5. PushesKnow'
      BY <2>1, <2>2, <2>3, PushStepType DEF PushesKnow, Typed
    <2> QED
      BY <2>4, <2>5
  <1>5. CASE BindTag(c)
    <2>1. PushGoto(c, "digest") /\ "digest" \in PushPcs
      BY <1>5 DEF BindTag, PushPcs
    <2>2. push[c].m \in Manifests /\ push[c].i \in Images /\ push[c].t \in Tags
      BY <1>5 DEF BindTag, PushesKnow
    <2>3. tag' \in [Images -> [Tags -> Manifests \cup {None}]]
      BY <1>5, <2>2 DEF BindTag, Typed
    <2>4. Typed'
      BY <1>5, <2>1, <2>3, PushStepType DEF BindTag, Typed
    <2>5. PushesKnow'
      BY <2>1, <2>2, PushStepType DEF PushesKnow, Typed
    <2> QED
      BY <2>4, <2>5
  <1>6. CASE BindDigest(c)
    <2>1. PushGoto(c, "answer") /\ "answer" \in PushPcs
      BY <1>6 DEF BindDigest, PushPcs
    <2>2. push[c].m \in Manifests /\ push[c].i \in Images
      BY <1>6 DEF BindDigest, PushesKnow
    <2>3. Typed'
      BY <1>6, <2>1, <2>2, PushStepType DEF BindDigest, Typed
    <2>4. PushesKnow'
      BY <2>1, <2>2, PushStepType DEF PushesKnow, Typed
    <2> QED
      BY <2>3, <2>4
  <1>7. ASSUME push' = [push EXCEPT ![c] = NoPush], cut' \subseteq Images \X Manifests,
               UNCHANGED <<blobs, kept, bound, tag, digest, pull, count, bare>>
        PROVE  IInv'
    <2>1. NoPush \in Pushing /\ NoPush.pc = "idle"
      BY DEF NoPush, Pushing, PushPcs
    <2>2. Typed'
      BY <1>7, <2>1 DEF Typed
    <2>3. PushesKnow'
      BY <1>7, <2>1 DEF PushesKnow, Typed
    <2> QED
      BY <2>2, <2>3
  <1>8. CASE PushEnd(c)
    BY <1>7, <1>8 DEF PushEnd, Typed
  <1>9. CASE PushFails(c)
    <2>1. push[c].m \in Manifests /\ push[c].i \in Images
      BY <1>9 DEF PushFails, PushesKnow
    <2>2. cut' \subseteq Images \X Manifests
      BY <1>9, <2>1 DEF PushFails, Typed
    <2> QED
      BY <1>7, <1>9, <2>2 DEF PushFails
  <1> QED
    BY <1>1, <1>2, <1>3, <1>3a, <1>3b, <1>3c, <1>4, <1>5, <1>6, <1>8, <1>9 DEF Push

LEMMA PullPreserves ==
  ASSUME IInv, NEW c \in Pullers, Pull(c) PROVE IInv'
  <1> USE DEF IInv
  <1>1. ASSUME pull' \in [Pullers -> Pulling], count' \in Counters,
               UNCHANGED <<blobs, kept, bound, tag, digest, push, cut, bare>>
        PROVE  IInv'
    BY <1>1 DEF Typed, PushesKnow
  <1>2. ASSUME NEW i \in Images, NEW t \in Tags, PullTag(c, i, t) PROVE IInv'
    <2> DEFINE new == [pc |-> "manifest", i |-> i, m |-> tag[i][t], got |-> {}]
    <2>1. new \in Pulling
      BY DEF Pulling, Typed
    <2>2. pull' = [pull EXCEPT ![c] = new]
      BY <1>2 DEF PullTag
    <2> HIDE DEF new
    <2>3. count' \in Counters
      BY <1>2, CountedType DEF PullTag, Typed
    <2> QED
      BY <1>1, <1>2, <2>1, <2>2, <2>3 DEF PullTag, Typed
  <1>3. CASE PullManifest(c)
    <2>1. PullGoto(c, "layers") \/ PullGoto(c, "noManifest")
      BY <1>3 DEF PullManifest
    <2> QED
      BY <1>1, <1>3, <2>1, PullStepType DEF PullManifest, Typed
  <1>4. ASSUME NEW l \in Layers, PullLayer(c, l) PROVE IInv'
    <2>1. pull' = [pull EXCEPT ![c].got = @ \cup {l}] \/ PullGoto(c, "noLayer")
      BY <1>4 DEF PullLayer
    <2>2. pull' \in [Pullers -> Pulling]
      BY <2>1, PullStepType DEF Pulling, Typed
    <2> QED
      BY <1>1, <1>4, <2>2 DEF PullLayer, Typed
  <1>5. CASE PullEnd(c)
    <2>1. NoPull \in Pulling
      BY DEF NoPull, Pulling
    <2> QED
      BY <1>1, <1>5, <2>1 DEF PullEnd, Typed
  <1> QED
    BY <1>2, <1>3, <1>4, <1>5 DEF Pull

LEMMA DeletePreserves == ASSUME IInv, Delete PROVE IInv'
  <1> USE DEF IInv
  <1>1. ASSUME NEW i \in Images, NEW l \in Layers, DeleteLayer(i, l) PROVE IInv'
    BY <1>1, CountedType DEF DeleteLayer, Typed, PushesKnow
  <1>2. ASSUME NEW i \in Images, NEW t \in Tags, DeleteTag(i, t) PROVE IInv'
    BY <1>2, CountedType DEF DeleteTag, Typed, PushesKnow
  <1>3. ASSUME NEW i \in Images, NEW m \in Manifests, DeleteDigest(i, m) PROVE IInv'
    BY <1>3, CountedType DEF DeleteDigest, Typed, PushesKnow
  <1> QED
    BY <1>1, <1>2, <1>3 DEF Delete

LEMMA StepPreserves == IInv /\ [Next]_vars => IInv'
  <1> SUFFICES ASSUME IInv, [Next]_vars PROVE IInv'
    OBVIOUS
  <1>1. CASE Collect
    BY <1>1, CountedType DEF Collect, IInv, Typed, PushesKnow
  <1>2. CASE UNCHANGED vars
    BY <1>2 DEF vars, IInv, Typed, PushesKnow
  <1> QED
    BY <1>1, <1>2, PushPreserves, PullPreserves, DeletePreserves DEF Next

\* Every variable keeps its type, for any images, clients and bounds
\* (manifest.go:95-214, blob.go:30-100).
THEOREM TypeCorrect == Spec => []TypeOK
  <1>1. IInv => TypeOK
    BY TypedIsTypeOK DEF IInv
  <1> QED
    BY <1>1, InitTyped, StepPreserves, PTL DEF Spec

-----------------------------------------------------------------------------
(* What is named is whole. *)

\* What a row names, which is never deleted of a layer, is in the store.
KeptStored == kept \subseteq blobs

\* Layers a client may take to be there: by their row, or for what HEAD told it.
Assured == kept \cup bare

\* A push has sent or asked for its layers, and once the manifest is stored, all
\* that it lists.
PushesWhole ==
  \A c \in Pushers :
    /\ push[c].there \subseteq Assured
    /\ push[c].pc \in {"row", "bind"} => push[c].layer \in blobs
    /\ push[c].pc = "bind" => push[c].layer \in kept
    /\ push[c].pc \in {"tag", "digest"} =>
         push[c].m \in blobs /\ Needs[push[c].m] \subseteq Assured

\* NamedIsWhole of tags and of digest rows, spelt out.
TagsWhole ==
  \A i \in Images, t \in Tags :
    tag[i][t] # None => tag[i][t] \in blobs /\ Needs[tag[i][t]] \subseteq Assured

DigestsWhole == \A d \in digest : d[2] \in blobs /\ Needs[d[2]] \subseteq Assured

Whole == KeptStored /\ PushesWhole /\ TagsWhole /\ DigestsWhole

LEMMA WholeIsNamed == Whole => NamedIsWhole
  BY DEF Whole, KeptStored, Assured, TagsWhole, DigestsWhole, NamedIsWhole, Tagged

\* Steps that delete no blob and keep what is assured, and that leave tags,
\* digests and pushes as they are, or delete of them.
LEMMA NothingNamed ==
  ASSUME Whole, IInv,
         blobs \subseteq blobs', kept' \subseteq blobs', kept \subseteq kept',
         Assured \subseteq Assured', UNCHANGED push,
         digest' \subseteq digest,
         \A i \in Images, t \in Tags : tag'[i][t] = tag[i][t] \/ tag'[i][t] = None
  PROVE  Whole'
  BY DEF Whole, KeptStored, PushesWhole, TagsWhole, DigestsWhole

\* A step of the push c that deletes no blob and keeps what is assured.
LEMMA OnePush ==
  ASSUME IInv, Whole, NEW c \in Pushers,
         blobs \subseteq blobs', kept' \subseteq blobs', kept \subseteq kept',
         Assured \subseteq Assured', \A k \in Pushers \ {c} : push'[k] = push[k],
         push'[c].there \subseteq Assured',
         push'[c].pc \in {"row", "bind"} => push'[c].layer \in blobs',
         push'[c].pc = "bind" => push'[c].layer \in kept',
         push'[c].pc \in {"tag", "digest"} =>
           push'[c].m \in blobs' /\ Needs[push'[c].m] \subseteq Assured'
  PROVE  KeptStored' /\ PushesWhole'
  BY DEF Whole, KeptStored, PushesWhole

\* And that names nothing.
LEMMA OnlyPush ==
  ASSUME IInv, Whole, blobs \subseteq blobs', Assured \subseteq Assured', UNCHANGED <<tag, digest>>
  PROVE  TagsWhole' /\ DigestsWhole'
  BY DEF Whole, TagsWhole, DigestsWhole

LEMMA PushKeepsWhole ==
  ASSUME IInv, Whole, NEW c \in Pushers, Push(c) PROVE Whole'
  <1> USE DEF Whole
  <1>0. /\ push[c] \in Pushing /\ push \in [Pushers -> Pushing]
        /\ kept \subseteq blobs /\ push[c].there \subseteq Assured
    BY DEF IInv, Typed, KeptStored, PushesWhole
  <1>1. ASSUME NEW i \in Images, NEW t \in Tags \cup {None}, NEW m \in Manifests,
               PushBegin(c, i, t, m)
        PROVE  Whole'
    <2> DEFINE new == [NoPush EXCEPT !.pc = "layers", !.i = i, !.t = t, !.m = m]
    <2>1. new.pc = "layers" /\ new.there = {}
      BY DEF NoPush
    <2>2. push' = [push EXCEPT ![c] = new] /\ UNCHANGED <<blobs, kept, tag, digest, bare>>
      BY <1>1 DEF PushBegin
    <2> HIDE DEF new
    <2>3. /\ push'[c].pc = "layers" /\ push'[c].there = {}
          /\ \A k \in Pushers \ {c} : push'[k] = push[k]
      BY <1>0, <2>1, <2>2
    <2>4. Assured' = Assured
      BY <2>2 DEF Assured
    <2> QED
      BY <1>0, <2>2, <2>3, <2>4, OnePush, OnlyPush
  <1>2. ASSUME NEW l \in Layers, HeadLayer(c, l) PROVE Whole'
    <2>1. push' = [push EXCEPT ![c].there = @ \cup {l}] /\ push[c].pc = "layers"
          /\ bare' = bare \cup ({l} \ kept) /\ UNCHANGED <<blobs, kept, tag, digest>>
      BY <1>2 DEF HeadLayer
    <2>2. Assured' = Assured \cup {l}
      BY <2>1 DEF Assured
    <2> QED
      BY <1>0, <2>1, <2>2, PushLayersType, OnePush, OnlyPush
  <1>3. ASSUME NEW l \in Layers, PushLayer(c, l) PROVE Whole'
    <2>1. /\ push' = [push EXCEPT ![c].pc = "row", ![c].layer = l]
          /\ blobs' = blobs \cup {l} /\ UNCHANGED <<kept, bare, tag, digest>>
      BY <1>3 DEF PushLayer
    <2>2. Assured' = Assured
      BY <2>1 DEF Assured
    <2>3. /\ push'[c].pc = "row" /\ push'[c].layer = l /\ push'[c].there = push[c].there
          /\ \A k \in Pushers \ {c} : push'[k] = push[k]
      BY <1>0, <2>1, PushLayerType
    <2> QED
      BY <1>0, <2>1, <2>2, <2>3, OnePush, OnlyPush
  <1>4. CASE KeepLayer(c)
    <2>1. /\ PushGoto(c, "bind") /\ "bind" \in PushPcs /\ push[c].pc = "row"
          /\ kept' = kept \cup {push[c].layer} /\ bare' = bare \ {push[c].layer}
          /\ UNCHANGED <<blobs, tag, digest>>
      BY <1>4 DEF KeepLayer, PushPcs
    <2>2. push[c].layer \in blobs
      BY <2>1 DEF PushesWhole
    <2>3. Assured \subseteq Assured'
      BY <2>1 DEF Assured
    <2> QED
      BY <1>0, <2>1, <2>2, <2>3, PushStepType, OnePush, OnlyPush
  <1>5. CASE BindLayer(c)
    <2>1. push' = [push EXCEPT ![c].pc = "layers", ![c].there = @ \cup {push[c].layer},
                               ![c].layer = None]
      BY <1>5 DEF BindLayer
    <2>0. push[c].pc = "bind" /\ UNCHANGED <<blobs, kept, bare, tag, digest>>
      BY <1>5 DEF BindLayer
    <2>2. push[c].layer \in Layers /\ push[c].layer \in kept
      BY <2>0 DEF PushesWhole, IInv, PushesKnow
    <2>3. Assured' = Assured /\ push[c].layer \in Assured
      BY <2>0, <2>2 DEF Assured
    <2>4. /\ push'[c].pc = "layers" /\ push'[c].there = push[c].there \cup {push[c].layer}
          /\ \A k \in Pushers \ {c} : push'[k] = push[k]
      BY <1>0, <2>1, <2>2, BindLayerType
    <2>5. push'[c].there \subseteq Assured'
      BY <1>0, <2>3, <2>4
    <2> QED
      BY <1>0, <2>0, <2>3, <2>4, <2>5, OnePush, OnlyPush
  <1>6. CASE LayerFails(c)
    <2>1. /\ push' = [push EXCEPT ![c].pc = "layers", ![c].layer = None]
          /\ UNCHANGED <<blobs, kept, bare, tag, digest>>
      BY <1>6 DEF LayerFails
    <2>2. Assured' = Assured
      BY <2>1 DEF Assured
    <2> QED
      BY <1>0, <2>1, <2>2, LayerFailsType, OnePush, OnlyPush
  <1>7. CASE StoreManifest(c)
    <2> DEFINE pc == IF push[c].t = None THEN "digest" ELSE "tag"
    <2>1. PushGoto(c, pc) /\ pc \in PushPcs /\ pc \notin {"row", "bind"}
      BY <1>7 DEF StoreManifest, PushPcs
    <2>2. /\ push[c].there = Needs[push[c].m] /\ blobs' = blobs \cup {push[c].m}
          /\ UNCHANGED <<kept, bare, tag, digest>>
      BY <1>7 DEF StoreManifest
    <2> HIDE DEF pc
    <2>3. Assured' = Assured
      BY <2>2 DEF Assured
    <2> QED
      BY <1>0, <2>1, <2>2, <2>3, PushStepType, OnePush, OnlyPush
  <1>8. CASE BindTag(c)
    <2>1. /\ PushGoto(c, "digest") /\ "digest" \in PushPcs /\ push[c].pc = "tag"
          /\ tag' = [tag EXCEPT ![push[c].i][push[c].t] = push[c].m]
          /\ UNCHANGED <<blobs, kept, bare, digest>>
      BY <1>8 DEF BindTag, PushPcs
    <2>2. push[c].m \in blobs /\ Needs[push[c].m] \subseteq Assured
      BY <2>1 DEF PushesWhole
    <2>3. Assured' = Assured
      BY <2>1 DEF Assured
    <2>4. KeptStored' /\ PushesWhole'
      BY <1>0, <2>1, <2>2, <2>3, PushStepType, OnePush
    <2>5. tag \in [Images -> [Tags -> Manifests \cup {None}]]
      BY DEF IInv, Typed
    <2>6. TagsWhole'
      BY <2>1, <2>2, <2>3, <2>5 DEF TagsWhole
    <2> QED
      BY <2>1, <2>3, <2>4, <2>6 DEF DigestsWhole
  <1>9. CASE BindDigest(c)
    <2>1. /\ PushGoto(c, "answer") /\ "answer" \in PushPcs /\ push[c].pc = "digest"
          /\ digest' = digest \cup {<<push[c].i, push[c].m>>}
          /\ UNCHANGED <<blobs, kept, bare, tag>>
      BY <1>9 DEF BindDigest, PushPcs
    <2>2. push[c].m \in blobs /\ Needs[push[c].m] \subseteq Assured
      BY <2>1 DEF PushesWhole
    <2>3. Assured' = Assured
      BY <2>1 DEF Assured
    <2>4. KeptStored' /\ PushesWhole'
      BY <1>0, <2>1, <2>3, PushStepType, OnePush
    <2> QED
      BY <2>1, <2>2, <2>3, <2>4 DEF TagsWhole, DigestsWhole
  <1>10. CASE PushEnd(c) \/ PushFails(c)
    <2>1. push' = [push EXCEPT ![c] = NoPush]
          /\ UNCHANGED <<blobs, kept, bare, tag, digest>>
      BY <1>10 DEF PushEnd, PushFails
    <2>2. /\ push'[c].pc = "idle" /\ push'[c].there = {}
          /\ \A k \in Pushers \ {c} : push'[k] = push[k]
      BY <1>0, <2>1 DEF NoPush
    <2>3. Assured' = Assured
      BY <2>1 DEF Assured
    <2> QED
      BY <1>0, <2>1, <2>2, <2>3, OnePush, OnlyPush
  <1> QED
    BY <1>1, <1>2, <1>3, <1>4, <1>5, <1>6, <1>7, <1>8, <1>9, <1>10 DEF Push

LEMMA CollectKeepsWhole == ASSUME IInv, Whole, Collect PROVE Whole'
  <1>1. /\ blobs' = blobs \cap Referenced
        /\ UNCHANGED <<kept, bare, tag, digest, push>>
        /\ \A c \in Pushers : push[c] = NoPush
    BY DEF Collect
  <1>2. kept \subseteq Referenced /\ Assured' = Assured
    BY <1>1 DEF Referenced, Assured
  <1>3. KeptStored'
    BY <1>1, <1>2 DEF Whole, KeptStored
  <1>4. PushesWhole'
    BY <1>1 DEF PushesWhole, NoPush
  <1>5. ASSUME NEW i \in Images, NEW t \in Tags, tag[i][t] # None
        PROVE  tag[i][t] \in blobs' /\ Needs[tag[i][t]] \subseteq Assured'
    <2>1. tag[i][t] \in Referenced
      BY <1>5 DEF Referenced, Tagged
    <2> QED
      BY <1>1, <1>2, <1>5, <2>1 DEF Whole, TagsWhole
  <1>6. ASSUME NEW d \in digest
        PROVE  d[2] \in blobs' /\ Needs[d[2]] \subseteq Assured'
    <2>1. d[2] \in Referenced
      BY DEF Referenced
    <2> QED
      BY <1>1, <1>2, <2>1 DEF Whole, DigestsWhole
  <1> QED
    BY <1>1, <1>3, <1>4, <1>5, <1>6 DEF Whole, TagsWhole, DigestsWhole

LEMMA StepKeepsWhole == IInv /\ Whole /\ [Next]_vars => Whole'
  <1> SUFFICES ASSUME IInv, Whole, [Next]_vars PROVE Whole'
    OBVIOUS
  <1>0. ASSUME UNCHANGED <<blobs, kept, bare>>
        PROVE  /\ blobs \subseteq blobs' /\ kept' \subseteq blobs' /\ kept \subseteq kept'
               /\ Assured \subseteq Assured'
    BY <1>0 DEF Whole, KeptStored, Assured
  <1>1. ASSUME NEW c \in Pullers, Pull(c) PROVE Whole'
    <2>1. UNCHANGED <<blobs, kept, bare, tag, digest, push>>
      BY <1>1 DEF Pull, PullTag, PullManifest, PullLayer, PullEnd
    <2> QED
      BY <1>0, <2>1, NothingNamed
  <1>2. CASE Delete
    <2>1. /\ UNCHANGED <<blobs, kept, bare, push>>
          /\ digest' \subseteq digest
          /\ \A i \in Images, t \in Tags : tag'[i][t] = tag[i][t] \/ tag'[i][t] = None
      BY <1>2 DEF Delete, DeleteLayer, DeleteTag, DeleteDigest, IInv, Typed
    <2> QED
      BY <1>0, <2>1, NothingNamed
  <1>3. CASE UNCHANGED vars
    BY <1>0, <1>3, NothingNamed DEF vars
  <1> QED
    BY <1>1, <1>2, <1>3, PushKeepsWhole, CollectKeepsWhole DEF Next

LEMMA InitWhole == Init => Whole
  BY DEF Init, Whole, KeptStored, Assured, PushesWhole, TagsWhole, DigestsWhole, NoPush

\* What a tag or a digest row names can be pulled, for any images, shared layers
\* and clients, whatever is deleted and collected, but for a layer that a client
\* was told not to send while no row named it, and that no upload has brought
\* since (manifest.go:95-138, upload.go:246-262, blob.go:30-48, gc.go:54-107).
THEOREM NamedIsWholeAlways == Spec => []NamedIsWhole
  BY InitTyped, StepPreserves, InitWhole, StepKeepsWhole, WholeIsNamed, PTL DEF Spec

-----------------------------------------------------------------------------
(* A pull by the digest that a tag resolved to. *)

\* <<i, m>>: manifest m of image i has its digest row, or lost it, or a push is
\* about to write it.
Followed ==
  digest \cup cut \cup
    {<<push[k].i, push[k].m>> : k \in {p \in Pushers : push[p].pc = "digest"}}

Follows ==
  /\ \A i \in Images, t \in Tags : tag[i][t] # None => <<i, tag[i][t]>> \in Followed
  /\ \A c \in Pullers : pull[c].pc = "manifest" => <<pull[c].i, pull[c].m>> \in Followed

LEMMA InitFollows == Init => Follows
  BY DEF Init, Follows, NoPull

\* A step keeps what is followed: a push that stops being about to write a row
\* has written it, or the row is cut.
LEMMA FollowedStays ==
  ASSUME IInv, [Next]_vars PROVE Followed \subseteq Followed'
  <1>1. digest \cup cut \subseteq digest' \cup cut'
    BY DEF Next, vars, Push, Pull, Delete, Collect, PushBegin, HeadLayer, PushLayer, KeepLayer,
           BindLayer, LayerFails, StoreManifest, BindTag, BindDigest, PushEnd, PushFails, PullTag, PullManifest, PullLayer, PullEnd,
           DeleteLayer, DeleteTag, DeleteDigest
  <1>2. ASSUME NEW k \in Pushers, push[k].pc = "digest"
        PROVE  <<push[k].i, push[k].m>> \in Followed'
    <2>1. CASE push'[k] = push[k]
      BY <1>2, <2>1 DEF Followed
    <2>2. CASE push'[k] # push[k]
      <3>1. PICK c \in Pushers : Push(c)
        BY <2>2 DEF Next, vars, Pull, Delete, Collect, PullTag, PullManifest, PullLayer, PullEnd,
                    DeleteLayer, DeleteTag, DeleteDigest
      <3>2. c = k
        BY <2>2, <3>1 DEF Push, PushBegin, HeadLayer, PushLayer, KeepLayer, BindLayer,
                          LayerFails, StoreManifest, BindTag, BindDigest, PushEnd, PushFails,
                          PushGoto, IInv, Typed
      <3>3. \A i \in Images, t \in Tags \cup {None}, m \in Manifests : ~PushBegin(k, i, t, m)
        BY <1>2 DEF PushBegin, NoPush
      <3>4. \A l \in Layers : ~HeadLayer(k, l) /\ ~PushLayer(k, l)
        BY <1>2 DEF HeadLayer, PushLayer
      <3>5. ~KeepLayer(k) /\ ~BindLayer(k) /\ ~LayerFails(k)
        BY <1>2 DEF KeepLayer, BindLayer, LayerFails
      <3>6. ~StoreManifest(k) /\ ~BindTag(k) /\ ~PushEnd(k)
        BY <1>2 DEF StoreManifest, BindTag, PushEnd
      <3>7. BindDigest(k) \/ PushFails(k)
        BY <3>1, <3>2, <3>3, <3>4, <3>5, <3>6 DEF Push
      <3> QED
        BY <1>2, <3>7 DEF BindDigest, PushFails, Followed
    <2> QED
      BY <2>1, <2>2
  <1> QED
    BY <1>1, <1>2 DEF Followed

LEMMA StepFollows == IInv /\ Follows /\ [Next]_vars => Follows'
  <1> SUFFICES ASSUME IInv, Follows, [Next]_vars PROVE Follows'
    OBVIOUS
  <1>1. ASSUME NEW i \in Images, NEW t \in Tags, tag'[i][t] # None
        PROVE  <<i, tag'[i][t]>> \in Followed'
    <2>1. CASE tag'[i][t] = tag[i][t]
      <3>1. <<i, tag[i][t]>> \in Followed
        BY <1>1, <2>1 DEF Follows
      <3>2. <<i, tag[i][t]>> \in Followed'
        BY <3>1, FollowedStays
      <3> QED
        BY <2>1, <3>2
    <2>2. CASE tag'[i][t] # tag[i][t]
      <3>1. PICK c \in Pushers : BindTag(c)
        BY <1>1, <2>2 DEF IInv, Typed, Next, vars, Push, Pull, Delete, Collect, PushBegin,
             HeadLayer, PushLayer, KeepLayer, BindLayer, LayerFails, StoreManifest, BindDigest,
             PushEnd, PushFails, PullTag, PullManifest, PullLayer, PullEnd, DeleteLayer, DeleteTag, DeleteDigest
      <3>2. tag'[i][t] = push[c].m /\ i = push[c].i
        BY <2>2, <3>1 DEF BindTag, IInv, Typed
      <3>3. push'[c].pc = "digest" /\ push'[c].i = i /\ push'[c].m = push[c].m
        BY <3>1, <3>2, PushStepType DEF BindTag, PushPcs, IInv, Typed
      <3> QED
        BY <3>1, <3>2, <3>3 DEF Followed
    <2> QED
      BY <2>1, <2>2
  <1>2. ASSUME NEW c \in Pullers, pull'[c].pc = "manifest"
        PROVE  <<pull'[c].i, pull'[c].m>> \in Followed'
    <2>1. CASE pull'[c] = pull[c]
      <3>1. <<pull[c].i, pull[c].m>> \in Followed
        BY <1>2, <2>1 DEF Follows
      <3>2. <<pull[c].i, pull[c].m>> \in Followed'
        BY <3>1, FollowedStays
      <3> QED
        BY <2>1, <3>2
    <2>2. CASE pull'[c] # pull[c]
      <3>1. PICK k \in Pullers : Pull(k)
        BY <2>2 DEF Next, vars, Push, Delete, Collect, PushBegin, HeadLayer, PushLayer,
             KeepLayer, BindLayer, LayerFails, StoreManifest, BindTag, BindDigest, PushEnd, PushFails, DeleteLayer, DeleteTag,
             DeleteDigest
      <3>2. k = c
        BY <2>2, <3>1 DEF Pull, PullTag, PullManifest, PullLayer, PullEnd, PullGoto, IInv, Typed
      <3>3. ASSUME NEW pc, PullGoto(c, pc) PROVE pull'[c].pc = pc
        BY <3>3 DEF PullGoto, IInv, Typed, Pulling
      <3>4. ~PullManifest(c)
        BY <1>2, <3>3 DEF PullManifest
      <3>5. ~PullEnd(c)
        BY <1>2 DEF PullEnd, NoPull, IInv, Typed
      <3>6. ASSUME NEW l \in Layers, PullLayer(c, l) PROVE FALSE
        <4>1. pull'[c].pc \in {"layers", "noLayer"}
          BY <3>3, <3>6 DEF PullLayer, IInv, Typed, Pulling
        <4> QED
          BY <1>2, <4>1
      <3>7. PICK i \in Images, t \in Tags : PullTag(c, i, t)
        BY <3>1, <3>2, <3>4, <3>5, <3>6 DEF Pull
      <3>8. pull'[c].i = i /\ pull'[c].m = tag[i][t] /\ tag[i][t] # None
        BY <3>7 DEF PullTag, IInv, Typed
      <3>9. <<i, tag[i][t]>> \in Followed
        BY <3>8 DEF Follows
      <3>10. <<i, tag[i][t]>> \in Followed'
        BY <3>9, FollowedStays
      <3> QED
        BY <3>8, <3>10
    <2> QED
      BY <2>1, <2>2
  <1> QED
    BY <1>1, <1>2 DEF Follows

\* "a digest-referenced pull works even when the manifest was pushed by tag
\* only" (manifest.go:128-129), for any images and clients: who has resolved a
\* tag is answered the manifest, unless its row was deleted, or the push that
\* moved the tag is between its two rows or failed there.
THEOREM DigestPullWorksAlways == Spec => DigestPullWorks
  <1>1. ASSUME IInv, Whole, Follows, NEW c \in Pullers, PullManifest(c),
               pull'[c].pc = "noManifest"
        PROVE  \/ <<pull[c].i, pull[c].m>> \in cut
               \/ \E k \in Pushers : /\ push[k].pc = "digest"
                                     /\ push[k].i = pull[c].i
                                     /\ push[k].m = pull[c].m
    <2>1. <<pull[c].i, pull[c].m>> \in Followed
      BY <1>1 DEF PullManifest, Follows
    <2>2. ~(<<pull[c].i, pull[c].m>> \in digest /\ pull[c].m \in blobs)
      BY <1>1 DEF PullManifest, PullGoto, IInv, Typed, Pulling
    <2>3. <<pull[c].i, pull[c].m>> \in digest => pull[c].m \in blobs
      BY <1>1 DEF Whole, DigestsWhole
    <2> QED
      BY <2>1, <2>2, <2>3 DEF Followed
  <1>2. IInv /\ Whole /\ Follows =>
          [\A c \in Pullers :
             PullManifest(c) /\ pull'[c].pc = "noManifest" =>
               \/ <<pull[c].i, pull[c].m>> \in cut
               \/ \E k \in Pushers : /\ push[k].pc = "digest"
                                     /\ push[k].i = pull[c].i
                                     /\ push[k].m = pull[c].m]_vars
    BY <1>1
  <1> QED
    BY <1>2, InitTyped, StepPreserves, InitWhole, StepKeepsWhole, InitFollows, StepFollows,
       PTL DEF Spec, DigestPullWorks

-----------------------------------------------------------------------------
(* Listings. *)

\* Elements of a path.
Elements == STRING \cup Markers

Refs == Tags \cup Digests

LEMMA FitsItself == \A x : Fits(x, x)
  BY DEF Fits

LEMMA FitsSeparators == ~Fits("refs/", "blobs/")
  BY DEF Fits

LEMMA LikeByElement ==
  ASSUME NEW p, NEW path, Len(p) <= Len(path), \A k \in DOMAIN p : Fits(p[k], path[k])
  PROVE  Like(p, path)
  BY DEF Like

LEMMA NamesAreSequences ==
  ASSUME NEW i \in Images
  PROVE  /\ i \in Seq(Elements)
         /\ \A k \in 1..Len(i) : i[k] # "/manifests/"
  <1>1. i \in Seq(STRING \ {"/manifests/"})
    BY NamesAssumption DEF NamesAssumption
  <1>2. \A k \in 1..Len(i) : i[k] \in STRING \ {"/manifests/"}
    BY <1>1
  <1>3. i \in Seq(Elements)
    BY <1>1 DEF Elements
  <1> QED
    BY <1>2, <1>3

LEMMA PrefixShape ==
  ASSUME NEW i \in Images
  PROVE  /\ manifestPrefix(i) \in Seq(Elements)
         /\ Len(manifestPrefix(i)) = Len(i) + 2
         /\ manifestPrefix(i)[1] = "refs/"
         /\ \A k \in 1..Len(i) : manifestPrefix(i)[k + 1] = i[k]
         /\ manifestPrefix(i)[Len(i) + 2] = "/manifests/"
  <1>1. i \in Seq(Elements) /\ Len(i) \in Nat
    BY NamesAreSequences
  <1>2. <<"refs/">> \in Seq(Elements) /\ <<"/manifests/">> \in Seq(Elements)
    BY DEF Elements, Markers, Separators
  <1> DEFINE p == <<"refs/">> \o i
  <1>3. /\ p \in Seq(Elements) /\ Len(p) = Len(i) + 1
        /\ p[1] = "refs/" /\ \A k \in 1..Len(i) : p[k + 1] = i[k]
    BY <1>1, <1>2
  <1>4. manifestPrefix(i) = p \o <<"/manifests/">>
    BY DEF manifestPrefix
  <1> HIDE DEF p
  <1> QED
    BY <1>1, <1>2, <1>3, <1>4

LEMMA ManifestPathShape ==
  ASSUME NEW i \in Images, NEW ref \in Refs
  PROVE  /\ manifestPath(i, ref) \in Seq(Elements)
         /\ Len(manifestPath(i, ref)) = Len(i) + 3
         /\ \A k \in 1..(Len(i) + 2) : manifestPath(i, ref)[k] = manifestPrefix(i)[k]
         /\ manifestPath(i, ref)[Len(i) + 3] = ref
  <1>1. ref \in Elements
    BY DEF Elements, Markers, Refs
  <1>2. Len(i) \in Nat
    BY NamesAreSequences
  <1> QED
    BY <1>1, <1>2, PrefixShape DEF manifestPath

LEMMA BlobPathShape ==
  ASSUME NEW i \in Images, NEW d \in Digests
  PROVE  /\ blobPath(i, d) \in Seq(Elements)
         /\ Len(blobPath(i, d)) = Len(i) + 3
         /\ blobPath(i, d)[1] = "refs/"
         /\ \A k \in 1..Len(i) : blobPath(i, d)[k + 1] = i[k]
         /\ blobPath(i, d)[Len(i) + 2] = "/blobs/"
         /\ blobPath(i, d)[Len(i) + 3] = d
  <1>1. i \in Seq(Elements) /\ Len(i) \in Nat
    BY NamesAreSequences
  <1>2. <<"refs/">> \in Seq(Elements) /\ <<"/blobs/", d>> \in Seq(Elements)
    BY DEF Elements, Markers, Separators
  <1> DEFINE p == <<"refs/">> \o i
             q == <<"/blobs/", d>>
  <1>3. /\ p \in Seq(Elements) /\ Len(p) = Len(i) + 1
        /\ p[1] = "refs/" /\ \A k \in 1..Len(i) : p[k + 1] = i[k]
    BY <1>1, <1>2
  <1>4. q \in Seq(Elements) /\ Len(q) = 2 /\ q[1] = "/blobs/" /\ q[2] = d
    BY <1>2
  <1>5. blobPath(i, d) = p \o q
    BY DEF blobPath
  <1> HIDE DEF p, q
  <1>6. /\ p \o q \in Seq(Elements) /\ Len(p \o q) = Len(p) + 2
        /\ \A k \in 1..Len(p) : (p \o q)[k] = p[k]
        /\ (p \o q)[Len(p) + 1] = q[1] /\ (p \o q)[Len(p) + 2] = q[2]
    <2>1. p \o q \in Seq(Elements) /\ Len(p \o q) = Len(p) + 2
      BY <1>3, <1>4, ConcatProperties
    <2>2. \A k \in 1..Len(p \o q) : (p \o q)[k] = IF k <= Len(p) THEN p[k] ELSE q[k - Len(p)]
      BY <1>3, <1>4, ConcatProperties
    <2>3. Len(p) \in Nat
      BY <1>3
    <2> HIDE DEF p, q
    <2> QED
      BY <2>1, <2>2, <2>3
  <1>7. \A k \in 1..Len(i) : k + 1 \in 1..Len(p)
    BY <1>1, <1>3
  <1>8. 1 \in 1..Len(p) /\ Len(p) + 1 = Len(i) + 2 /\ Len(p) + 2 = Len(i) + 3
    BY <1>1, <1>3
  <1> QED
    BY <1>3, <1>4, <1>5, <1>6, <1>7, <1>8

\* The rows of manifests that a pattern fits are those of images whose names it
\* fits: the separator keeps a name's length.
LEMMA LikeManifest ==
  ASSUME NEW i \in Images, NEW j \in Images, NEW ref \in Refs,
         Like(manifestPrefix(i), manifestPath(j, ref))
  PROVE  Len(i) = Len(j) /\ \A k \in 1..Len(i) : Fits(i[k], j[k])
  <1> DEFINE p == manifestPrefix(i)
             path == manifestPath(j, ref)
  <1>1. /\ i \in Seq(Elements) /\ Len(i) \in Nat
        /\ j \in Seq(Elements) /\ Len(j) \in Nat
        /\ \A k \in 1..Len(j) : j[k] # "/manifests/"
    BY NamesAreSequences
  <1>2. Len(p) = Len(i) + 2 /\ DOMAIN p = 1..(Len(i) + 2) /\ p[Len(i) + 2] = "/manifests/"
        /\ \A k \in 1..Len(i) : p[k + 1] = i[k]
    BY PrefixShape
  <1>3. Len(path) = Len(j) + 3 /\ path[Len(j) + 3] = ref
        /\ \A k \in 1..Len(j) : path[k + 1] = j[k]
    <2>1. /\ Len(path) = Len(j) + 3 /\ path[Len(j) + 3] = ref
          /\ \A k \in 1..(Len(j) + 2) : path[k] = manifestPrefix(j)[k]
      BY ManifestPathShape
    <2>2. \A k \in 1..Len(j) : k + 1 \in 1..(Len(j) + 2) /\ manifestPrefix(j)[k + 1] = j[k]
      BY <1>1, PrefixShape
    <2> QED
      BY <2>1, <2>2
  <1>4. Len(i) + 2 <= Len(j) + 3 /\ \A k \in 1..(Len(i) + 2) : Fits(p[k], path[k])
    BY <1>2, <1>3 DEF Like
  <1> HIDE DEF p, path
  <1>5. path[Len(i) + 2] = "/manifests/"
    <2>1. Len(i) + 2 \in 1..(Len(i) + 2)
      BY <1>1
    <2>2. Fits(p[Len(i) + 2], path[Len(i) + 2])
      BY <2>1, <1>4
    <2> QED
      BY <2>2, <1>2 DEF Fits
  <1>6. Len(i) + 2 # Len(j) + 3
    BY <1>3, <1>5, NamesAssumption DEF NamesAssumption, Separators, Refs
  <1>7. ~(Len(i) + 1 \in 1..Len(j))
    BY <1>1, <1>3, <1>5
  <1>8. Len(i) = Len(j)
    BY <1>1, <1>4, <1>6, <1>7
  <1> QED
    BY <1>1, <1>2, <1>3, <1>4, <1>8

\* A pattern of manifests fits no row of a layer.
LEMMA LikeNoBlob ==
  ASSUME NEW i \in Images, NEW j \in Images, NEW d \in Digests
  PROVE  ~Like(manifestPrefix(i), blobPath(j, d))
  <1> SUFFICES ASSUME Like(manifestPrefix(i), blobPath(j, d)) PROVE FALSE
    OBVIOUS
  <1> DEFINE p == manifestPrefix(i)
             path == blobPath(j, d)
  <1>1. /\ Len(i) \in Nat /\ Len(j) \in Nat
        /\ \A k \in 1..Len(j) : j[k] # "/manifests/"
    BY NamesAreSequences
  <1>2. Len(p) = Len(i) + 2 /\ DOMAIN p = 1..(Len(i) + 2) /\ p[Len(i) + 2] = "/manifests/"
    BY PrefixShape
  <1>3. Len(path) = Len(j) + 3 /\ path[Len(j) + 3] = d /\ path[Len(j) + 2] = "/blobs/"
        /\ \A k \in 1..Len(j) : path[k + 1] = j[k]
    BY BlobPathShape
  <1>4. Len(i) + 2 <= Len(j) + 3 /\ Fits(p[Len(i) + 2], path[Len(i) + 2])
    BY <1>1, <1>2, <1>3 DEF Like
  <1>5. path[Len(i) + 2] = "/manifests/"
    BY <1>2, <1>4 DEF Fits
  <1>6. Len(i) + 2 # Len(j) + 3 /\ Len(i) + 2 # Len(j) + 2
    BY <1>3, <1>5, NamesAssumption DEF NamesAssumption, Separators
  <1>7. ~(Len(i) + 1 \in 1..Len(j))
    BY <1>1, <1>3, <1>5
  <1> QED
    BY <1>1, <1>4, <1>6, <1>7

\* A row of an image fits its own pattern, and what is left of it is the
\* reference.
LEMMA OwnRow ==
  ASSUME NEW i \in Images, NEW ref \in Refs
  PROVE  /\ Like(manifestPrefix(i), manifestPath(i, ref))
         /\ TrimPrefix(manifestPath(i, ref), manifestPrefix(i)) = <<ref>>
  <1> DEFINE p == manifestPrefix(i)
             path == manifestPath(i, ref)
  <1>1. Len(i) \in Nat /\ ref \in Elements
    BY NamesAreSequences DEF Elements, Markers, Refs
  <1>2. p \in Seq(Elements) /\ Len(p) = Len(i) + 2 /\ DOMAIN p = 1..(Len(i) + 2)
    BY PrefixShape
  <1>3. /\ path \in Seq(Elements) /\ Len(path) = Len(i) + 3
        /\ \A k \in 1..(Len(i) + 2) : path[k] = p[k]
        /\ path[Len(i) + 3] = ref
    BY ManifestPathShape
  <1> HIDE DEF p, path
  <1>4. Like(p, path)
    <2>1. Len(p) <= Len(path)
      BY <1>1, <1>2, <1>3
    <2>2. \A k \in DOMAIN p : Fits(p[k], path[k])
      BY <1>2, <1>3, FitsItself
    <2> QED
      BY <2>1, <2>2, LikeByElement
  <1>5. SubSeq(p, 1, Len(p)) = SubSeq(path, 1, Len(p))
    BY <1>1, <1>2, <1>3
  <1>6. IsPrefix(p, path)
    BY <1>1, <1>2, <1>3, <1>5 DEF IsPrefix
  <1>7. SubSeq(path, Len(p) + 1, Len(path)) = <<ref>>
    <2>1. Len(p) + 1 = Len(i) + 3 /\ Len(path) = Len(i) + 3 /\ Len(i) + 3 \in 1..Len(path)
      BY <1>1, <1>2, <1>3
    <2> DEFINE n == Len(i) + 3
    <2>2. n \in Nat /\ n \in 1..Len(path) /\ path[n] = ref
      BY <1>1, <1>3, <2>1
    <2> HIDE DEF n
    <2>3. SubSeq(path, n, n) \in Seq(Elements) /\ Len(SubSeq(path, n, n)) = 1
          /\ SubSeq(path, n, n)[1] = ref
      BY <1>3, <2>2
    <2>4. <<ref>> \in Seq(Elements) /\ Len(<<ref>>) = 1 /\ <<ref>>[1] = ref
      BY <1>1
    <2>5. /\ Len(SubSeq(path, n, n)) = Len(<<ref>>)
          /\ \A k \in 1..Len(SubSeq(path, n, n)) : SubSeq(path, n, n)[k] = <<ref>>[k]
      BY <2>3, <2>4
    <2>6. SubSeq(path, n, n) = <<ref>>
      BY <2>3, <2>4, <2>5, SeqEqual
    <2> QED
      BY <2>1, <2>6 DEF n
  <1>8. TrimPrefix(path, p) = <<ref>>
    BY <1>6, <1>7 DEF TrimPrefix
  <1> QED
    BY <1>4, <1>8 DEF p, path

\* Between its separators a row has its image's name.
LEMMA NameOfRow ==
  ASSUME NEW i \in Images
  PROVE  /\ \A ref \in Refs : nameOf(manifestPath(i, ref)) = i
         /\ \A d \in Digests : nameOf(blobPath(i, d)) = i
  <1>1. /\ i \in Seq(Elements) /\ Len(i) \in Nat
        /\ DOMAIN i = 1..Len(i)
    BY NamesAreSequences
  <1>2. ASSUME NEW path \in Seq(Elements), Len(path) = Len(i) + 3,
               \A k \in 1..Len(i) : path[k + 1] = i[k]
        PROVE  nameOf(path) = i
    <2>1. Len(path) - 2 = Len(i) + 1
      BY <1>1, <1>2
    <2>2. SubSeq(path, 2, Len(i) + 1) = i
      BY <1>1, <1>2
    <2> QED
      BY <2>1, <2>2 DEF nameOf
  <1>3. ASSUME NEW ref \in Refs PROVE nameOf(manifestPath(i, ref)) = i
    <2>1. \A k \in 1..Len(i) : k + 1 \in 1..(Len(i) + 2)
      BY <1>1
    <2>2. \A k \in 1..Len(i) : manifestPath(i, ref)[k + 1] = i[k]
      BY <2>1, ManifestPathShape, PrefixShape
    <2> QED
      BY <1>2, <2>2, ManifestPathShape
  <1>4. ASSUME NEW d \in Digests PROVE nameOf(blobPath(i, d)) = i
    BY <1>2, BlobPathShape
  <1> QED
    BY <1>3, <1>4

\* The rows that the catalog lists: all of images, and none of the digests alone.
LEMMA LikeRefs ==
  /\ \A i \in Images, ref \in Refs : Like(<<"refs/">>, manifestPath(i, ref))
  /\ \A i \in Images, d \in Digests : Like(<<"refs/">>, blobPath(i, d))
  /\ \A l : ~Like(<<"refs/">>, <<"blobs/", l>>)
  <1> DEFINE p == <<"refs/">>
  <1>1. Len(p) = 1 /\ DOMAIN p = {1} /\ p[1] = "refs/"
    OBVIOUS
  <1> HIDE DEF p
  <1>2. ASSUME NEW path, Len(path) >= 1, path[1] = "refs/" PROVE Like(p, path)
    <2>1. Len(p) <= Len(path) /\ \A k \in DOMAIN p : p[k] = path[k]
      BY <1>1, <1>2
    <2> QED
      BY <2>1, FitsItself, LikeByElement
  <1>3. ASSUME NEW i \in Images, NEW ref \in Refs PROVE Like(p, manifestPath(i, ref))
    <2>1. Len(i) \in Nat /\ 1 \in 1..(Len(i) + 2)
      BY NamesAreSequences
    <2>2. manifestPath(i, ref)[1] = "refs/" /\ Len(manifestPath(i, ref)) = Len(i) + 3
      BY <2>1, ManifestPathShape, PrefixShape
    <2> QED
      BY <1>2, <2>1, <2>2
  <1>4. ASSUME NEW i \in Images, NEW d \in Digests PROVE Like(p, blobPath(i, d))
    BY <1>2, NamesAreSequences, BlobPathShape
  <1>5. ASSUME NEW l PROVE ~Like(p, <<"blobs/", l>>)
    <2>1. <<"blobs/", l>>[1] = "blobs/"
      OBVIOUS
    <2> QED
      BY <1>1, <2>1, FitsSeparators DEF Like
  <1> QED
    BY <1>3, <1>4, <1>5 DEF p

\* No row of a digest alone is an image's.
LEMMA LikeNoLayerRow ==
  ASSUME NEW i \in Images, NEW l
  PROVE  ~Like(manifestPrefix(i), <<"blobs/", l>>)
  <1>1. Len(i) \in Nat /\ Len(i) > 0
    BY NamesAreSequences, ImagesAssumption DEF ImagesAssumption
  <1>2. Len(<<"blobs/", l>>) = 2
    OBVIOUS
  <1> QED
    BY <1>1, <1>2, PrefixShape DEF Like

-----------------------------------------------------------------------------
\* Every row of a manifest is listed, and a listed one is of an image whose
\* name the pattern fits.
LEMMA TagsListed ==
  ASSUME TypeOK, NEW i \in Images
  PROVE  TagsOf(i) \subseteq TagsList(Paths, i)
  <1> SUFFICES ASSUME NEW u \in Tags, tag[i][u] # None PROVE <<u>> \in TagsList(Paths, i)
    BY DEF TagsOf
  <1>1. u \in Refs /\ u \notin Digests
    BY ImagesAssumption DEF ImagesAssumption, Refs
  <1>2. manifestPath(i, u) \in Paths
    <2>1. <<i, u>> \in {jt \in Images \X Tags : tag[jt[1]][jt[2]] # None}
      OBVIOUS
    <2> QED
      BY <2>1 DEF Paths
  <1>3. manifestPath(i, u) \in ListArtifactsByPrefix(Paths, manifestPrefix(i))
    BY <1>1, <1>2, OwnRow DEF ListArtifactsByPrefix
  <1>4. TrimPrefix(manifestPath(i, u), manifestPrefix(i)) = <<u>>
    BY <1>1, OwnRow
  <1>5. Head(<<u>>) = u
    OBVIOUS
  <1> QED
    BY <1>1, <1>3, <1>4, <1>5 DEF TagsList

\* What a row is of.
LEMMA PathsAre ==
  ASSUME TypeOK, NEW path \in Paths
  PROVE  \/ \E i \in Images, t \in Tags : tag[i][t] # None /\ path = manifestPath(i, t)
         \/ \E i \in Images, m \in Digests : <<i, m>> \in digest /\ path = manifestPath(i, m)
         \/ \E i \in Images, l \in Digests : <<i, l>> \in bound /\ path = blobPath(i, l)
         \/ \E l : path = <<"blobs/", l>>
  <1>1. CASE path \in {manifestPath(it[1], it[2]) :
                         it \in {jt \in Images \X Tags : tag[jt[1]][jt[2]] # None}}
    BY <1>1
  <1>2. CASE path \in {manifestPath(im[1], im[2]) : im \in digest}
    <2>1. PICK im \in digest : path = manifestPath(im[1], im[2])
      BY <1>2
    <2>2. im[1] \in Images /\ im[2] \in Digests /\ im = <<im[1], im[2]>>
      BY ImagesAssumption DEF TypeOK, ImagesAssumption
    <2> QED
      BY <2>1, <2>2
  <1>3. CASE path \in {blobPath(il[1], il[2]) : il \in bound}
    <2>1. PICK il \in bound : path = blobPath(il[1], il[2])
      BY <1>3
    <2>2. il[1] \in Images /\ il[2] \in Digests /\ il = <<il[1], il[2]>>
      BY ImagesAssumption DEF TypeOK, ImagesAssumption
    <2> QED
      BY <2>1, <2>2
  <1>4. CASE path \in {<<"blobs/", l>> : l \in kept}
    BY <1>4
  <1> QED
    BY <1>1, <1>2, <1>3, <1>4 DEF Paths

NoUnderscore(i) == \A k \in DOMAIN i : i[k] # "_"

\* A name without an underscore fits itself alone.
LEMMA FitsNoOther ==
  ASSUME NEW i \in Images, NEW j \in Images, NoUnderscore(i),
         Len(i) = Len(j), \A k \in 1..Len(i) : Fits(i[k], j[k])
  PROVE  i = j
  <1>1. i \in Seq(Elements) /\ j \in Seq(Elements)
    BY NamesAreSequences
  <1>2. DOMAIN i = 1..Len(i)
    BY <1>1
  <1>3. \A k \in 1..Len(i) : i[k] = j[k]
    BY <1>2 DEF Fits, NoUnderscore
  <1> QED
    BY <1>1, <1>3, SeqEqual

LEMMA OnlyTagsListed ==
  ASSUME TypeOK, NEW i \in Images, NoUnderscore(i)
  PROVE  TagsList(Paths, i) \subseteq TagsOf(i)
  <1> SUFFICES ASSUME NEW path \in Paths, Like(manifestPrefix(i), path),
                      Head(TrimPrefix(path, manifestPrefix(i))) \notin Digests
               PROVE  TrimPrefix(path, manifestPrefix(i)) \in TagsOf(i)
    BY DEF TagsList, ListArtifactsByPrefix
  <1>1. ASSUME NEW j \in Images, NEW ref \in Refs, path = manifestPath(j, ref)
        PROVE  j = i /\ TrimPrefix(path, manifestPrefix(i)) = <<ref>>
    <2>1. j = i
      BY <1>1, LikeManifest, FitsNoOther
    <2> QED
      BY <1>1, <2>1, OwnRow
  <1>2. CASE \E j \in Images, t \in Tags : tag[j][t] # None /\ path = manifestPath(j, t)
    BY <1>1, <1>2 DEF TagsOf, Refs
  <1>3. CASE \E j \in Images, m \in Digests : <<j, m>> \in digest /\ path = manifestPath(j, m)
    <2>1. PICK j \in Images, m \in Digests : path = manifestPath(j, m)
      BY <1>3
    <2>2. TrimPrefix(path, manifestPrefix(i)) = <<m>>
      BY <1>1, <2>1 DEF Refs
    <2>3. Head(<<m>>) = m
      OBVIOUS
    <2> QED
      BY <2>2, <2>3
  <1> QED
    BY <1>2, <1>3, PathsAre, LikeNoBlob, LikeNoLayerRow

\* The catalog.
LEMMA CatalogIsExact ==
  ASSUME TypeOK
  PROVE  Catalog(Paths) =
           {i \in Images : \/ \E t \in Tags : tag[i][t] # None
                           \/ \E d \in Digests : <<i, d>> \in digest \cup bound}
  <1> DEFINE Listed(i) == \/ \E t \in Tags : tag[i][t] # None
                         \/ \E d \in Digests : <<i, d>> \in digest \cup bound
  <1>1. ASSUME NEW path \in Paths, Like(<<"refs/">>, path)
        PROVE  nameOf(path) \in Images /\ Listed(nameOf(path))
    <2>1. CASE \E i \in Images, t \in Tags : tag[i][t] # None /\ path = manifestPath(i, t)
      BY <2>1, NameOfRow DEF Refs
    <2>2. CASE \E i \in Images, m \in Digests : <<i, m>> \in digest /\ path = manifestPath(i, m)
      BY <2>2, NameOfRow DEF Refs
    <2>3. CASE \E i \in Images, l \in Digests : <<i, l>> \in bound /\ path = blobPath(i, l)
      BY <2>3, NameOfRow
    <2> QED
      BY <1>1, <2>1, <2>2, <2>3, PathsAre, LikeRefs
  <1>2. ASSUME NEW i \in Images, Listed(i)
        PROVE  \E path \in Paths : Like(<<"refs/">>, path) /\ nameOf(path) = i
    <2>1. CASE \E t \in Tags : tag[i][t] # None
      <3>1. PICK t \in Tags : tag[i][t] # None
        BY <2>1
      <3>2. <<i, t>> \in {jt \in Images \X Tags : tag[jt[1]][jt[2]] # None}
        BY <3>1
      <3>3. manifestPath(i, t) \in Paths
        BY <3>2 DEF Paths
      <3> QED
        BY <3>3, LikeRefs, NameOfRow DEF Refs
    <2>2. CASE \E d \in Digests : <<i, d>> \in digest
      <3>1. PICK d \in Digests : <<i, d>> \in digest
        BY <2>2
      <3>2. manifestPath(i, d) \in Paths
        BY <3>1 DEF Paths
      <3> QED
        BY <3>2, LikeRefs, NameOfRow DEF Refs
    <2>3. CASE \E d \in Digests : <<i, d>> \in bound
      <3>1. PICK d \in Digests : <<i, d>> \in bound
        BY <2>3
      <3>2. blobPath(i, d) \in Paths
        BY <3>1 DEF Paths
      <3> QED
        BY <3>2, LikeRefs, NameOfRow
    <2> QED
      BY <1>2, <2>1, <2>2, <2>3
  <1> HIDE DEF Listed
  <1>3. Catalog(Paths) = {i \in Images : Listed(i)}
    BY <1>1, <1>2 DEF Catalog, ListArtifactsByPrefix
  <1> QED
    BY <1>3 DEF Listed

\* The tag list of an image has every tag that it has, and no other one if its
\* name has no underscore; the catalog has every image with a row and no other,
\* after any pushes, deletions and collections (manifest.go:150-214).
THEOREM ListingsAreExactAlways == Spec => []ListingsAreExact
  <1>1. TypeOK => ListingsAreExact
    BY TagsListed, OnlyTagsListed, CatalogIsExact DEF ListingsAreExact, NoUnderscore
  <1> QED
    BY <1>1, TypeCorrect, PTL
=============================================================================
