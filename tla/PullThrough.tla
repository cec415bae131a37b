----------------------------- MODULE PullThrough -----------------------------
(***************************************************************************)
(* A proxy repository, which fetches from an upstream what it does not     *)
(* have (proxy.go of npm, Go modules, Maven, Helm and PyPI), as one member *)
(* of a group. A request for an artifact that the proxy's rows do not have *)
(* asks the upstream, stores the body and writes the row; requests         *)
(* overlap, and every step may fail. A request to the group walks the      *)
(* members (GroupResolve) and asks no upstream.                            *)
(*                                                                         *)
(* The formats differ in a few paths. Metadata is Maven's                  *)
(* maven-metadata.xml, which is fetched and not kept. Wheels are the files *)
(* of a PyPI package, known from the package's page only: each link of the *)
(* page becomes a row of size 0, a stub, and the first download of the     *)
(* file replaces it. Deletable are Docker's layers and manifests, which    *)
(* are the only artifacts a client can delete (docker/blob.go:88). All     *)
(* other paths are fetched once and kept; a Helm chart's file name is      *)
(* taken to be the one that its metadata gives.                            *)
(*                                                                         *)
(* Storing a body and writing its row are one step here, the steps between *)
(* are those of Registry. Which body an upstream answers with is open.     *)
(***************************************************************************)
EXTENDS GroupResolve, FiniteSets

CONSTANTS
  Proxy,                       \* the member that has an upstream
  Metadata, Wheels, Deletable, \* special kinds of paths
  Uploaded,                    \* paths that clients upload
  Unstated,                    \* the digest of a link without one: ""
  Empty,                       \* the body of no bytes
  Fetchers                     \* requests of a proxy to its upstream at a time

\* Bodies, each named by its digest.
Bodies == Digests \ {Unstated}

ASSUME PullAssumption ==
  /\ Proxy \in Repos \ {Group}
  /\ Metadata \cup Wheels \cup Deletable \cup Uploaded \subseteq Paths
  /\ Wheels \cap (Metadata \cup Deletable) = {}
  /\ None \notin Paths
  /\ None # Unstated
  /\ Unstated \in Digests
  /\ Empty \in Bodies

VARIABLES
  stub,   \* wheels whose row in the proxy has size 0: not fetched yet, or empty
  stored, \* bodies that rows have named and that the store still has
  fetch,  \* fetch[f]: a request to the upstream, for a file or for the page of
          \* the package with the links todo that are not recorded yet
  own,    \* history: paths that clients have uploaded to the proxy itself
  cut,    \* history: the links of a page have been recorded in part
  had,    \* history: wheels that have been fetched
  voice   \* history: voice[p] is the only digest that the upstream's links have
          \* stated of p and its bodies have had, Unstated if there is no such

heard == <<had, voice>>
pullVars == <<stub, stored, fetch, own, cut, heard>>
allVars == <<vars, pullVars>>

-----------------------------------------------------------------------------
NoFetch == [pc |-> "idle", path |-> None, todo |-> {}]

Set(f, r) == fetch' = [fetch EXCEPT ![f] = r]

\* UpsertArtifact in the proxy: an equal digest leaves the row as it is.
Upsert(p, d) ==
  IF row[Proxy][p] = d THEN UNCHANGED vars ELSE UpsertArtifact(Proxy, p, d)

\* The upstream tells the digest d of the wheel p.
Hear(p, d) ==
  voice' = IF p \notin Wheels THEN voice
           ELSE [voice EXCEPT ![p] = IF @ \in {None, d} THEN d ELSE Unstated]

-----------------------------------------------------------------------------
(* A file. *)

\* A request finds no row, or the stub of a wheel, and asks the upstream. (All
\* other requests change nothing here.)
AskFile(f, p) ==
  /\ fetch[f].pc = "idle"
  /\ IF p \in Wheels THEN p \in stub ELSE row[Proxy][p] = None
  /\ Set(f, [NoFetch EXCEPT !.pc = "file", !.path = p])
  /\ UNCHANGED <<vars, stub, stored, own, cut, heard>>

\* The upstream's body is stored and recorded, with its size: the row of an
\* empty wheel is a stub as before. A wheel's row was read again for its
\* upstream_url, which can have happened at any time since the request began.
KeepFile(f) ==
  LET p == fetch[f].path IN
  /\ fetch[f].pc = "file"
  /\ p \notin Metadata
  /\ \E b \in Bodies :
       /\ Upsert(p, b)
       /\ stub' = IF b = Empty THEN stub \cup ({p} \cap Wheels) ELSE stub \ {p}
       /\ stored' = stored \cup {b}
       /\ Hear(p, b)
  /\ had' = had \cup ({p} \cap Wheels)
  /\ Set(f, NoFetch)
  /\ UNCHANGED <<own, cut>>

\* Metadata is answered and not kept. Or the upstream has nothing, does not
\* answer in time or breaks off, or a statement fails: nothing is recorded.
EndFile(f) ==
  /\ fetch[f].pc = "file"
  /\ Set(f, NoFetch)
  /\ UNCHANGED <<vars, stub, stored, own, cut, heard>>

-----------------------------------------------------------------------------
(* The page of the PyPI package. *)

\* There is no row of the package, and the upstream's page is asked for. (With
\* one row the page is made of what there is.)
AskPage(f) ==
  /\ fetch[f].pc = "idle"
  /\ \A p \in Wheels : row[Proxy][p] = None
  /\ Set(f, [NoFetch EXCEPT !.pc = "page", !.todo = Wheels])
  /\ UNCHANGED <<vars, stub, stored, own, cut, heard>>

\* The request f has no link p any more, and ends with its last one.
Passed(f, p) ==
  Set(f, IF fetch[f].todo = {p} THEN NoFetch ELSE [fetch[f] EXCEPT !.todo = @ \ {p}])

\* Mutant of RecordLink: the first link of the page is taken for all.
RecordLinkFirst(f, p) ==
  /\ fetch[f].pc = "page"
  /\ p \in fetch[f].todo
  /\ \E d \in Digests : Upsert(p, d) /\ Hear(p, d)
  /\ stub' = stub \cup {p}
  /\ Set(f, NoFetch)
  /\ UNCHANGED <<stored, own, cut, had>>

\* The row of a link, with the digest the page states of it, if it does, is
\* written over what there is.
RecordLink(f, p) ==
  /\ fetch[f].pc = "page"
  /\ p \in fetch[f].todo
  /\ \E d \in Digests : Upsert(p, d) /\ Hear(p, d)
  /\ stub' = stub \cup {p}
  /\ Passed(f, p)
  /\ UNCHANGED <<stored, own, cut, had>>

\* A row that cannot be written is passed over.
SkipLink(f, p) ==
  /\ fetch[f].pc = "page"
  /\ p \in fetch[f].todo
  /\ Passed(f, p)
  /\ cut' = TRUE
  /\ UNCHANGED <<vars, stub, stored, own, heard>>

\* The page does not come.
EndPage(f) ==
  /\ fetch[f].pc = "page"
  /\ fetch[f].todo = Wheels
  /\ Set(f, NoFetch)
  /\ UNCHANGED <<vars, stub, stored, own, cut, heard>>

-----------------------------------------------------------------------------
(* Around the proxy. *)

\* An upload. A proxy accepts it like any other repository.
Upload(r, p, d) ==
  /\ UpsertArtifact(r, p, d)
  /\ stub' = IF r = Proxy THEN stub \ {p} ELSE stub
  /\ own' = IF r = Proxy THEN own \cup {p} ELSE own
  /\ stored' = stored \cup {d}
  /\ UNCHANGED <<fetch, cut, heard>>

\* Mutant of Collect: the digest of a stub does not count.
CollectPastStubs ==
  /\ stored' = stored \cap {row[x[1]][x[2]] : x \in (Repos \X Paths) \ ({Proxy} \X stub)}
  /\ UNCHANGED <<vars, stub, fetch, own, cut, heard>>

\* A collection deletes what no row names (Registry has it in steps, and what
\* goes wrong when a body is stored in the midst of one).
Collect ==
  /\ stored' = stored \cap {row[r][p] : r \in Repos, p \in Paths}
  /\ UNCHANGED <<vars, stub, fetch, own, cut, heard>>

\* The server dies, and its requests with it.
Crash ==
  /\ \E f \in Fetchers : fetch[f].pc # "idle"
  /\ cut' = (cut \/ \E f \in Fetchers : fetch[f].pc = "page" /\ fetch[f].todo # Wheels)
  /\ fetch' = [f \in Fetchers |-> NoFetch]
  /\ UNCHANGED <<vars, stub, stored, own, heard>>

PullInit ==
  /\ Init
  /\ Proxy \in exists
  /\ stub = {}
  /\ fetch = [f \in Fetchers |-> NoFetch]
  /\ own = {}
  /\ cut = FALSE
  /\ stored = {}
  /\ had = {}
  /\ voice = [p \in Wheels |-> None]

Pull(f) ==
  \/ \E p \in Paths : AskFile(f, p)
  \/ KeepFile(f)
  \/ EndFile(f)
  \/ AskPage(f)
  \/ \E p \in Wheels : RecordLink(f, p) \/ SkipLink(f, p)
  \/ EndPage(f)

Around ==
  \/ \E r \in Repos :
       \/ Create(r) /\ UNCHANGED pullVars
       \/ \E p \in Uploaded, d \in Bodies : Upload(r, p, d)
       \/ \E p \in Deletable : DeleteArtifact(r, p) /\ UNCHANGED pullVars
  \/ Collect
  \/ Crash

PullNext ==
  \/ \E f \in Fetchers : Pull(f)
  \/ \E c \in Callers : Request(c) /\ UNCHANGED pullVars
  \/ Around

PullSpec == PullInit /\ [][PullNext]_allVars

-----------------------------------------------------------------------------
(* Properties. *)

Fetch == [pc: {"idle", "file", "page"}, path: Paths \cup {None}, todo: SUBSET Wheels]

PullTypeOK ==
  /\ TypeOK
  /\ stub \subseteq Wheels
  /\ fetch \in [Fetchers -> Fetch]
  /\ own \subseteq Paths
  /\ cut \in BOOLEAN
  /\ stored \subseteq Bodies
  /\ had \subseteq Wheels
  /\ voice \in [Wheels -> Digests \cup {None}]

\* "Skip caching maven-metadata.xml so version lists pick up new uploads
\* upstream" (maven/proxy.go:66-67): whatever requests overlap, the proxy never
\* has a row of its own making that would hide the upstream's, only one that a
\* client uploaded.
MetadataNotKept == \A p \in Metadata : row[Proxy][p] # None => p \in own

\* A file that was fetched once can be downloaded from then on, whether or not
\* the upstream answers: when requests that overlap turn its row back into a stub
\* (pypi/proxy.go:95-114), or it is empty and is asked for again each time
\* (pypi/handler.go:183), the row still names the body, no collection takes that,
\* and a download falls through to it (pypi/handler.go:182-196). This needs an
\* upstream whose links and bodies agree on the digest, and no upload in between.
OnceFetchedServed ==
  \A p \in had \ own : voice[p] # Unstated => row[Proxy][p] \in stored

\* A page that is made of rows has all the links of the upstream's page, or a
\* row could not be written, the server has died between two of them, or a client
\* has uploaded a file of the package: once there is a row nobody asks the
\* upstream again (pypi/handler.go:127, pypi/proxy.go:82-114).
PagesAreWhole ==
  ~cut /\ own \cap Wheels = {} /\ (\A f \in Fetchers : fetch[f].pc # "page") =>
    \/ \A p \in Wheels : row[Proxy][p] = None
    \/ \A p \in Wheels : row[Proxy][p] # None
=============================================================================
