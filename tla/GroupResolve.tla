---------------------------- MODULE GroupResolve ----------------------------
(***************************************************************************)
(* A group repository (internal/repo/store.go). Its own rows come first,   *)
(* then those of its members in the order of its configuration. Every      *)
(* lookup is a SELECT of its own, so uploads and deletions fall between    *)
(* the members of one answer. A download (ResolveArtifact) stops at the    *)
(* first row; a listing (ResolveArtifactsByPrefix) goes to the end and     *)
(* keeps the first row of each path.                                       *)
(***************************************************************************)
EXTENDS Naturals, Sequences

CONSTANTS
  Group,      \* the group repository, which exists from the start as others may
  Members,    \* the repositories its configuration names, in order
  Paths,
  Digests,
  Callers,    \* requests in flight
  None,
  MaxWrites   \* bound on rows written or deleted, and members created

Repos == {Group} \cup {Members[i] : i \in DOMAIN Members}

ASSUME GroupAssumption ==
  /\ Members \in Seq(Repos \ {Group})
  /\ None \notin Digests \cup (Repos \X Digests)
  /\ MaxWrites \in Nat

VARIABLES
  exists,  \* repositories that are created
  row,     \* row[r][p]: the digest of artifact p of repository r
  call,    \* call[c]: request c; got[p] is what it found, with its repository,
           \* and skipped has the members whose queries failed
  ever,    \* ever[c]: rows there were at some time since c began
  steady,  \* steady[c]: places that have had a row ever since c began
  writes

vars == <<exists, row, call, ever, steady, writes>>

-----------------------------------------------------------------------------
NoCall == [pc |-> "idle", op |-> "get", want |-> {}, i |-> 0,
           got |-> [p \in Paths |-> None], skipped |-> {}]

Rows == {x \in Repos \X Paths \X Digests : row[x[1]][x[2]] = x[3]}

Places == {x \in Repos \X Paths : row[x[1]][x[2]] # None}

Goto(c, pc) == call' = [call EXCEPT ![c].pc = pc]

Written == writes < MaxWrites /\ writes' = writes + 1

\* A request ends when it has its path, or a listing at the end of the members.
Complete(op, want, got) == op # "list" /\ \A p \in want : got[p] # None

\* Mutant of Merged: the last repository wins.
MergedLast(c, r) ==
  [p \in Paths |-> IF p \in call[c].want /\ row[r][p] # None
                   THEN <<r, row[r][p]>> ELSE call[c].got[p]]

\* Mutant of Merged: a later row changes the digest of an earlier one.
MergedMixed(c, r) ==
  [p \in Paths |-> IF p \in call[c].want /\ row[r][p] # None
                   THEN <<IF call[c].got[p] = None THEN r ELSE call[c].got[p][1], row[r][p]>>
                   ELSE call[c].got[p]]

\* What c has after it has read the rows of r: the first one of a path stays.
Merged(c, r) ==
  [p \in Paths |-> IF p \in call[c].want /\ call[c].got[p] = None /\ row[r][p] # None
                   THEN <<r, row[r][p]>> ELSE call[c].got[p]]

-----------------------------------------------------------------------------
(* The rows, as uploads, fetches and deletions of the members change them. *)

Create(r) ==
  /\ r \notin exists
  /\ Written
  /\ exists' = exists \cup {r}
  /\ UNCHANGED <<row, call, ever, steady>>

UpsertArtifact(r, p, d) ==
  /\ r \in exists
  /\ row[r][p] # d
  /\ Written
  /\ row' = [row EXCEPT ![r][p] = d]
  /\ ever' = [c \in Callers |-> ever[c] \cup {<<r, p, d>>}]
  /\ UNCHANGED <<exists, call, steady>>

DeleteArtifact(r, p) ==
  /\ row[r][p] # None
  /\ Written
  /\ row' = [row EXCEPT ![r][p] = None]
  /\ steady' = [c \in Callers |-> steady[c] \ {<<r, p>>}]
  /\ UNCHANGED <<exists, call, ever>>

-----------------------------------------------------------------------------
(* One request. *)

\* A download wants one path, a listing all that have its prefix. The PyPI
\* handler downloads from the rows of the group alone ("direct").
Begin(c, op, want) ==
  /\ call[c].pc \in {"idle", "done", "failed"}
  /\ call' = [call EXCEPT ![c] = [NoCall EXCEPT !.pc = "direct", !.op = op, !.want = want]]
  /\ ever' = [ever EXCEPT ![c] = Rows]
  /\ steady' = [steady EXCEPT ![c] = Places]
  /\ UNCHANGED <<exists, row, writes>>

\* The rows of the group itself. GetArtifact has no more than these.
ReadDirect(c) ==
  /\ call[c].pc = "direct"
  /\ LET got == Merged(c, Group) IN
     call' = [call EXCEPT ![c].got = got,
                          ![c].pc = IF \/ Complete(call[c].op, call[c].want, got)
                                       \/ call[c].op = "direct"
                                    THEN "done" ELSE "parent"]
  /\ UNCHANGED <<exists, row, ever, steady, writes>>

\* GetByID: the kind and the members. Nothing ever changes them.
ReadParent(c) ==
  /\ call[c].pc = "parent"
  /\ call' = [call EXCEPT ![c].pc = "member", ![c].i = 1]
  /\ UNCHANGED <<exists, row, ever, steady, writes>>

\* A query of the group itself that fails ends the request.
ReadFails(c) ==
  /\ call[c].pc \in {"direct", "parent"}
  /\ Goto(c, "failed")
  /\ UNCHANGED <<exists, row, ever, steady, writes>>

\* Mutant of GetMember: a member that is not there ends the walk.
GetMemberBreaks(c) ==
  /\ call[c].pc = "member"
  /\ call[c].i \in DOMAIN Members
  /\ Goto(c, IF Members[call[c].i] \in exists THEN "rows" ELSE "done")
  /\ UNCHANGED <<exists, row, ever, steady, writes>>

\* Get by name: a member that is not there is passed over.
GetMember(c) ==
  /\ call[c].pc = "member"
  /\ call[c].i \in DOMAIN Members
  /\ IF Members[call[c].i] \in exists
     THEN Goto(c, "rows")
     ELSE call' = [call EXCEPT ![c].i = @ + 1]
  /\ UNCHANGED <<exists, row, ever, steady, writes>>

\* The rows of a member.
ReadMember(c) ==
  /\ call[c].pc = "rows"
  /\ LET got == Merged(c, Members[call[c].i]) IN
     call' = [call EXCEPT ![c].got = got,
                          ![c].i = @ + 1,
                          ![c].pc = IF Complete(call[c].op, call[c].want, got) THEN "done" ELSE "member"]
  /\ UNCHANGED <<exists, row, ever, steady, writes>>

\* Either query of a member that fails is taken for a member without rows.
SkipMember(c) ==
  /\ call[c].pc \in {"member", "rows"}
  /\ call[c].i \in DOMAIN Members
  /\ call' = [call EXCEPT ![c].i = @ + 1, ![c].pc = "member",
                          ![c].skipped = @ \cup {Members[call[c].i]}]
  /\ UNCHANGED <<exists, row, ever, steady, writes>>

\* The members are at their end: ErrNotFound, or the listing. The handlers do
\* not ask an upstream, which they do for a repository of kind proxy only.
EndWalk(c) ==
  /\ call[c].pc = "member"
  /\ call[c].i \notin DOMAIN Members
  /\ Goto(c, "done")
  /\ UNCHANGED <<exists, row, ever, steady, writes>>

-----------------------------------------------------------------------------
Init ==
  /\ exists \in SUBSET Repos
  /\ Group \in exists
  /\ row = [r \in Repos |-> [p \in Paths |-> None]]
  /\ call = [c \in Callers |-> NoCall]
  /\ ever = [c \in Callers |-> {}]
  /\ steady = [c \in Callers |-> {}]
  /\ writes = 0

Request(c) ==
  \/ \E p \in Paths, op \in {"get", "direct"} : Begin(c, op, {p})
  \/ Begin(c, "list", Paths)
  \/ ReadDirect(c)
  \/ ReadParent(c)
  \/ ReadFails(c)
  \/ GetMember(c)
  \/ ReadMember(c)
  \/ SkipMember(c)
  \/ EndWalk(c)

Change ==
  \E r \in Repos :
    \/ Create(r)
    \/ \E p \in Paths : DeleteArtifact(r, p) \/ \E d \in Digests : UpsertArtifact(r, p, d)

Next == Change \/ \E c \in Callers : Request(c)

Spec == Init /\ [][Next]_vars

-----------------------------------------------------------------------------
(* Properties. *)

Call ==
  [pc: {"idle", "direct", "parent", "member", "rows", "done", "failed"},
   op: {"get", "list", "direct"},
   want: SUBSET Paths,
   i: 0 .. Len(Members) + 1,
   got: [Paths -> {None} \cup (Repos \X Digests)],
   skipped: SUBSET Repos]

TypeOK ==
  /\ exists \subseteq Repos
  /\ row \in [Repos -> [Paths -> Digests \cup {None}]]
  /\ call \in [Callers -> Call]
  /\ ever \in [Callers -> SUBSET (Repos \X Paths \X Digests)]
  /\ steady \in [Callers -> SUBSET (Repos \X Paths)]
  /\ writes \in 0..MaxWrites

\* r comes before s: the group itself, then its members in order.
Before(r, s) ==
  /\ r # s
  /\ \/ r = Group
     \/ \E j \in DOMAIN Members : Members[j] = r /\ s \notin {Group} \cup {Members[i] : i \in 1..j}

Done(c, p) == call[c].pc = "done" /\ p \in call[c].want

\* What is answered was in its repository while the request ran, with that
\* digest: no answer is put together from two rows (store.go:155-236).
AnswerWasThere ==
  \A c \in Callers, p \in Paths :
    Done(c, p) /\ call[c].got[p] # None =>
      <<call[c].got[p][1], p, call[c].got[p][2]>> \in ever[c]

\* "First member that has the artifact wins" (README.md:382-383): no repository
\* before the one that is answered has had the path all the time, whatever is
\* uploaded, deleted or created meanwhile, unless a query of it failed: that is
\* taken for a member without rows (store.go:173-183).
FirstMemberWins ==
  \A c \in Callers, p \in Paths :
    Done(c, p) /\ call[c].got[p] # None =>
      \A r \in Repos \ call[c].skipped :
        Before(r, call[c].got[p][1]) => <<r, p>> \notin steady[c]

\* An artifact that stays in the group or in a member that could be queried is
\* found by every download, and is in every listing (PHASES.md:238-241: "every
\* format handler's read paths use these so a single group repo can fan out"),
\* but for a PyPI download (pypi/handler.go:172), which has the group's own.
FoundIfThere ==
  \A c \in Callers, p \in Paths :
    Done(c, p) /\ call[c].got[p] = None =>
      \A r \in (IF call[c].op = "direct" THEN {Group} ELSE Repos) \ call[c].skipped :
        <<r, p>> \notin steady[c]
=============================================================================
