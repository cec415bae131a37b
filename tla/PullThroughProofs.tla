-------------------------- MODULE PullThroughProofs --------------------------
(***************************************************************************)
(* Proofs about groups (GroupResolve) and the proxies in them              *)
(* (PullThrough), for any group and members, paths, digests, requests and  *)
(* writes. What a proxy does to its rows is what uploads do, so that       *)
(* everything proved of a group holds with proxies among its members; and  *)
(* what is fetched is fetched for good.                                    *)
(***************************************************************************)
EXTENDS PullThrough, TLAPS

-----------------------------------------------------------------------------
(***************************************************************************)
(* Groups. A request that has read a repository and not found its path there knows *)
(* that the path was missing at that moment, and will not have been there  *)
(* all the time, whatever is written later: that is WalkInv.               *)
(***************************************************************************)

\* The repositories that request c has read or passed over.
Seen(c) ==
  IF call[c].pc = "parent" THEN {Group}
  ELSE IF call[c].pc \in {"member", "rows"}
       THEN {Group} \cup {Members[j] : j \in {k \in DOMAIN Members : k < call[c].i}}
       ELSE {}

\* A repository that does not exist has no rows.
RowsInRepos == \A r \in Repos \ exists, p \in Paths : row[r][p] = None

\* What there is now has been there since a request began, or came since; and
\* what has been there all the time is there now.
History == \A c \in Callers : Rows \subseteq ever[c] /\ steady[c] \subseteq Places

\* While a request walks, its repositories in order are those of the group.
InOrder ==
  \A c \in Callers :
    /\ call[c].pc \in {"member", "rows"} => call[c].i \in Nat \ {0}
    /\ call[c].pc = "rows" => call[c].i \in DOMAIN Members
    /\ call[c].pc = "direct" => \A p \in Paths : call[c].got[p] = None

\* What request c has was there and comes first, and what it has not found was
\* not there all the time.
Walk(c) ==
  \A p \in Paths :
    /\ call[c].got[p] # None =>
         /\ <<call[c].got[p][1], p, call[c].got[p][2]>> \in ever[c]
         /\ \A r \in Repos \ call[c].skipped :
              Before(r, call[c].got[p][1]) => <<r, p>> \notin steady[c]
    /\ p \in call[c].want /\ call[c].got[p] = None =>
         \A r \in Seen(c) \ call[c].skipped : <<r, p>> \notin steady[c]

\* FoundIfThere for request c.
Found(c) ==
  \A p \in Paths :
    Done(c, p) /\ call[c].got[p] = None =>
      \A r \in (IF call[c].op = "direct" THEN {Group} ELSE Repos) \ call[c].skipped :
        <<r, p>> \notin steady[c]

WalkInv == \A c \in Callers : Walk(c) /\ Found(c)

GroupInv == TypeOK /\ RowsInRepos /\ History /\ InOrder /\ WalkInv
-----------------------------------------------------------------------------
\* The actions, for a leaf that looks at each of them.
LEMMA Cases ==
  ASSUME [Next]_vars
  PROVE  \/ UNCHANGED vars
         \/ \E r \in Repos : Create(r)
         \/ \E r \in Repos, p \in Paths : DeleteArtifact(r, p)
         \/ \E r \in Repos, p \in Paths, d \in Digests : UpsertArtifact(r, p, d)
         \/ \E c \in Callers :
              \/ \E want \in SUBSET Paths, op \in {"get", "list", "direct"} :
                   /\ op # "list" => \E p \in Paths : want = {p}
                   /\ Begin(c, op, want)
              \/ ReadDirect(c) \/ ReadParent(c) \/ ReadFails(c) \/ GetMember(c)
              \/ ReadMember(c) \/ SkipMember(c) \/ EndWalk(c)
<1>1. ASSUME NEW c \in Callers, NEW p \in Paths, NEW op \in {"get", "direct"}, Begin(c, op, {p})
      PROVE  \E want \in SUBSET Paths, o \in {"get", "list", "direct"} :
               /\ o # "list" => \E q \in Paths : want = {q}
               /\ Begin(c, o, want)
  <2>1. {p} \in SUBSET Paths /\ op \in {"get", "list", "direct"}
    OBVIOUS
  <2> QED
    BY <1>1, <2>1
<1>2. ASSUME NEW c \in Callers, Begin(c, "list", Paths)
      PROVE  \E want \in SUBSET Paths, o \in {"get", "list", "direct"} :
               /\ o # "list" => \E q \in Paths : want = {q}
               /\ Begin(c, o, want)
  BY <1>2
<1> QED
  BY <1>1, <1>2, Zenon DEF Next, Change, Request

\* The group and its members.
LEMMA MemberInRepos == ASSUME NEW i \in DOMAIN Members PROVE Members[i] \in Repos \ {Group}
BY GroupAssumption DEF GroupAssumption

LEMMA GroupInRepos == Group \in Repos
BY DEF Repos

\* What a request has after it has read r is of its type.
LEMMA MergedType ==
  ASSUME TypeOK, NEW c \in Callers, NEW r \in Repos
  PROVE  Merged(c, r) \in [Paths -> {None} \cup (Repos \X Digests)]
<1>1. row[r] \in [Paths -> Digests \cup {None}] /\ call[c].got \in [Paths -> {None} \cup (Repos \X Digests)]
  BY DEF TypeOK, Call
<1>2. \A q \in Paths : row[r][q] # None => <<r, row[r][q]>> \in Repos \X Digests
  BY <1>1
<1> QED
  BY <1>1, <1>2 DEF Merged

\* It is what the request had before, or the row of r, and is missing only if
\* both are.
LEMMA MergedRow ==
  ASSUME TypeOK, NEW c \in Callers, NEW r \in Repos, NEW p \in Paths
  PROVE  /\ \/ Merged(c, r)[p] = call[c].got[p]
            \/ /\ call[c].got[p] = None
               /\ p \in call[c].want
               /\ row[r][p] \in Digests
               /\ Merged(c, r)[p] = <<r, row[r][p]>>
         /\ p \in call[c].want /\ Merged(c, r)[p] = None =>
              row[r][p] = None /\ call[c].got[p] = None
<1>1. row[r][p] \in Digests \cup {None}
  BY DEF TypeOK
<1>2. None \notin Repos \X Digests
  BY GroupAssumption DEF GroupAssumption
<1>3. Merged(c, r)[p] = IF p \in call[c].want /\ call[c].got[p] = None /\ row[r][p] # None
                        THEN <<r, row[r][p]>> ELSE call[c].got[p]
  BY DEF Merged
<1> QED
  BY <1>1, <1>2, <1>3

\* A request that has not begun is of its type.
LEMMA NoCallType == NoCall \in Call
<1>1. 0 \in 0 .. Len(Members) + 1
  BY GroupAssumption DEF GroupAssumption
<1> QED
  BY <1>1 DEF NoCall, Call

-----------------------------------------------------------------------------
\* The empty group.
LEMMA GroupInit == Init => GroupInv
<1> SUFFICES ASSUME Init PROVE GroupInv
  OBVIOUS
<1> USE DEF Init
<1>1. None \notin Digests /\ Members \in Seq(Repos)
  BY GroupAssumption DEF GroupAssumption
<1>2. call \in [Callers -> Call]
  BY NoCallType
<1>3. TypeOK
  <2>1. exists \subseteq Repos /\ row \in [Repos -> [Paths -> Digests \cup {None}]]
    BY GroupInRepos
  <2>2. ever \in [Callers -> SUBSET (Repos \X Paths \X Digests)] /\ steady \in [Callers -> SUBSET (Repos \X Paths)]
    OBVIOUS
  <2>3. writes \in 0..MaxWrites
    BY GroupAssumption DEF GroupAssumption
  <2> QED
    BY <1>2, <2>1, <2>2, <2>3 DEF TypeOK
<1>4. RowsInRepos
  BY DEF RowsInRepos
<1>5. Rows = {} /\ Places = {}
  BY <1>1 DEF Rows, Places
<1>6. History
  BY <1>5 DEF History
<1>7. InOrder /\ WalkInv
  BY DEF NoCall, InOrder, Done, WalkInv, Walk, Found, Seen
<1> QED
  BY <1>3, <1>4, <1>6, <1>7 DEF GroupInv

\* Every step keeps the types.
LEMMA TypeStep == TypeOK /\ InOrder /\ [Next]_vars => TypeOK'
<1> SUFFICES ASSUME TypeOK, InOrder, [Next]_vars PROVE TypeOK'
  OBVIOUS
<1>0. Members \in Seq(Repos) /\ Len(Members) \in Nat /\ DOMAIN Members = 1..Len(Members)
      /\ MaxWrites \in Nat
  BY GroupAssumption DEF GroupAssumption
<1>1. ASSUME NEW r \in Repos, Create(r) PROVE TypeOK'
  BY <1>0, <1>1 DEF TypeOK, Written, Create
<1>2. ASSUME NEW r \in Repos, NEW p \in Paths, DeleteArtifact(r, p) PROVE TypeOK'
  BY <1>0, <1>2 DEF TypeOK, Written, DeleteArtifact
<1>3. ASSUME NEW r \in Repos, NEW p \in Paths, NEW d \in Digests, UpsertArtifact(r, p, d) PROVE TypeOK'
  BY <1>0, <1>3 DEF TypeOK, Written, UpsertArtifact
<1>4. ASSUME NEW c \in Callers, NEW want \in SUBSET Paths, NEW op \in {"get", "list", "direct"},
             Begin(c, op, want)
      PROVE  TypeOK'
  <2> DEFINE new == [NoCall EXCEPT !.pc = "direct", !.op = op, !.want = want]
  <2>1. new \in Call
    BY NoCallType DEF Call
  <2>2. call' = [call EXCEPT ![c] = new]
    BY <1>4 DEF Begin
  <2>3. call' \in [Callers -> Call]
    BY <2>1, <2>2 DEF TypeOK
  <2>4. Rows \in SUBSET (Repos \X Paths \X Digests) /\ Places \in SUBSET (Repos \X Paths)
    BY DEF Rows, Places
  <2> QED
    BY <1>4, <2>3, <2>4 DEF TypeOK, Begin
<1>5. ASSUME NEW c \in Callers, UNCHANGED <<exists, row, ever, steady, writes>>,
             NEW new \in Call, call' = [call EXCEPT ![c] = new]
      PROVE  TypeOK'
  BY <1>5 DEF TypeOK
<1>callType. \A c \in Callers : call[c] \in Call
  BY DEF TypeOK
<1>6. ASSUME NEW c \in Callers, ReadDirect(c) PROVE TypeOK'
  <2> DEFINE got == Merged(c, Group)
             pc == IF Complete(call[c].op, call[c].want, got) \/ call[c].op = "direct"
                   THEN "done" ELSE "parent"
  <2>1. got \in [Paths -> {None} \cup (Repos \X Digests)]
    BY GroupInRepos, MergedType
  <2>2. [call[c] EXCEPT !.got = got, !.pc = pc] \in Call
    BY <2>1, <1>callType DEF Call
  <2>3. call' = [call EXCEPT ![c] = [call[c] EXCEPT !.got = got, !.pc = pc]]
    BY <1>6 DEF ReadDirect
  <2> QED
    BY <1>5, <1>6, <2>2, <2>3 DEF ReadDirect
<1>7. ASSUME NEW c \in Callers, ReadFails(c) \/ EndWalk(c) PROVE TypeOK'
  <2>1. PICK pc \in {"failed", "done"} : Goto(c, pc)
    BY <1>7 DEF ReadFails, EndWalk
  <2>2. [call[c] EXCEPT !.pc = pc] \in Call
    BY <1>callType DEF Call
  <2>3. call' = [call EXCEPT ![c] = [call[c] EXCEPT !.pc = pc]]
    BY <2>1 DEF Goto
  <2> QED
    BY <1>5, <1>7, <2>2, <2>3 DEF ReadFails, EndWalk
<1>8. ASSUME NEW c \in Callers, ReadParent(c) PROVE TypeOK'
  <2>1. [call[c] EXCEPT !.pc = "member", !.i = 1] \in Call
    <3>1. 1 \in 0 .. Len(Members) + 1
      BY <1>0
    <3> QED
      BY <3>1, <1>callType DEF Call
  <2>2. call' = [call EXCEPT ![c] = [call[c] EXCEPT !.pc = "member", !.i = 1]]
    BY <1>8 DEF ReadParent
  <2> QED
    BY <1>5, <1>8, <2>1, <2>2 DEF ReadParent
<1>9. ASSUME NEW c \in Callers, GetMember(c) PROVE TypeOK'
  <2>1. CASE Goto(c, "rows")
    <3>1. [call[c] EXCEPT !.pc = "rows"] \in Call
      BY <1>callType DEF Call
    <3>2. call' = [call EXCEPT ![c] = [call[c] EXCEPT !.pc = "rows"]]
      BY <2>1 DEF Goto
    <3> QED
      BY <1>5, <1>9, <3>1, <3>2 DEF GetMember
  <2>2. CASE call' = [call EXCEPT ![c].i = @ + 1]
    <3>1. [call[c] EXCEPT !.i = @ + 1] \in Call
      BY <1>0, <1>9, <1>callType DEF GetMember, Call
    <3>2. call' = [call EXCEPT ![c] = [call[c] EXCEPT !.i = @ + 1]]
      BY <2>2
    <3> QED
      BY <1>5, <1>9, <3>1, <3>2 DEF GetMember
  <2> QED
    BY <1>9, <2>1, <2>2 DEF GetMember
<1>10. ASSUME NEW c \in Callers, ReadMember(c) PROVE TypeOK'
  <2> DEFINE got == Merged(c, Members[call[c].i])
             pc == IF Complete(call[c].op, call[c].want, got) THEN "done" ELSE "member"
  <2>1. call[c].i \in DOMAIN Members
    BY <1>10 DEF ReadMember, InOrder
  <2>2. got \in [Paths -> {None} \cup (Repos \X Digests)]
    BY <2>1, MemberInRepos, MergedType
  <2>3. [call[c] EXCEPT !.got = got, !.i = @ + 1, !.pc = pc] \in Call
    <3>1. call[c].i + 1 \in 0 .. Len(Members) + 1
      BY <1>0, <2>1
    <3> QED
      BY <3>1, <2>2, <1>callType DEF Call
  <2>4. call' = [call EXCEPT ![c] = [call[c] EXCEPT !.got = got, !.i = @ + 1, !.pc = pc]]
    BY <1>10 DEF ReadMember
  <2> QED
    BY <1>5, <1>10, <2>3, <2>4 DEF ReadMember
<1>11. ASSUME NEW c \in Callers, SkipMember(c) PROVE TypeOK'
  <2> DEFINE new == [call[c] EXCEPT !.i = @ + 1, !.pc = "member",
                                    !.skipped = @ \cup {Members[call[c].i]}]
  <2>1. call[c].i \in DOMAIN Members
    BY <1>11 DEF SkipMember
  <2>2. new \in Call
    <3>1. call[c].i + 1 \in 0 .. Len(Members) + 1
      BY <1>0, <2>1
    <3>2. {Members[call[c].i]} \in SUBSET Repos
      BY <2>1, MemberInRepos
    <3> QED
      BY <3>1, <3>2, <1>callType DEF Call
  <2>3. call' = [call EXCEPT ![c] = new]
    BY <1>11 DEF SkipMember
  <2> QED
    BY <1>5, <1>11, <2>2, <2>3 DEF SkipMember
<1>12. ASSUME UNCHANGED vars PROVE TypeOK'
  BY <1>12 DEF vars, TypeOK
<1> QED
  BY <1>1, <1>2, <1>3, <1>4, <1>6, <1>7, <1>8, <1>9, <1>10, <1>11, <1>12, Cases

-----------------------------------------------------------------------------
\* Every step keeps a request's history: a row that is written is added to what
\* there was, and a place that is emptied is not there all the time.
LEMMA HistoryStep ==
  TypeOK /\ RowsInRepos /\ History /\ [Next]_vars => RowsInRepos' /\ History'
<1> SUFFICES ASSUME TypeOK, RowsInRepos, History, [Next]_vars PROVE RowsInRepos' /\ History'
  OBVIOUS
<1>1. ASSUME NEW r \in Repos, Create(r) PROVE RowsInRepos' /\ History'
  BY <1>1 DEF Create, RowsInRepos, History, Rows, Places
<1>2. ASSUME NEW r \in Repos, NEW p \in Paths, DeleteArtifact(r, p) PROVE RowsInRepos' /\ History'
  <2>1. Rows' \subseteq Rows
    BY <1>2, GroupAssumption DEF DeleteArtifact, Rows, TypeOK, GroupAssumption
  <2>2. Places' = Places \ {<<r, p>>}
    BY <1>2 DEF DeleteArtifact, Places, TypeOK
  <2>3. History'
    BY <1>2, <2>1, <2>2 DEF DeleteArtifact, History, TypeOK
  <2> QED
    BY <1>2, <2>3 DEF DeleteArtifact, RowsInRepos, TypeOK
<1>3. ASSUME NEW r \in Repos, NEW p \in Paths, NEW d \in Digests, UpsertArtifact(r, p, d)
      PROVE  RowsInRepos' /\ History'
  <2>1. Rows' \subseteq Rows \cup {<<r, p, d>>}
    BY <1>3 DEF UpsertArtifact, Rows, TypeOK
  <2>2. Places \subseteq Places'
    BY <1>3, GroupAssumption DEF UpsertArtifact, Places, TypeOK, GroupAssumption
  <2>3. History'
    BY <1>3, <2>1, <2>2 DEF UpsertArtifact, History, TypeOK
  <2> QED
    BY <1>3, <2>3 DEF UpsertArtifact, RowsInRepos, TypeOK
<1>4. ASSUME NEW c \in Callers, NEW want, NEW op, Begin(c, op, want) PROVE RowsInRepos' /\ History'
  BY <1>4 DEF Begin, RowsInRepos, History, Rows, Places, TypeOK
<1>5. ASSUME UNCHANGED <<exists, row, ever, steady>> PROVE RowsInRepos' /\ History'
  BY <1>5 DEF RowsInRepos, History, Rows, Places
<1> QED
  BY <1>1, <1>2, <1>3, <1>4, <1>5, Cases
  DEF ReadDirect, ReadParent, ReadFails, GetMember, ReadMember, SkipMember, EndWalk, vars

\* Every step keeps the walks in order.
LEMMA OrderStep == TypeOK /\ InOrder /\ [Next]_vars => InOrder'
<1> SUFFICES ASSUME TypeOK, InOrder, [Next]_vars PROVE InOrder'
  OBVIOUS
<1> USE DEF TypeOK, Call
<1>1. ASSUME UNCHANGED call PROVE InOrder'
  BY <1>1 DEF InOrder
<1>2. ASSUME NEW c \in Callers, NEW want, NEW op, Begin(c, op, want) PROVE InOrder'
  BY <1>2 DEF Begin, NoCall, InOrder
<1>3. ASSUME NEW c \in Callers,
             \A d \in Callers \ {c} : call'[d] = call[d],
             call'[c].pc \in {"member", "rows"} => call'[c].i \in Nat \ {0},
             call'[c].pc = "rows" => call'[c].i \in DOMAIN Members,
             call'[c].pc # "direct"
      PROVE  InOrder'
  BY <1>3 DEF InOrder
<1>4. ASSUME NEW c \in Callers, ReadDirect(c) PROVE InOrder'
  BY <1>3, <1>4 DEF ReadDirect
<1>5. ASSUME NEW c \in Callers, ReadParent(c) PROVE InOrder'
  BY <1>3, <1>5 DEF ReadParent
<1>6. ASSUME NEW c \in Callers, ReadFails(c) \/ EndWalk(c) PROVE InOrder'
  <2>1. \A d \in Callers \ {c} : call'[d] = call[d]
    BY <1>6 DEF ReadFails, EndWalk, Goto
  <2>2. call'[c].pc \in {"failed", "done"}
    BY <1>6 DEF ReadFails, EndWalk, Goto
  <2> QED
    BY <1>3, <2>1, <2>2
<1>7. ASSUME NEW c \in Callers, GetMember(c) PROVE InOrder'
  <2>1. call[c].i \in Nat \ {0} /\ call[c].i + 1 \in Nat \ {0}
    BY <1>7 DEF GetMember, InOrder
  <2>2. \A d \in Callers \ {c} : call'[d] = call[d]
    BY <1>7 DEF GetMember, Goto
  <2>3. \/ call'[c].pc = "rows" /\ call'[c].i = call[c].i
        \/ call'[c].pc = "member" /\ call'[c].i = call[c].i + 1
    BY <1>7 DEF GetMember, Goto
  <2> QED
    BY <1>3, <1>7, <2>1, <2>2, <2>3 DEF GetMember
<1>8. ASSUME NEW c \in Callers, ReadMember(c) \/ SkipMember(c) PROVE InOrder'
  <2>1. call[c].i + 1 \in Nat \ {0}
    BY <1>8 DEF ReadMember, SkipMember, InOrder
  <2>2. /\ \A d \in Callers \ {c} : call'[d] = call[d]
        /\ call'[c].i = call[c].i + 1
        /\ call'[c].pc \in {"done", "member"}
    BY <1>8 DEF ReadMember, SkipMember
  <2> QED
    BY <1>3, <2>1, <2>2
<1> QED
  BY <1>1, <1>2, <1>4, <1>5, <1>6, <1>7, <1>8, Cases
  DEF Create, DeleteArtifact, UpsertArtifact, vars

-----------------------------------------------------------------------------
\* What a request knows stays true while others write and read.
LEMMA WalkStays ==
  ASSUME NEW c \in Callers, Walk(c), Found(c), call'[c] = call[c],
         ever[c] \subseteq ever'[c], steady'[c] \subseteq steady[c]
  PROVE  Walk(c)' /\ Found(c)'
BY DEF Walk, Found, Seen, Done

\* A row that is missing now has not been there all the time.
LEMMA MissingNow ==
  ASSUME History, NEW c \in Callers, NEW r \in Repos, NEW p \in Paths, row[r][p] = None
  PROVE  <<r, p>> \notin steady[c]
BY DEF History, Places

\* A row that is there now was there at some time.
LEMMA PresentNow ==
  ASSUME History, NEW c \in Callers, NEW r \in Repos, NEW p \in Paths, row[r][p] \in Digests
  PROVE  <<r, p, row[r][p]>> \in ever[c]
<1>1. <<r, p, row[r][p]>> \in Rows
  BY DEF Rows
<1> QED
  BY <1>1 DEF History

\* A request that reads the group itself.
LEMMA WalkDirect ==
  ASSUME GroupInv, NEW c \in Callers, ReadDirect(c)
  PROVE  Walk(c)' /\ Found(c)'
<1> DEFINE got == Merged(c, Group)
<1>1. /\ call'[c].got = got /\ call'[c].want = call[c].want /\ call'[c].op = call[c].op
      /\ call'[c].skipped = call[c].skipped
      /\ call'[c].pc = IF Complete(call[c].op, call[c].want, got) \/ call[c].op = "direct"
                       THEN "done" ELSE "parent"
  BY DEF ReadDirect, GroupInv, TypeOK, Call
<1>2. steady' = steady /\ ever' = ever
  BY DEF ReadDirect
<1>3. ASSUME NEW p \in Paths, got[p] # None
      PROVE  /\ <<got[p][1], p, got[p][2]>> \in ever[c]
             /\ \A r \in Repos : ~Before(r, got[p][1])
  <2>1. call[c].got[p] = None
    BY DEF ReadDirect, GroupInv, InOrder
  <2>2. row[Group][p] \in Digests /\ got[p] = <<Group, row[Group][p]>>
    BY <1>3, <2>1, GroupInRepos, MergedRow DEF GroupInv
  <2>3. \A r \in Repos : ~Before(r, Group)
    BY DEF Before
  <2> QED
    BY <2>2, <2>3, GroupInRepos, PresentNow DEF GroupInv
<1>4. ASSUME NEW p \in Paths, p \in call[c].want, got[p] = None
      PROVE  <<Group, p>> \notin steady[c]
  <2>1. row[Group][p] = None
    BY <1>4, GroupInRepos, MergedRow DEF GroupInv
  <2> QED
    BY <2>1, GroupInRepos, MissingNow DEF GroupInv
<1>5. Seen(c)' \subseteq {Group}
  BY <1>1 DEF Seen
<1>6. Walk(c)'
  BY <1>1, <1>2, <1>3, <1>4, <1>5 DEF Walk
<1>7. ASSUME NEW p \in Paths, Done(c, p)', got[p] = None PROVE call[c].op = "direct"
  BY <1>1, <1>7 DEF Done, Complete
<1>8. Found(c)'
  BY <1>1, <1>2, <1>4, <1>7 DEF Found, Done
<1> QED
  BY <1>6, <1>8

\* A request that reads the rows of a member.
LEMMA WalkMember ==
  ASSUME GroupInv, NEW c \in Callers, ReadMember(c)
  PROVE  Walk(c)' /\ Found(c)'
<1> DEFINE m == Members[call[c].i]
           got == Merged(c, m)
<1>0. call[c].pc = "rows" /\ call[c].i \in DOMAIN Members /\ m \in Repos \ {Group} /\ TypeOK
      /\ call[c].i \in Nat /\ DOMAIN Members = 1..Len(Members) /\ Len(Members) \in Nat
  BY MemberInRepos, GroupAssumption DEF ReadMember, GroupInv, InOrder, GroupAssumption
<1>1. /\ call'[c].got = got /\ call'[c].want = call[c].want /\ call'[c].op = call[c].op
      /\ call'[c].skipped = call[c].skipped /\ call'[c].i = call[c].i + 1
      /\ call'[c].pc = IF Complete(call[c].op, call[c].want, got) THEN "done" ELSE "member"
  BY <1>0 DEF ReadMember, TypeOK, Call
<1>2. steady' = steady /\ ever' = ever
  BY DEF ReadMember
<1>3. Seen(c)' \subseteq Seen(c) \cup {m}
  <2>1. \A k \in DOMAIN Members : k < call[c].i + 1 => k < call[c].i \/ k = call[c].i
    BY <1>0
  <2> QED
    BY <1>0, <1>1, <2>1 DEF Seen
<1>4. ASSUME NEW r \in Repos, Before(r, m) PROVE r \in Seen(c)
  <2>1. CASE r = Group
    BY <1>0, <2>1 DEF Seen
  <2>2. ASSUME NEW j \in DOMAIN Members, Members[j] = r, m \notin {Members[i] : i \in 1..j}
        PROVE  r \in Seen(c)
    <3>1. j < call[c].i
      BY <1>0, <2>2
    <3> QED
      BY <1>0, <2>2, <3>1 DEF Seen
  <2> QED
    BY <1>4, <2>1, <2>2 DEF Before
<1>5. Walk(c)
  BY DEF GroupInv, WalkInv
<1>6. ASSUME NEW p \in Paths, got[p] # None
      PROVE  /\ <<got[p][1], p, got[p][2]>> \in ever[c]
             /\ \A r \in Repos \ call[c].skipped : Before(r, got[p][1]) => <<r, p>> \notin steady[c]
  <2>1. CASE got[p] = call[c].got[p]
    BY <1>5, <1>6, <2>1 DEF Walk
  <2>2. CASE /\ call[c].got[p] = None /\ p \in call[c].want
             /\ row[m][p] \in Digests /\ got[p] = <<m, row[m][p]>>
    <3>1. <<m, p, row[m][p]>> \in ever[c]
      BY <1>0, <2>2, PresentNow DEF GroupInv
    <3>2. \A r \in Seen(c) \ call[c].skipped : <<r, p>> \notin steady[c]
      BY <1>5, <2>2 DEF Walk
    <3> QED
      BY <1>4, <2>2, <3>1, <3>2
  <2> QED
    BY <1>0, <2>1, <2>2, MergedRow
<1>7. ASSUME NEW p \in Paths, p \in call[c].want, got[p] = None
      PROVE  \A r \in (Seen(c) \cup {m}) \ call[c].skipped : <<r, p>> \notin steady[c]
  <2>1. row[m][p] = None /\ call[c].got[p] = None
    BY <1>0, <1>7, MergedRow
  <2>2. <<m, p>> \notin steady[c]
    BY <1>0, <2>1, MissingNow DEF GroupInv
  <2> QED
    BY <1>5, <1>7, <2>1, <2>2 DEF Walk
<1>8. Walk(c)'
  BY <1>1, <1>2, <1>3, <1>6, <1>7 DEF Walk
<1>9. Found(c)'
  BY <1>1 DEF Found, Done, Complete
<1> QED
  BY <1>8, <1>9

\* A request that turns to its group's members, to the next one or to the rows
\* of one, or ends, without reading rows.
LEMMA WalkOn ==
  ASSUME GroupInv, NEW c \in Callers,
         ReadParent(c) \/ ReadFails(c) \/ GetMember(c) \/ SkipMember(c) \/ EndWalk(c)
  PROVE  Walk(c)' /\ Found(c)'
<1>0. /\ Walk(c) /\ History /\ RowsInRepos /\ TypeOK
      /\ DOMAIN Members = 1..Len(Members) /\ Len(Members) \in Nat
      /\ call[c].pc = "member" \/ call[c].pc = "rows" => call[c].i \in Nat \ {0}
  BY GroupAssumption DEF GroupInv, WalkInv, InOrder, GroupAssumption
<1>1. steady' = steady /\ ever' = ever
  BY DEF ReadParent, ReadFails, GetMember, SkipMember, EndWalk
<1>2. /\ call'[c].got = call[c].got /\ call'[c].want = call[c].want /\ call'[c].op = call[c].op
      /\ call[c].skipped \subseteq call'[c].skipped
  <2> USE <1>0 DEF Goto, TypeOK, Call
  <2>1. CASE ReadParent(c)
    BY <2>1 DEF ReadParent
  <2>2. CASE ReadFails(c)
    BY <2>2 DEF ReadFails
  <2>3. CASE GetMember(c)
    <3>1. CASE Goto(c, "rows")
      BY <3>1
    <3>2. CASE call' = [call EXCEPT ![c].i = @ + 1]
      BY <3>2
    <3> QED
      BY <2>3, <3>1, <3>2 DEF GetMember
  <2>4. CASE SkipMember(c)
    BY <2>4 DEF SkipMember
  <2>5. CASE EndWalk(c)
    BY <2>5 DEF EndWalk
  <2> QED
    BY <2>1, <2>2, <2>3, <2>4, <2>5
<1>3. ASSUME \A p \in Paths : p \in call[c].want /\ call[c].got[p] = None =>
               \A r \in Seen(c)' \ call'[c].skipped : <<r, p>> \notin steady[c]
      PROVE  Walk(c)'
  BY <1>0, <1>1, <1>2, <1>3 DEF Walk
<1>4. ASSUME Seen(c)' \subseteq Seen(c) PROVE Walk(c)'
  BY <1>0, <1>2, <1>3, <1>4 DEF Walk
<1>5. CASE ReadParent(c)
  <2>1. call[c].pc = "parent" /\ call'[c].pc = "member" /\ call'[c].i = 1
    BY <1>0, <1>5 DEF ReadParent, TypeOK, Call
  <2>2. \A k \in DOMAIN Members : ~(k < 1)
    BY <1>0
  <2>3. Seen(c)' \subseteq Seen(c)
    BY <2>1, <2>2 DEF Seen
  <2> QED
    BY <1>4, <2>1, <2>3 DEF Found, Done
<1>6. CASE ReadFails(c)
  <2>1. call'[c].pc = "failed"
    BY <1>0, <1>6 DEF ReadFails, Goto, TypeOK, Call
  <2> QED
    BY <1>4, <2>1 DEF Found, Done, Seen
<1>7. CASE GetMember(c)
  <2>1. /\ call[c].pc = "member" /\ call[c].i \in DOMAIN Members
        /\ call'[c].skipped = call[c].skipped
        /\ \/ call'[c].pc = "rows" /\ call'[c].i = call[c].i
           \/ /\ call'[c].pc = "member" /\ call'[c].i = call[c].i + 1
              /\ Members[call[c].i] \notin exists
    BY <1>0, <1>7 DEF GetMember, Goto, TypeOK, Call
  <2>2. Found(c)'
    BY <2>1 DEF Found, Done
  <2>3. CASE call'[c].pc = "rows" /\ call'[c].i = call[c].i
    BY <1>4, <2>1, <2>2, <2>3 DEF Seen
  <2>4. CASE /\ call'[c].pc = "member" /\ call'[c].i = call[c].i + 1
             /\ Members[call[c].i] \notin exists
    <3>1. \A k \in DOMAIN Members : k < call[c].i + 1 => k < call[c].i \/ k = call[c].i
      BY <1>0, <2>1
    <3>2. Seen(c)' \subseteq Seen(c) \cup {Members[call[c].i]}
      BY <2>1, <2>4, <3>1 DEF Seen
    <3>3. \A p \in Paths : <<Members[call[c].i], p>> \notin steady[c]
      BY <1>0, <2>1, <2>4, MemberInRepos, MissingNow DEF RowsInRepos
    <3> QED
      BY <1>0, <1>3, <2>1, <2>2, <3>2, <3>3 DEF Walk
  <2> QED
    BY <2>1, <2>3, <2>4
<1>8. CASE SkipMember(c)
  <2>1. /\ call[c].pc \in {"member", "rows"} /\ call[c].i \in DOMAIN Members
        /\ call'[c].pc = "member" /\ call'[c].i = call[c].i + 1
        /\ call'[c].skipped = call[c].skipped \cup {Members[call[c].i]}
    BY <1>0, <1>8 DEF SkipMember, TypeOK, Call
  <2>2. \A k \in DOMAIN Members : k < call[c].i + 1 => k < call[c].i \/ k = call[c].i
    BY <1>0, <2>1
  <2>3. Seen(c)' \ call'[c].skipped \subseteq Seen(c) \ call[c].skipped
    BY <2>1, <2>2 DEF Seen
  <2>4. Found(c)'
    BY <2>1 DEF Found, Done
  <2> QED
    BY <1>0, <1>3, <2>3, <2>4 DEF Walk
<1>9. CASE EndWalk(c)
  <2>1. /\ call[c].pc = "member" /\ call[c].i \notin DOMAIN Members
        /\ call'[c].pc = "done" /\ call'[c].skipped = call[c].skipped
    BY <1>0, <1>9 DEF EndWalk, Goto, TypeOK, Call
  <2>2. \A k \in DOMAIN Members : k < call[c].i
    BY <1>0, <2>1
  <2>3. Repos \subseteq Seen(c)
    BY <2>1, <2>2 DEF Seen, Repos
  <2>4. Found(c)'
    BY <1>0, <1>1, <1>2, <2>1, <2>3, GroupInRepos DEF Found, Walk, Done
  <2>5. Walk(c)'
    BY <1>4, <2>1 DEF Seen
  <2> QED
    BY <2>4, <2>5
<1> QED
  BY <1>5, <1>6, <1>7, <1>8, <1>9

\* Every step keeps what every request knows.
LEMMA WalkStep == GroupInv /\ [Next]_vars => WalkInv'
<1> SUFFICES ASSUME GroupInv, [Next]_vars PROVE WalkInv'
  OBVIOUS
<1>0. call \in [Callers -> Call] /\ \A c \in Callers : Walk(c) /\ Found(c)
  BY DEF GroupInv, TypeOK, WalkInv
<1>1. ASSUME UNCHANGED call, \A c \in Callers : ever[c] \subseteq ever'[c] /\ steady'[c] \subseteq steady[c]
      PROVE  WalkInv'
  BY <1>0, <1>1, WalkStays DEF WalkInv
<1>2. ASSUME NEW c \in Callers, Walk(c)' /\ Found(c)',
             \A d \in Callers \ {c} :
               call'[d] = call[d] /\ ever'[d] = ever[d] /\ steady'[d] = steady[d]
      PROVE  WalkInv'
  <2>1. \A d \in Callers \ {c} : Walk(d)' /\ Found(d)'
    BY <1>0, <1>2, WalkStays
  <2> QED
    BY <1>2, <2>1 DEF WalkInv
<1>3. ASSUME NEW r \in Repos, Create(r) PROVE WalkInv'
  BY <1>1, <1>3 DEF Create
<1>4. ASSUME NEW r \in Repos, NEW p \in Paths, DeleteArtifact(r, p) PROVE WalkInv'
  BY <1>1, <1>4 DEF DeleteArtifact, GroupInv, TypeOK
<1>5. ASSUME NEW r \in Repos, NEW p \in Paths, NEW d \in Digests, UpsertArtifact(r, p, d) PROVE WalkInv'
  BY <1>1, <1>5 DEF UpsertArtifact, GroupInv, TypeOK
<1>6. ASSUME NEW c \in Callers, NEW want, NEW op, Begin(c, op, want) PROVE WalkInv'
  <2>1. \A d \in Callers \ {c} :
          call'[d] = call[d] /\ ever'[d] = ever[d] /\ steady'[d] = steady[d]
    BY <1>0, <1>6 DEF Begin, GroupInv, TypeOK
  <2>2. call'[c].pc = "direct" /\ \A p \in Paths : call'[c].got[p] = None
    BY <1>0, <1>6 DEF Begin, NoCall
  <2>3. Walk(c)' /\ Found(c)'
    BY <2>2 DEF Walk, Found, Seen, Done
  <2> QED
    BY <1>2, <2>1, <2>3
<1>7. ASSUME NEW c \in Callers,
             \/ ReadDirect(c) \/ ReadParent(c) \/ ReadFails(c) \/ GetMember(c)
             \/ ReadMember(c) \/ SkipMember(c) \/ EndWalk(c)
      PROVE  WalkInv'
  <2>1. Walk(c)' /\ Found(c)'
    BY <1>7, WalkDirect, WalkMember, WalkOn
  <2>2. ever' = ever /\ steady' = steady
    BY <1>7 DEF ReadDirect, ReadParent, ReadFails, GetMember, ReadMember, SkipMember, EndWalk
  <2>3. \A d \in Callers \ {c} : call'[d] = call[d]
    BY <1>0, <1>7
    DEF ReadDirect, ReadParent, ReadFails, GetMember, ReadMember, SkipMember, EndWalk, Goto
  <2> QED
    BY <1>2, <2>1, <2>2, <2>3
<1>8. ASSUME UNCHANGED vars PROVE WalkInv'
  BY <1>1, <1>8 DEF vars
<1> QED
  BY <1>3, <1>4, <1>5, <1>6, <1>7, <1>8, Cases

-----------------------------------------------------------------------------
\* The invariant is inductive.
THEOREM GroupCorrect == Spec => []GroupInv
<1>1. Init => GroupInv
  BY GroupInit
<1>2. GroupInv /\ [Next]_vars => GroupInv'
  BY TypeStep, HistoryStep, OrderStep, WalkStep DEF GroupInv
<1> QED
  BY <1>1, <1>2, PTL DEF Spec

\* What is answered was in its repository, with that digest, while the request
\* ran (store.go:155-236).
THEOREM AnswerWasThereAlways == Spec => []AnswerWasThere
<1>1. GroupInv => AnswerWasThere
  BY DEF GroupInv, WalkInv, Walk, AnswerWasThere
<1> QED
  BY <1>1, GroupCorrect, PTL

\* No repository before the one that is answered, in the group's order, had the
\* path all the time (README.md:382-383).
THEOREM FirstMemberWinsAlways == Spec => []FirstMemberWins
<1>1. GroupInv => FirstMemberWins
  BY DEF GroupInv, WalkInv, Walk, FirstMemberWins
<1> QED
  BY <1>1, GroupCorrect, PTL

\* A request that finds nothing has missed no artifact that was in the group or
\* a member of it all the time and could be queried (store.go:155-236).
THEOREM FoundIfThereAlways == Spec => []FoundIfThere
<1>1. GroupInv => FoundIfThere
  BY DEF GroupInv, WalkInv, Found, FoundIfThere
<1> QED
  BY <1>1, GroupCorrect, PTL

-----------------------------------------------------------------------------
(* Proxies. *)

LEMMA KindsOfPaths ==
  /\ Proxy \in Repos
  /\ Metadata \subseteq Paths /\ Wheels \subseteq Paths
  /\ Deletable \subseteq Paths /\ Uploaded \subseteq Paths
  /\ Bodies \subseteq Digests
  /\ None \notin Paths /\ None \notin Digests
  BY PullAssumption, GroupAssumption DEF PullAssumption, GroupAssumption, Bodies

-----------------------------------------------------------------------------
(* The invariant: a request knows what it asks for, and what is in a row of   *)
(* metadata came from a client.                                               *)

RequestsKnow ==
  /\ fetch \in [Fetchers -> Fetch]
  /\ \A f \in Fetchers : fetch[f].pc = "file" => fetch[f].path \in Paths

PullInv ==
  /\ row \in [Repos -> [Paths -> Digests \cup {None}]]
  /\ stub \subseteq Wheels
  /\ RequestsKnow
  /\ MetadataNotKept

LEMMA NoFetchType == NoFetch \in Fetch /\ NoFetch.pc = "idle"
  BY DEF NoFetch, Fetch

LEMMA InitPullInv == PullInit => PullInv
  <1> SUFFICES ASSUME PullInit PROVE PullInv
    OBVIOUS
  <1>1. /\ row = [r \in Repos |-> [p \in Paths |-> None]]
        /\ fetch = [f \in Fetchers |-> NoFetch]
        /\ stub = {}
    BY DEF PullInit, Init
  <1>2. row \in [Repos -> [Paths -> Digests \cup {None}]]
    BY <1>1
  <1>3. RequestsKnow
    BY <1>1, NoFetchType DEF RequestsKnow, NoFetch
  <1>4. MetadataNotKept
    BY <1>1, KindsOfPaths DEF MetadataNotKept
  <1> QED BY <1>1, <1>2, <1>3, <1>4 DEF PullInv

\* A request that is given a record of its type leaves the others alone.
LEMMA SetKnows ==
  ASSUME RequestsKnow, NEW f \in Fetchers, NEW r \in Fetch, Set(f, r),
         r.pc = "file" => r.path \in Paths
  PROVE  RequestsKnow'
  BY DEF RequestsKnow, Set

\* What UpsertArtifact does in the proxy.
LEMMA UpsertRow ==
  ASSUME PullInv, NEW p \in Paths, NEW d \in Digests, Upsert(p, d)
  PROVE  /\ [Next]_vars
         /\ row' \in [Repos -> [Paths -> Digests \cup {None}]]
         /\ row'[Proxy][p] = d
         /\ \A q \in Paths \ {p} : row'[Proxy][q] = row[Proxy][q]
  <1>1. CASE row[Proxy][p] = d
    BY <1>1, KindsOfPaths DEF Upsert, vars, PullInv
  <1>2. CASE row[Proxy][p] # d
    <2>1. UpsertArtifact(Proxy, p, d)
      BY <1>2 DEF Upsert
    <2>2. row' = [row EXCEPT ![Proxy][p] = d]
      BY <2>1 DEF UpsertArtifact
    <2>3. Next
      BY <2>1, KindsOfPaths DEF Next, Change
    <2> QED BY <2>2, <2>3, KindsOfPaths DEF PullInv
  <1> QED BY <1>1, <1>2

\* The requests of a proxy, one kind of step at a time.
LEMMA PullCases ==
  ASSUME NEW f \in Fetchers, Pull(f)
  PROVE  \/ \E p \in Paths : AskFile(f, p)
         \/ KeepFile(f)
         \/ EndFile(f) \/ AskPage(f) \/ EndPage(f)
         \/ \E p \in Wheels : RecordLink(f, p)
         \/ \E p \in Wheels : SkipLink(f, p)
  BY DEF Pull

\* A request that passes a link goes on with the others or is over.
LEMMA PassedKnows ==
  ASSUME RequestsKnow, NEW f \in Fetchers, NEW p \in Wheels, Passed(f, p)
  PROVE  /\ RequestsKnow'
         /\ \A g \in Fetchers : g # f => fetch'[g] = fetch[g]
         /\ fetch'[f].todo \subseteq fetch[f].todo
         /\ fetch[f].pc = "page" => fetch'[f].path \in {fetch[f].path, None}
  <1>1. fetch[f] \in Fetch /\ fetch \in [Fetchers -> Fetch]
    BY DEF RequestsKnow
  <1>2. CASE fetch[f].todo = {p}
    <2>1. Set(f, NoFetch)
      BY <1>2 DEF Passed
    <2> QED BY <1>1, <2>1, SetKnows, NoFetchType DEF Set, NoFetch
  <1>3. CASE fetch[f].todo # {p}
    <2> DEFINE r == [fetch[f] EXCEPT !.todo = @ \ {p}]
    <2>1. Set(f, r)
      BY <1>3 DEF Passed
    <2>2. r \in Fetch /\ r.pc = fetch[f].pc /\ r.path = fetch[f].path
          /\ r.todo \subseteq fetch[f].todo
      BY <1>1 DEF Fetch
    <2>3. RequestsKnow'
      BY <2>1, <2>2, SetKnows DEF RequestsKnow
    <2>4. fetch' = [fetch EXCEPT ![f] = r]
      BY <2>1 DEF Set
    <2> HIDE DEF r
    <2> QED BY <1>1, <2>2, <2>3, <2>4
  <1> QED BY <1>2, <1>3


\* A step that leaves the rows alone keeps the invariant if the requests know.
LEMMA RowsAlone ==
  ASSUME PullInv, RequestsKnow', row' = row, stub' = stub, own' = own
  PROVE  PullInv'
  BY DEF PullInv, MetadataNotKept

\* Every step is one of the group, or leaves its variables alone; and keeps the
\* invariant.
LEMMA PullStep ==
  ASSUME PullInv, [PullNext]_allVars
  PROVE  PullInv' /\ [Next]_vars
  <1>1. ASSUME NEW f \in Fetchers, NEW p \in Paths, AskFile(f, p)
        PROVE  PullInv' /\ [Next]_vars
    <2> DEFINE r == [NoFetch EXCEPT !.pc = "file", !.path = p]
    <2>1. r \in Fetch /\ r.path = p
      BY DEF NoFetch, Fetch
    <2>2. RequestsKnow'
      BY <1>1, <2>1, SetKnows DEF AskFile, PullInv
    <2> QED BY <1>1, <2>2, RowsAlone DEF AskFile, vars
  <1>2. ASSUME NEW f \in Fetchers, KeepFile(f)
        PROVE  PullInv' /\ [Next]_vars
    <2> DEFINE p == fetch[f].path
    <2>1. p \in Paths /\ p \notin Metadata
      BY <1>2 DEF KeepFile, PullInv, RequestsKnow
    <2>2. PICK d \in Digests : Upsert(p, d)
      BY <1>2, KindsOfPaths DEF KeepFile
    <2>3. RequestsKnow'
      BY <1>2, SetKnows, NoFetchType DEF KeepFile, PullInv
    <2>4. MetadataNotKept'
      BY <1>2, <2>1, <2>2, UpsertRow, KindsOfPaths DEF KeepFile, PullInv, MetadataNotKept
    <2>5. stub' \subseteq Wheels
      BY <1>2 DEF KeepFile, PullInv
    <2> QED BY <2>1, <2>2, <2>3, <2>4, <2>5, UpsertRow DEF PullInv
  <1>3. ASSUME NEW f \in Fetchers, EndFile(f) \/ AskPage(f) \/ EndPage(f)
        PROVE  PullInv' /\ [Next]_vars
    <2> DEFINE r == [NoFetch EXCEPT !.pc = "page", !.todo = Wheels]
    <2>1. r \in Fetch /\ r.pc = "page"
      BY DEF NoFetch, Fetch
    <2>2. RequestsKnow'
      BY <1>3, <2>1, SetKnows, NoFetchType DEF EndFile, AskPage, EndPage, PullInv
    <2> QED BY <1>3, <2>2, RowsAlone DEF EndFile, AskPage, EndPage, vars
  <1>4. ASSUME NEW f \in Fetchers, NEW p \in Wheels, RecordLink(f, p)
        PROVE  PullInv' /\ [Next]_vars
    <2>1. p \in Paths /\ p \notin Metadata
      BY KindsOfPaths, PullAssumption DEF PullAssumption
    <2>2. PICK d \in Digests : Upsert(p, d)
      BY <1>4 DEF RecordLink
    <2>3. RequestsKnow'
      BY <1>4, PassedKnows DEF RecordLink, PullInv
    <2>4. MetadataNotKept'
      BY <1>4, <2>1, <2>2, UpsertRow, KindsOfPaths DEF RecordLink, PullInv, MetadataNotKept
    <2>5. stub' \subseteq Wheels
      BY <1>4 DEF RecordLink, PullInv
    <2> QED BY <2>1, <2>2, <2>3, <2>4, <2>5, UpsertRow DEF PullInv
  <1>5. ASSUME NEW f \in Fetchers, NEW p \in Wheels, SkipLink(f, p)
        PROVE  PullInv' /\ [Next]_vars
    <2>1. RequestsKnow'
      BY <1>5, PassedKnows DEF SkipLink, PullInv
    <2> QED BY <1>5, <2>1, RowsAlone DEF SkipLink, vars
  <1>6. ASSUME NEW r \in Repos, NEW p \in Uploaded, NEW d \in Bodies, Upload(r, p, d)
        PROVE  PullInv' /\ [Next]_vars
    <2>1. UpsertArtifact(r, p, d) /\ p \in Paths /\ d \in Digests
      BY <1>6, KindsOfPaths DEF Upload
    <2>2. row' = [row EXCEPT ![r][p] = d]
      BY <2>1 DEF UpsertArtifact
    <2>3. MetadataNotKept'
      BY <1>6, <2>1, <2>2, KindsOfPaths DEF Upload, PullInv, MetadataNotKept
    <2>4. RequestsKnow' /\ stub' \subseteq Wheels
      BY <1>6 DEF Upload, PullInv, RequestsKnow
    <2>5. row' \in [Repos -> [Paths -> Digests \cup {None}]]
      BY <2>1, <2>2 DEF PullInv
    <2>6. Next
      BY <2>1 DEF Next, Change
    <2> QED BY <2>3, <2>4, <2>5, <2>6 DEF PullInv
  <1>7. ASSUME NEW r \in Repos, Create(r), UNCHANGED pullVars
        PROVE  PullInv' /\ [Next]_vars
    <2>1. RequestsKnow'
      BY <1>7 DEF pullVars, PullInv, RequestsKnow
    <2> QED BY <1>7, <2>1, RowsAlone DEF Create, pullVars, Next, Change
  <1>8. ASSUME NEW r \in Repos, NEW p \in Deletable, DeleteArtifact(r, p), UNCHANGED pullVars
        PROVE  PullInv' /\ [Next]_vars
    <2>1. p \in Paths /\ row' = [row EXCEPT ![r][p] = None]
      BY <1>8, KindsOfPaths DEF DeleteArtifact
    <2>2. RequestsKnow' /\ MetadataNotKept'
      BY <1>8, <2>1, KindsOfPaths DEF pullVars, PullInv, RequestsKnow, MetadataNotKept
    <2>3. Next
      BY <1>8, <2>1 DEF Next, Change
    <2>4. row' \in [Repos -> [Paths -> Digests \cup {None}]] /\ stub' = stub
      BY <1>8, <2>1 DEF pullVars, PullInv
    <2> QED BY <2>2, <2>3, <2>4 DEF PullInv
  <1>9. CASE Crash
    <2>1. RequestsKnow'
      BY <1>9, NoFetchType DEF Crash, RequestsKnow, NoFetch
    <2> QED BY <1>9, <2>1, RowsAlone DEF Crash, vars
  <1>10. ASSUME NEW c \in Callers, Request(c), UNCHANGED pullVars
         PROVE  PullInv' /\ [Next]_vars
    <2>1. row' = row
      BY <1>10 DEF Request, Begin, ReadDirect, ReadParent, ReadFails, GetMember,
                   ReadMember, SkipMember, EndWalk
    <2>2. RequestsKnow'
      BY <1>10 DEF pullVars, PullInv, RequestsKnow
    <2> QED BY <1>10, <2>1, <2>2, RowsAlone DEF pullVars, Next
  <1>11. CASE UNCHANGED allVars
    <2>1. RequestsKnow'
      BY <1>11 DEF allVars, pullVars, PullInv, RequestsKnow
    <2> QED BY <1>11, <2>1, RowsAlone DEF allVars, pullVars, vars
  <1>14. CASE Collect
    <2>1. RequestsKnow'
      BY <1>14 DEF Collect, PullInv, RequestsKnow
    <2> QED BY <1>14, <2>1, RowsAlone DEF Collect, vars
  <1>12. CASE \E f \in Fetchers : Pull(f)
    BY <1>1, <1>2, <1>3, <1>4, <1>5, <1>12, PullCases
  <1>13. CASE Around
    BY <1>6, <1>7, <1>8, <1>9, <1>13, <1>14 DEF Around
  <1> QED BY <1>10, <1>11, <1>12, <1>13 DEF PullNext

LEMMA PullInvariance == PullSpec => []PullInv
  <1>1. PullInv /\ [PullNext]_allVars => PullInv'
    BY PullStep
  <1> QED BY <1>1, InitPullInv, PTL DEF PullSpec

-----------------------------------------------------------------------------
(* Pages: who has recorded p and not q will record q, unless it is cut off.   *)

PageInv ==
  /\ \A p \in stub : row[Proxy][p] # None
  /\ \A f \in Fetchers : fetch[f].pc = "file" /\ fetch[f].path \in Wheels =>
                           row[Proxy][fetch[f].path] # None
  /\ ~cut => \A f \in Fetchers, p \in Wheels :
               fetch[f].pc = "page" /\ p \notin fetch[f].todo => row[Proxy][p] # None
  /\ ~cut /\ own \cap Wheels = {} =>
       \A p, q \in Wheels :
         row[Proxy][p] # None /\ row[Proxy][q] = None =>
           \E f \in Fetchers : fetch[f].pc = "page" /\ q \in fetch[f].todo /\ p \notin fetch[f].todo

LEMMA InitPageInv == PullInit => PageInv
  <1> SUFFICES ASSUME PullInit PROVE PageInv
    OBVIOUS
  <1>1. /\ row = [r \in Repos |-> [p \in Paths |-> None]]
        /\ fetch = [f \in Fetchers |-> NoFetch]
        /\ stub = {}
    BY DEF PullInit, Init
  <1>2. \A p \in Wheels : row[Proxy][p] = None
    BY <1>1, KindsOfPaths
  <1>3. \A f \in Fetchers : fetch[f].pc = "idle"
    BY <1>1, NoFetchType
  <1> QED BY <1>1, <1>2, <1>3 DEF PageInv

\* Rows of wheels only come, and a request that records p keeps every q without
\* a row on its list.
LEMMA PageStep ==
  ASSUME PullInv, PageInv, [PullNext]_allVars
  PROVE  PageInv'
  <1>0. /\ fetch \in [Fetchers -> Fetch]
        /\ Proxy \in Repos /\ None \notin Digests /\ Bodies \subseteq Digests
        /\ Wheels \subseteq Paths /\ stub \subseteq Wheels
    BY KindsOfPaths DEF PullInv, RequestsKnow
  <1>1. ASSUME NEW f \in Fetchers, NEW p \in Paths, AskFile(f, p) PROVE PageInv'
    <2> DEFINE r == [NoFetch EXCEPT !.pc = "file", !.path = p]
    <2>1. fetch' = [fetch EXCEPT ![f] = r] /\ UNCHANGED <<row, stub, own, cut>>
          /\ fetch[f].pc = "idle" /\ (p \in Wheels => p \in stub)
      BY <1>1 DEF AskFile, Set, vars
    <2>2. r.pc = "file" /\ r.path = p
      BY DEF NoFetch
    <2> HIDE DEF r
    <2>3. /\ fetch'[f].pc = "file" /\ fetch'[f].path = p
          /\ \A g \in Fetchers \ {f} : fetch'[g] = fetch[g]
      BY <1>0, <2>1, <2>2
    <2> QED BY <2>1, <2>3 DEF PageInv
  <1>2. ASSUME NEW f \in Fetchers, KeepFile(f) PROVE PageInv'
    <2> DEFINE x == fetch[f].path
    <2>1. /\ fetch' = [fetch EXCEPT ![f] = NoFetch] /\ stub' \subseteq stub \cup {x}
          /\ UNCHANGED <<own, cut>> /\ fetch[f].pc = "file" /\ x \in Paths
      BY <1>2 DEF KeepFile, Set, PullInv, RequestsKnow
    <2>2. PICK d \in Digests : Upsert(x, d)
      BY <1>0, <1>2 DEF KeepFile
    <2>3. /\ row'[Proxy][x] # None
          /\ \A p \in Paths \ {x} : row'[Proxy][p] = row[Proxy][p]
      BY <1>0, <2>1, <2>2, UpsertRow
    <2>4. x \in Wheels => row[Proxy][x] # None
      BY <2>1 DEF PageInv
    <2>5. \A p \in Wheels : row'[Proxy][p] = None <=> row[Proxy][p] = None
      BY <1>0, <2>3, <2>4
    <2>6. /\ fetch'[f].pc = "idle"
          /\ \A g \in Fetchers \ {f} : fetch'[g] = fetch[g]
      BY <1>0, <2>1, NoFetchType
    <2>7. \A q \in stub' : row'[Proxy][q] # None
      BY <1>0, <2>1, <2>3, <2>5 DEF PageInv
    <2> QED BY <1>0, <2>1, <2>5, <2>6, <2>7 DEF PageInv
  <1>3. ASSUME NEW f \in Fetchers, EndFile(f) \/ EndPage(f) PROVE PageInv'
    <2>1. /\ fetch' = [fetch EXCEPT ![f] = NoFetch] /\ UNCHANGED <<row, stub, own, cut>>
          /\ fetch[f].pc = "page" => fetch[f].todo = Wheels
      BY <1>3 DEF EndFile, EndPage, Set, vars
    <2>2. /\ fetch'[f].pc = "idle"
          /\ \A g \in Fetchers \ {f} : fetch'[g] = fetch[g]
      BY <1>0, <2>1, NoFetchType
    <2> QED BY <2>1, <2>2 DEF PageInv
  <1>4. ASSUME NEW f \in Fetchers, AskPage(f) PROVE PageInv'
    <2> DEFINE r == [NoFetch EXCEPT !.pc = "page", !.todo = Wheels]
    <2>1. fetch' = [fetch EXCEPT ![f] = r] /\ UNCHANGED <<row, stub, own, cut>>
          /\ fetch[f].pc = "idle"
      BY <1>4 DEF AskPage, Set, vars
    <2>2. r.pc = "page" /\ r.todo = Wheels
      BY DEF NoFetch
    <2> HIDE DEF r
    <2>3. /\ fetch'[f].pc = "page" /\ fetch'[f].todo = Wheels
          /\ \A g \in Fetchers \ {f} : fetch'[g] = fetch[g]
      BY <1>0, <2>1, <2>2
    <2> QED BY <2>1, <2>3 DEF PageInv
  <1>5. ASSUME NEW f \in Fetchers, NEW w \in Wheels, RecordLink(f, w) PROVE PageInv'
    <2>1. /\ fetch[f].pc = "page" /\ w \in fetch[f].todo /\ w \in Paths
          /\ stub' = stub \cup {w} /\ Passed(f, w) /\ UNCHANGED <<own, cut>>
      BY <1>0, <1>5 DEF RecordLink
    <2>2. PICK d \in Digests : Upsert(w, d)
      BY <1>5 DEF RecordLink
    <2>3. /\ row'[Proxy][w] # None
          /\ \A p \in Paths \ {w} : row'[Proxy][p] = row[Proxy][p]
      BY <1>0, <2>1, <2>2, UpsertRow
    <2>4. \A g \in Fetchers \ {f} : fetch'[g] = fetch[g]
      BY <2>1, PassedKnows DEF PullInv
    <2>5. \/ fetch[f].todo = {w} /\ fetch'[f].pc = "idle"
          \/ fetch'[f].pc = "page" /\ fetch'[f].todo = fetch[f].todo \ {w}
      BY <1>0, <2>1, NoFetchType DEF Passed, Set, Fetch
    <2>6. ASSUME ~cut, NEW q \in Wheels, row'[Proxy][q] = None
          PROVE  q # w /\ row[Proxy][q] = None /\ q \in fetch'[f].todo
                 /\ fetch'[f].pc = "page" /\ w \notin fetch'[f].todo
      <3>1. q # w /\ row[Proxy][q] = None
        BY <1>0, <2>3, <2>6
      <3>2. q \in fetch[f].todo
        BY <2>1, <2>6, <3>1 DEF PageInv
      <3> QED BY <2>5, <3>1, <3>2
    <2>7. ASSUME ~cut, own \cap Wheels = {}, NEW p \in Wheels, NEW q \in Wheels,
                 row'[Proxy][p] # None, row'[Proxy][q] = None
          PROVE  \E g \in Fetchers :
                   fetch'[g].pc = "page" /\ q \in fetch'[g].todo /\ p \notin fetch'[g].todo
      <3>1. CASE p = w
        BY <2>6, <2>7, <3>1
      <3>2. CASE p # w
        <4>1. row[Proxy][p] # None /\ row[Proxy][q] = None
          BY <1>0, <2>3, <2>6, <2>7, <3>2
        <4>2. PICK g \in Fetchers : /\ fetch[g].pc = "page"
                                    /\ q \in fetch[g].todo /\ p \notin fetch[g].todo
          BY <2>7, <4>1 DEF PageInv
        <4>3. CASE g = f
          BY <2>5, <2>6, <2>7, <4>2, <4>3
        <4>4. CASE g # f
          BY <2>4, <4>2, <4>4
        <4> QED BY <4>3, <4>4
      <3> QED BY <3>1, <3>2
    <2>8. \A g \in Fetchers : fetch'[g].pc = "file" /\ fetch'[g].path \in Wheels =>
                              row'[Proxy][fetch'[g].path] # None
      BY <1>0, <2>3, <2>4, <2>5 DEF PageInv
    <2>9. ~cut => \A g \in Fetchers, p \in Wheels :
                    fetch'[g].pc = "page" /\ p \notin fetch'[g].todo => row'[Proxy][p] # None
      BY <1>0, <2>3, <2>4, <2>6 DEF PageInv
    <2>10. \A p \in stub' : row'[Proxy][p] # None
      BY <1>0, <2>1, <2>3 DEF PageInv
    <2> QED BY <2>1, <2>7, <2>8, <2>9, <2>10 DEF PageInv
  <1>6. ASSUME NEW f \in Fetchers, NEW w \in Wheels, SkipLink(f, w) PROVE PageInv'
    <2>1. /\ fetch[f].pc = "page" /\ Passed(f, w) /\ cut' /\ row' = row /\ stub' = stub
      BY <1>6 DEF SkipLink, vars
    <2>2. \A g \in Fetchers \ {f} : fetch'[g] = fetch[g]
      BY <2>1, PassedKnows DEF PullInv
    <2>3. fetch'[f].pc \in {"idle", "page"}
      BY <1>0, <2>1, NoFetchType DEF Passed, Set, Fetch
    <2> QED BY <2>1, <2>2, <2>3 DEF PageInv
  <1>7. ASSUME NEW r \in Repos, NEW x \in Uploaded, NEW d \in Bodies, Upload(r, x, d)
        PROVE  PageInv'
    <2>1. /\ row' = [row EXCEPT ![r][x] = d] /\ UNCHANGED <<fetch, cut>> /\ d # None
          /\ own \subseteq own' /\ (r = Proxy => x \in own') /\ stub' \subseteq stub
      BY <1>0, <1>7 DEF Upload, UpsertArtifact
    <2>2. \A p \in Paths : row'[Proxy][p] = IF r = Proxy /\ p = x THEN d ELSE row[Proxy][p]
      BY <1>0, <2>1, KindsOfPaths DEF PullInv
    <2>3. \A p \in Paths : row[Proxy][p] # None => row'[Proxy][p] # None
      BY <2>1, <2>2
    <2>4. own' \cap Wheels = {} => own \cap Wheels = {} /\ ~(r = Proxy /\ x \in Wheels)
      BY <2>1
    <2>5. own' \cap Wheels = {} => \A p \in Wheels : row'[Proxy][p] = row[Proxy][p]
      BY <1>0, <2>2, <2>4
    <2>6. \A p \in stub' : row'[Proxy][p] # None
      BY <1>0, <2>1, <2>3 DEF PageInv
    <2>7. \A f \in Fetchers : fetch'[f].pc = "file" /\ fetch'[f].path \in Wheels =>
                              row'[Proxy][fetch'[f].path] # None
      BY <1>0, <2>1, <2>3 DEF PageInv
    <2>8. ~cut' => \A f \in Fetchers, p \in Wheels :
                     fetch'[f].pc = "page" /\ p \notin fetch'[f].todo => row'[Proxy][p] # None
      BY <1>0, <2>1, <2>3 DEF PageInv
    <2>9. ~cut' /\ own' \cap Wheels = {} =>
            \A p, q \in Wheels :
              row'[Proxy][p] # None /\ row'[Proxy][q] = None =>
                \E f \in Fetchers : /\ fetch'[f].pc = "page"
                                    /\ q \in fetch'[f].todo /\ p \notin fetch'[f].todo
      BY <2>1, <2>4, <2>5 DEF PageInv
    <2> QED BY <2>6, <2>7, <2>8, <2>9 DEF PageInv
  <1>8. ASSUME NEW r \in Repos, NEW x \in Deletable, DeleteArtifact(r, x), UNCHANGED pullVars
        PROVE  PageInv'
    <2>1. x \in Paths \ Wheels /\ row' = [row EXCEPT ![r][x] = None]
          /\ UNCHANGED <<fetch, cut, own, stub>>
      BY <1>8, KindsOfPaths, PullAssumption DEF PullAssumption, DeleteArtifact, pullVars
    <2>2. \A p \in Wheels : row'[Proxy][p] = row[Proxy][p]
      BY <1>0, <2>1 DEF PullInv
    <2> QED BY <1>0, <2>1, <2>2 DEF PageInv
  <1>9. CASE Crash
    <2>1. /\ fetch' = [f \in Fetchers |-> NoFetch] /\ UNCHANGED <<row, stub, own>>
          /\ cut' = (cut \/ \E f \in Fetchers : fetch[f].pc = "page" /\ fetch[f].todo # Wheels)
      BY <1>9 DEF Crash, vars
    <2>2. \A f \in Fetchers : fetch'[f].pc = "idle"
      BY <2>1, NoFetchType
    <2>3. ~cut' /\ own \cap Wheels = {} =>
            \A p, q \in Wheels : row[Proxy][p] # None => row[Proxy][q] # None
      <3> SUFFICES ASSUME ~cut', own \cap Wheels = {}, NEW p \in Wheels, NEW q \in Wheels,
                          row[Proxy][p] # None, row[Proxy][q] = None
                   PROVE  FALSE
        OBVIOUS
      <3>1. ~cut /\ \A f \in Fetchers : fetch[f].pc = "page" => fetch[f].todo = Wheels
        BY <2>1
      <3>2. PICK f \in Fetchers : fetch[f].pc = "page" /\ p \notin fetch[f].todo
        BY <3>1 DEF PageInv
      <3> QED BY <3>1, <3>2
    <2> QED BY <2>1, <2>2, <2>3 DEF PageInv
  <1>10. ASSUME UNCHANGED <<row, pullVars>> PROVE PageInv'
    BY <1>10 DEF pullVars, PageInv
  <1>16. CASE Collect
    BY <1>16 DEF Collect, vars, PageInv
  <1>11. ASSUME NEW c \in Callers, Request(c), UNCHANGED pullVars PROVE PageInv'
    BY <1>10, <1>11 DEF Request, Begin, ReadDirect, ReadParent, ReadFails, GetMember,
                        ReadMember, SkipMember, EndWalk
  <1>12. ASSUME NEW r \in Repos, Create(r), UNCHANGED pullVars PROVE PageInv'
    BY <1>10, <1>12 DEF Create
  <1>13. CASE UNCHANGED allVars
    BY <1>10, <1>13 DEF allVars, vars
  <1>14. CASE \E f \in Fetchers : Pull(f)
    BY <1>1, <1>2, <1>3, <1>4, <1>5, <1>6, <1>14, PullCases
  <1>15. CASE Around
    BY <1>7, <1>8, <1>9, <1>12, <1>15, <1>16 DEF Around
  <1> QED BY <1>11, <1>13, <1>14, <1>15 DEF PullNext

\* As long as nothing cuts a page's recording off, and but for requests that are
\* still at it, a package has the rows of all of its links or none.
THEOREM PagesWhole == PullSpec => []PagesAreWhole
  <1>1. PageInv => PagesAreWhole
    BY DEF PageInv, PagesAreWhole
  <1>2. PullInv /\ PageInv /\ [PullNext]_allVars => PageInv'
    BY PageStep
  <1> QED BY <1>1, <1>2, InitPageInv, PullInvariance, PTL DEF PullSpec

-----------------------------------------------------------------------------
\* A group with a proxy among its members behaves as one whose rows come from
\* uploads and deletions alone (proxy.go of every format calls UpsertArtifact).
THEOREM ProxyIsAMember == PullSpec => Spec
  <1>1. PullInit => Init
    BY DEF PullInit
  <1>2. PullInv /\ [PullNext]_allVars => [Next]_vars
    BY PullStep
  <1> QED BY <1>1, <1>2, PullInvariance, PTL DEF PullSpec, Spec

\* So requests to the group are answered as GroupResolve has it.
THEOREM GroupsOfProxies == PullSpec => [](AnswerWasThere /\ FirstMemberWins /\ FoundIfThere)
  BY ProxyIsAMember, AnswerWasThereAlways, FirstMemberWinsAlways, FoundIfThereAlways, PTL

\* maven-metadata.xml is never in a row that the proxy has written.
THEOREM MetadataNeverKept == PullSpec => []MetadataNotKept
  <1>1. PullInv => MetadataNotKept
    BY DEF PullInv
  <1> QED BY <1>1, PullInvariance, PTL

-----------------------------------------------------------------------------
(* Files: as long as the upstream agrees with itself on a wheel's digest, that *)
(* is what its row has, as a stub and as a file, and once it was fetched the   *)
(* store has it.                                                               *)

Agreed(p) == voice[p] # Unstated

ServedInv ==
  /\ voice \in [Wheels -> Digests \cup {None}]
  /\ had \subseteq Wheels
  /\ \A p \in had : voice[p] # None
  /\ \A p \in Wheels \ own : Agreed(p) => row[Proxy][p] = voice[p]
  /\ \A p \in had \ own : Agreed(p) => voice[p] \in stored

LEMMA InitServedInv == PullInit => ServedInv
  <1> SUFFICES ASSUME PullInit PROVE ServedInv
    OBVIOUS
  <1>1. row[Proxy] = [p \in Paths |-> None] /\ had = {} /\ voice = [p \in Wheels |-> None]
    BY KindsOfPaths DEF PullInit, Init
  <1> QED BY <1>1, KindsOfPaths DEF ServedInv, Agreed

\* What the upstream tells, if it agrees with what it told before.
LEMMA HearAgrees ==
  ASSUME ServedInv, NEW p \in Wheels, NEW d \in Digests, Hear(p, d)
  PROVE  /\ voice' \in [Wheels -> Digests \cup {None}]
         /\ voice'[p] # None
         /\ Agreed(p)' => voice'[p] = d /\ voice[p] \in {None, d} /\ Agreed(p)
         /\ \A q \in Wheels \ {p} : voice'[q] = voice[q]
  <1>1. Unstated # None /\ None \notin Digests /\ Unstated \in Digests \cup {Unstated}
    BY PullAssumption, KindsOfPaths DEF PullAssumption
  <1>2. voice' = [voice EXCEPT ![p] = IF @ \in {None, d} THEN d ELSE Unstated]
    BY DEF Hear
  <1>3. voice'[p] = IF voice[p] \in {None, d} THEN d ELSE Unstated
    BY <1>2 DEF ServedInv
  <1>4. Unstated \in Digests
    BY PullAssumption DEF PullAssumption
  <1> QED BY <1>1, <1>2, <1>3, <1>4 DEF ServedInv, Agreed

\* A step that tells nothing, keeps the rows of the wheels that no client has
\* uploaded and takes no body of theirs out of the store.
LEMMA Unheard ==
  ASSUME ServedInv, UNCHANGED heard, own \subseteq own',
         \A p \in Wheels \ own' : row'[Proxy][p] = row[Proxy][p],
         \A p \in had \ own : Agreed(p) => voice[p] \in stored'
  PROVE  ServedInv'
  BY DEF ServedInv, Agreed, heard

LEMMA ServedStep ==
  ASSUME PullInv, ServedInv, [PullNext]_allVars
  PROVE  ServedInv'
  <1>0. Bodies \subseteq Digests /\ Wheels \subseteq Paths /\ Proxy \in Repos
    BY KindsOfPaths
  <1>1. ASSUME NEW f \in Fetchers, KeepFile(f) PROVE ServedInv'
    <2>0. PICK p \in Paths : p = fetch[f].path
      BY <1>1 DEF KeepFile, PullInv, RequestsKnow
    <2>1. PICK b \in Bodies : Upsert(p, b) /\ stored' = stored \cup {b} /\ Hear(p, b)
      BY <1>1, <2>0 DEF KeepFile
    <2>2. own' = own /\ had' = had \cup ({p} \cap Wheels)
      BY <1>1, <2>0 DEF KeepFile
    <2>3. row'[Proxy][p] = b /\ \A q \in Paths \ {p} : row'[Proxy][q] = row[Proxy][q]
      BY <1>0, <2>1, <2>2, UpsertRow
    <2>4. CASE p \in Wheels
      <3>1. /\ voice' \in [Wheels -> Digests \cup {None}]
            /\ voice'[p] # None
            /\ Agreed(p)' => voice'[p] = b
            /\ \A q \in Wheels \ {p} : voice'[q] = voice[q]
        BY <1>0, <2>1, <2>4, HearAgrees
      <3> QED BY <1>0, <2>1, <2>2, <2>3, <2>4, <3>1 DEF ServedInv, Agreed
    <2>5. CASE p \notin Wheels
      <3>1. UNCHANGED heard
        BY <2>1, <2>2, <2>5 DEF Hear, heard
      <3> QED BY <1>0, <2>1, <2>2, <2>3, <2>5, <3>1, Unheard DEF ServedInv
    <2> QED BY <2>4, <2>5
  <1>2. ASSUME NEW f \in Fetchers, NEW p \in Wheels, RecordLink(f, p) PROVE ServedInv'
    <2>1. PICK d \in Digests : Upsert(p, d) /\ Hear(p, d)
      BY <1>2 DEF RecordLink
    <2>2. own' = own /\ had' = had /\ stored' = stored
      BY <1>2 DEF RecordLink
    <2>3. row'[Proxy][p] = d /\ \A q \in Paths \ {p} : row'[Proxy][q] = row[Proxy][q]
      BY <1>0, <2>1, UpsertRow
    <2>4. /\ voice' \in [Wheels -> Digests \cup {None}]
          /\ voice'[p] # None
          /\ Agreed(p)' => voice'[p] = d /\ voice[p] \in {None, d} /\ Agreed(p)
          /\ \A q \in Wheels \ {p} : voice'[q] = voice[q]
      BY <2>1, HearAgrees
    <2> QED BY <1>0, <2>2, <2>3, <2>4 DEF ServedInv, Agreed
  <1>3. ASSUME NEW r \in Repos, NEW p \in Uploaded, NEW d \in Bodies, Upload(r, p, d)
        PROVE  ServedInv'
    <2>1. /\ row' = [row EXCEPT ![r][p] = d] /\ UNCHANGED heard /\ stored \subseteq stored'
          /\ own' = IF r = Proxy THEN own \cup {p} ELSE own
      BY <1>3 DEF Upload, UpsertArtifact, heard
    <2>2. \A q \in Wheels \ own' : row'[Proxy][q] = row[Proxy][q]
      BY <1>0, <2>1 DEF PullInv
    <2> QED BY <2>1, <2>2, Unheard DEF ServedInv
  <1>4. ASSUME NEW r \in Repos, NEW x \in Deletable, DeleteArtifact(r, x), UNCHANGED pullVars
        PROVE  ServedInv'
    <2>1. x \in Paths \ Wheels /\ row' = [row EXCEPT ![r][x] = None]
          /\ UNCHANGED <<own, stored, heard>>
      BY <1>4, KindsOfPaths, PullAssumption DEF PullAssumption, DeleteArtifact, pullVars
    <2>2. \A q \in Wheels : row'[Proxy][q] = row[Proxy][q]
      BY <1>0, <2>1 DEF PullInv
    <2> QED BY <2>1, <2>2, Unheard DEF ServedInv
  <1>5. CASE Collect
    <2>1. UNCHANGED <<row, own, heard>>
          /\ stored' = stored \cap {row[r][p] : r \in Repos, p \in Paths}
      BY <1>5 DEF Collect, vars
    <2>2. \A p \in had \ own : Agreed(p) => voice[p] \in stored'
      BY <1>0, <2>1 DEF ServedInv
    <2> QED BY <2>1, <2>2, Unheard
  <1>6. ASSUME UNCHANGED <<row, own, stored, heard>> PROVE ServedInv'
    BY <1>6, Unheard DEF ServedInv
  <1>7. ASSUME NEW f \in Fetchers,
               \/ EndFile(f) \/ AskPage(f) \/ EndPage(f)
               \/ \E p \in Paths : AskFile(f, p)
               \/ \E p \in Wheels : SkipLink(f, p)
        PROVE  ServedInv'
    BY <1>6, <1>7 DEF EndFile, AskPage, EndPage, AskFile, SkipLink, vars
  <1>8. ASSUME NEW c \in Callers, Request(c), UNCHANGED pullVars PROVE ServedInv'
    BY <1>6, <1>8 DEF pullVars, Request, Begin, ReadDirect, ReadParent, ReadFails, GetMember,
                      ReadMember, SkipMember, EndWalk
  <1>9. ASSUME NEW r \in Repos, Create(r), UNCHANGED pullVars PROVE ServedInv'
    BY <1>6, <1>9 DEF Create, pullVars
  <1>10. CASE Crash \/ UNCHANGED allVars
    BY <1>6, <1>10 DEF Crash, allVars, pullVars, vars
  <1>11. CASE \E f \in Fetchers : Pull(f)
    BY <1>1, <1>2, <1>7, <1>11, PullCases
  <1>12. CASE Around
    BY <1>3, <1>4, <1>5, <1>9, <1>10, <1>12 DEF Around
  <1> QED BY <1>8, <1>10, <1>11, <1>12 DEF PullNext

\* A file that was fetched once is in the store under the digest of its row,
\* whatever requests, deaths and collections follow, as long as the upstream's
\* links and bodies agree on it (pypi/proxy.go:95-165, gc.go:53-113).
THEOREM FetchedOnceServedAlways == PullSpec => []OnceFetchedServed
  <1>1. ServedInv => OnceFetchedServed
    BY DEF ServedInv, OnceFetchedServed, Agreed
  <1>2. PullInv /\ ServedInv /\ [PullNext]_allVars => ServedInv'
    BY ServedStep
  <1> QED BY <1>1, <1>2, InitServedInv, PullInvariance, PTL DEF PullSpec
=============================================================================
