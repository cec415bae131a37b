------------------------------ MODULE AuditLog ------------------------------
(***************************************************************************)
(* The audit log (internal/audit) and a client that pages through it with  *)
(* GET /api/audit?before= (internal/api/audit.go). Write inserts one row,  *)
(* stamped by the clock of the process that writes it before the statement *)
(* waits for the database, so rows do not arrive in the order of their     *)
(* times; List answers the latest rows strictly before a time, at most a   *)
(* page of them, in no particular order among rows of equal time.          *)
(*                                                                         *)
(* Rows are numbered in the order of their insertion. What a row says of   *)
(* its event is left out: nothing but its time decides what a page holds.  *)
(***************************************************************************)
EXTENDS Naturals, Sequences, FiniteSets

CONSTANTS
  PageSize,    \* rows of a page, 100 in handleListAudit
  MaxTime,     \* bound on the times
  MaxRecords   \* bound on the rows

ASSUME AuditAssumption ==
  /\ PageSize \in Nat \ {0}
  /\ MaxTime \in Nat \ {0}
  /\ MaxRecords \in Nat

VARIABLES
  log,    \* log[i]: created_at of the i-th row inserted into audit_log
  pager   \* the client: its cursor, and the rows there were when it began that
          \* it has not seen, but for those of the time of a cursor it has used

auditVars == <<log, pager>>

-----------------------------------------------------------------------------
\* No cursor: the first page.
Start == 0

NoPager == [pc |-> "idle", before |-> Start, missing |-> {}]

\* Writer.Write.
Write ==
  /\ Len(log) < MaxRecords
  /\ \E at \in 1..MaxTime : log' = Append(log, at)
  /\ UNCHANGED pager

\* Reader.List: WHERE created_at < before, if there is one.
Matching(before) == {i \in DOMAIN log : before = Start \/ log[i] < before}

\* Mutant of IsPage: the earliest rows come first.
IsPageAscending(S, before) ==
  LET rows == Matching(before) IN
  /\ S \subseteq rows
  /\ IF Cardinality(rows) <= PageSize THEN S = rows ELSE Cardinality(S) = PageSize
  /\ \A i \in S, j \in rows \ S : log[i] <= log[j]

\* ORDER BY created_at DESC LIMIT: no row left out is later than one of the page.
IsPage(S, before) ==
  LET rows == Matching(before) IN
  /\ S \subseteq rows
  /\ IF Cardinality(rows) <= PageSize THEN S = rows ELSE Cardinality(S) = PageSize
  /\ \A i \in S, j \in rows \ S : log[i] >= log[j]

\* i is a last row of page S.
IsLast(i, S) == i \in S /\ \A j \in S : log[i] <= log[j]

\* The client asks for the page before the last row it has, and is at the end
\* when a page is not full.
NextPage(S) ==
  LET begins == pager.pc # "paging"
      unseen == (IF begins THEN DOMAIN log ELSE pager.missing) \ S
  IN
  /\ IsPage(S, IF begins THEN Start ELSE pager.before)
  /\ IF Cardinality(S) = PageSize
     THEN \E i \in DOMAIN log :
            /\ IsLast(i, S)
            /\ pager' = [pc |-> "paging", before |-> log[i],
                         missing |-> {j \in unseen : log[j] # log[i]}]
     ELSE pager' = [pc |-> "end", before |-> Start, missing |-> unseen]
  /\ UNCHANGED log

-----------------------------------------------------------------------------
AuditInit ==
  /\ log = <<>>
  /\ pager = NoPager

AuditTypeOK ==
  /\ log \in Seq(1..MaxTime)
  /\ Len(log) <= MaxRecords
  /\ pager \in [pc: {"idle", "paging", "end"}, before: 0..MaxTime,
                missing: SUBSET (1..MaxRecords)]

-----------------------------------------------------------------------------
(* Properties. *)

\* A client that has paged to the end has seen every row that was there when it
\* began, whatever is written meanwhile and however late it is stamped, but for
\* rows of the very time of a cursor: the comparison is strict, and the page
\* that ends at that time may have had no room for them
\* (audit/store.go:39-56, "lets the admin UI page through them").
PagesMissOnlyTies == pager.pc = "end" => pager.missing = {}
=============================================================================
