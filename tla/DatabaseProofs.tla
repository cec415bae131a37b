--------------------------- MODULE DatabaseProofs ---------------------------
(***************************************************************************)
(* Proofs about the database file: Migrations, for any number of           *)
(* migrations, any set of processes and any number of deaths, and Backup,  *)
(* for any number of blobs.                                                *)
(*                                                                         *)
(* Tables are never dropped, so what a process no longer has on its list   *)
(* has its tables for good: that is Behind, which makes the order and the  *)
(* completeness of the schema inductive. As long as no two processes have  *)
(* migrated together, what one has on its list is also not recorded: that  *)
(* is Sole, which the no-op rests on.                                      *)
(*                                                                         *)
(* What a restore gives back rests on what the archive says of the moment  *)
(* its backup began: BackupFaithful holds while it is copied,              *)
(* ArchiveFaithful once it is done, RestoreFaithful while it is given      *)
(* back, each with the exceptions the history names.                       *)
(***************************************************************************)
EXTENDS Migrations, Backup, FiniteSetTheorems, TLAPS

-----------------------------------------------------------------------------
(* Migrations. *)

\* What p has read and does not have to do, or has done, is there.
Behind ==
  \A p \in Processes :
    proc[p].pc \in {"apply", "mark"} => Versions \ proc[p].todo \subseteq objects

SchemaInv == TypeOK /\ AppliedInOrder /\ UpIsCurrent /\ Behind

\* Processes have been in ApplyMigrations one at a time.
Sole ==
  "overlap" \notin past =>
    \A p \in Processes :
      /\ proc[p].pc \in Migrating =>
           \A q \in Processes \ {p} : proc[q].pc \notin Migrating
      /\ proc[p].pc \in {"apply", "mark"} => proc[p].todo \cap Clean = {}

-----------------------------------------------------------------------------
\* The empty database is a schema in order.
LEMMA SchemaInit == Init => SchemaInv /\ Sole
BY SMT, MigrationAssumption
DEF MigrationAssumption, Init, SchemaInv, TypeOK, AppliedInOrder, UpIsCurrent, Behind, Sole, Clean, Off, Migrating, Versions

\* Every step of every process keeps the types.
LEMMA TypeStep == TypeOK /\ [Next]_vars => TypeOK'
<1> SUFFICES ASSUME TypeOK, [Next]_vars PROVE TypeOK'
  OBVIOUS
<1> USE DEF TypeOK, Off, Migrating, Exit, Error
<1>1. ASSUME NEW p \in Processes, Begin(p) PROVE TypeOK'
  BY <1>1 DEF Begin
<1>2. ASSUME NEW p \in Processes, appliedVersions(p) PROVE TypeOK'
  BY <1>2 DEF appliedVersions
<1>3. ASSUME NEW p \in Processes, NEW v \in Versions, applyOne(p, v) PROVE TypeOK'
  BY <1>3 DEF applyOne
<1>4. ASSUME NEW p \in Processes, NEW v \in Versions, ExecFails(p, v) PROVE TypeOK'
  BY <1>4 DEF ExecFails
<1>5. ASSUME NEW p \in Processes, NEW v \in Versions, MarkDirty(p, v) PROVE TypeOK'
  BY <1>5 DEF MarkDirty
<1>6. ASSUME NEW p \in Processes, NEW v \in Versions, InsertFails(p, v) PROVE TypeOK'
  BY <1>6 DEF InsertFails
<1>7. ASSUME NEW p \in Processes, Finish(p) PROVE TypeOK'
  BY <1>7 DEF Finish
<1>8. ASSUME NEW p \in Processes, Stop(p) PROVE TypeOK'
  BY <1>8 DEF Stop
<1>9. ASSUME NEW p \in Processes, Crash(p) PROVE TypeOK'
  BY <1>9 DEF Crash
<1>10. ASSUME UNCHANGED vars PROVE TypeOK'
  BY <1>10 DEF vars
<1> QED
  BY <1>1, <1>2, <1>3, <1>4, <1>5, <1>6, <1>7, <1>8, <1>9, <1>10 DEF Next, Step

-----------------------------------------------------------------------------
\* No step drops a table: only applyOne changes what there is, by adding to it.
LEMMA TablesStay == TypeOK /\ [Next]_vars => objects \subseteq objects'
BY DEF TypeOK, Next, Step, Begin, appliedVersions, applyOne, ExecFails, MarkDirty,
       InsertFails, Finish, Stop, Crash, vars

\* Every step keeps the schema in order, and complete for those who are up.
LEMMA SchemaStep == SchemaInv /\ [Next]_vars => SchemaInv'
<1> SUFFICES ASSUME SchemaInv, [Next]_vars PROVE SchemaInv'
  OBVIOUS
<1> USE DEF SchemaInv
<1>0. TypeOK' /\ objects \subseteq objects'
  BY TypeStep, TablesStay
<1>1. objects' \subseteq Versions
  BY <1>0 DEF TypeOK
<1>2. ASSUME NEW p \in Processes, NEW v \in Versions, applyOne(p, v)
      PROVE AppliedInOrder' /\ UpIsCurrent' /\ Behind'
  <2> USE <1>2 DEF applyOne
  <2>1. \A u \in Versions : u < v => u \in objects
    BY SMT DEF Behind, Turn, Versions
  <2>2. Clean' \subseteq Clean \cup {v}
    BY DEF Clean, TypeOK
  <2>3. AppliedInOrder'
    BY <2>1, <2>2 DEF AppliedInOrder
  <2>4. UpIsCurrent'
    BY <1>0, <1>1 DEF UpIsCurrent, TypeOK
  <2>5. Behind'
    BY <1>0, <1>1 DEF Behind, TypeOK
  <2> QED
    BY <2>3, <2>4, <2>5
<1>3. ASSUME NEW p \in Processes, Begin(p)
      PROVE AppliedInOrder' /\ UpIsCurrent' /\ Behind'
  BY <1>3 DEF Begin, AppliedInOrder, UpIsCurrent, Behind, Clean, TypeOK
<1>4. ASSUME NEW p \in Processes, appliedVersions(p)
      PROVE AppliedInOrder' /\ UpIsCurrent' /\ Behind'
  BY <1>4 DEF appliedVersions, AppliedInOrder, UpIsCurrent, Behind, Clean, TypeOK
<1>5. ASSUME NEW p \in Processes, NEW v \in Versions, ExecFails(p, v)
      PROVE AppliedInOrder' /\ UpIsCurrent' /\ Behind'
  BY <1>5 DEF ExecFails, AppliedInOrder, UpIsCurrent, Behind, Clean, TypeOK
<1>6. ASSUME NEW p \in Processes, NEW v \in Versions, MarkDirty(p, v)
      PROVE AppliedInOrder' /\ UpIsCurrent' /\ Behind'
  <2>1. Clean' \subseteq Clean
    BY <1>6 DEF MarkDirty, Clean, TypeOK
  <2> QED
    BY <1>6, <2>1 DEF MarkDirty, Exit, Off, AppliedInOrder, UpIsCurrent, Behind, TypeOK
<1>7. ASSUME NEW p \in Processes, NEW v \in Versions, InsertFails(p, v)
      PROVE AppliedInOrder' /\ UpIsCurrent' /\ Behind'
  BY <1>7 DEF InsertFails, Exit, Off, AppliedInOrder, UpIsCurrent, Behind, Clean, TypeOK
<1>8. ASSUME NEW p \in Processes, Finish(p)
      PROVE AppliedInOrder' /\ UpIsCurrent' /\ Behind'
  BY <1>1, <1>8 DEF Finish, AppliedInOrder, UpIsCurrent, Behind, Clean, TypeOK
<1>9. ASSUME NEW p \in Processes, Stop(p) \/ Crash(p)
      PROVE AppliedInOrder' /\ UpIsCurrent' /\ Behind'
  BY <1>9 DEF Stop, Crash, Exit, Off, AppliedInOrder, UpIsCurrent, Behind, Clean, TypeOK
<1>10. ASSUME UNCHANGED vars PROVE AppliedInOrder' /\ UpIsCurrent' /\ Behind'
  BY <1>10 DEF vars, AppliedInOrder, UpIsCurrent, Behind, Clean
<1> QED
  BY <1>0, <1>2, <1>3, <1>4, <1>5, <1>6, <1>7, <1>8, <1>9, <1>10 DEF Next, Step

-----------------------------------------------------------------------------
\* Every step keeps a sole process's list apart from what is recorded.
LEMMA SoleStep == TypeOK /\ Sole /\ [Next]_vars => Sole'
<1> SUFFICES ASSUME TypeOK, Sole, [Next]_vars, "overlap" \notin past' PROVE Sole'
  BY DEF Sole
<1>0. "overlap" \notin past
  BY DEF Next, Step, Begin, appliedVersions, applyOne, ExecFails, MarkDirty, Error,
         InsertFails, Finish, Stop, Crash, vars
<1> USE <1>0 DEF Sole, Migrating, TypeOK, Off, Exit
<1>1. ASSUME NEW p \in Processes, Begin(p) PROVE Sole'
  <2>1. \A q \in Processes : proc[q].pc \notin Migrating
    BY <1>1 DEF Begin
  <2> QED
    BY <1>1, <2>1 DEF Begin, Clean
<1>2. ASSUME NEW p \in Processes, appliedVersions(p) PROVE Sole'
  BY <1>2 DEF appliedVersions, Clean
<1>3. ASSUME NEW p \in Processes, NEW v \in Versions, applyOne(p, v) PROVE Sole'
  <2>1. Clean' \subseteq Clean \cup {v}
    BY <1>3 DEF applyOne, Clean
  <2> QED
    BY <1>3, <2>1 DEF applyOne
<1>4. ASSUME NEW p \in Processes, NEW v \in Versions, ExecFails(p, v) PROVE Sole'
  BY <1>4 DEF ExecFails, Clean
<1>5. ASSUME NEW p \in Processes, NEW v \in Versions, MarkDirty(p, v) PROVE Sole'
  <2>1. Clean' \subseteq Clean
    BY <1>5 DEF MarkDirty, Clean
  <2> QED
    BY <1>5, <2>1 DEF MarkDirty
<1>6. ASSUME NEW p \in Processes, NEW v \in Versions, InsertFails(p, v) PROVE Sole'
  BY <1>6 DEF InsertFails, Clean
<1>7. ASSUME NEW p \in Processes, Finish(p) PROVE Sole'
  BY <1>7 DEF Finish, Clean
<1>8. ASSUME NEW p \in Processes, Stop(p) \/ Crash(p) PROVE Sole'
  BY <1>8 DEF Stop, Crash, Clean
<1>9. ASSUME UNCHANGED vars PROVE Sole'
  BY <1>9 DEF vars, Clean
<1> QED
  BY <1>1, <1>2, <1>3, <1>4, <1>5, <1>6, <1>7, <1>8, <1>9 DEF Next, Step

\* When everything is recorded, a sole process has nothing on its list.
LEMMA NothingLeft ==
  ASSUME TypeOK, Sole, "overlap" \notin past, Clean = Versions,
         NEW p \in Processes, proc[p].pc \in {"apply", "mark"}
  PROVE  proc[p].todo = {}
BY DEF TypeOK, Sole

\* A step of a sole process leaves a schema that is current as it is.
LEMMA NoopStep ==
  TypeOK /\ Sole /\ Next /\ Clean = Versions /\ "overlap" \notin past'
    => UNCHANGED <<objects, mark>>
<1> SUFFICES ASSUME TypeOK, Sole, Next, Clean = Versions, "overlap" \notin past'
             PROVE  UNCHANGED <<objects, mark>>
  OBVIOUS
<1>1. "overlap" \notin past
  BY DEF Next, Step, Begin, appliedVersions, applyOne, ExecFails, MarkDirty, Error,
         InsertFails, Finish, Stop, Crash
<1>2. ASSUME NEW p \in Processes, NEW v \in Versions, applyOne(p, v) \/ MarkDirty(p, v)
      PROVE FALSE
  <2>1. proc[p].pc \in {"apply", "mark"} /\ v \in proc[p].todo
    BY <1>2 DEF applyOne, MarkDirty, Turn
  <2> QED
    BY <1>1, <2>1, NothingLeft
<1> QED
  BY <1>2 DEF Next, Step, Begin, appliedVersions, ExecFails, InsertFails, Finish, Stop, Crash

-----------------------------------------------------------------------------
\* In every behaviour the schema is in order (migrate.go:46-55, 144-168).
THEOREM SchemaCorrect == Spec => []SchemaInv
<1>1. Init => SchemaInv
  BY SchemaInit
<1>2. SchemaInv /\ [Next]_vars => SchemaInv'
  BY SchemaStep
<1> QED
  BY <1>1, <1>2, PTL DEF Spec

\* For any number of processes that overlap, fail and die, a version that is
\* recorded has its tables, and no version has them before those it builds on.
THEOREM AppliedInOrderAlways == Spec => []AppliedInOrder
<1>1. SchemaInv => AppliedInOrder
  BY DEF SchemaInv
<1> QED
  BY <1>1, SchemaCorrect, PTL

\* A process that gets past ApplyMigrations works on the whole schema
\* (serve.go:67-70).
THEOREM UpIsCurrentAlways == Spec => []UpIsCurrent
<1>1. SchemaInv => UpIsCurrent
  BY DEF SchemaInv
<1> QED
  BY <1>1, SchemaCorrect, PTL

\* A call of ApplyMigrations on a current schema is a no-op, as long as no two
\* processes have migrated together (migrate.go:23-24).
THEOREM NoopOnceCurrentAlways == Spec => NoopOnceCurrent
<1>1. Init => TypeOK /\ Sole
  BY SchemaInit DEF SchemaInv
<1>2. TypeOK /\ Sole /\ [Next]_vars => (TypeOK /\ Sole)'
  BY TypeStep, SoleStep
<1>3. TypeOK /\ Sole /\ [Next]_vars =>
        [Clean = Versions /\ "overlap" \notin past' => UNCHANGED <<objects, mark>>]_vars
  BY NoopStep DEF vars
<1> QED
  BY <1>1, <1>2, <1>3, PTL DEF Spec, NoopOnceCurrent

-----------------------------------------------------------------------------
(* Backup and restore: what is typed. *)

Logs == UNION {[S -> BOOLEAN] : S \in SUBSET Digests}

Running == [pc: {"idle", "db", "log", "walk"}, at: Nat, listed: BOOLEAN]

Archive ==
  [db: BOOLEAN, main: SUBSET Digests, log: Logs, logFile: BOOLEAN, blobs: SUBSET Digests,
   done: BOOLEAN, torn: BOOLEAN, collected: BOOLEAN, quiet: BOOLEAN, taken: SUBSET Digests,
   sound: BOOLEAN]

Restoring ==
  [pc: {"idle", "db", "log", "storage", "done"}, left: SUBSET Digests, stale: BOOLEAN,
   alone: BOOLEAN]

BackupTyped ==
  /\ up \in BOOLEAN /\ exists \in BOOLEAN /\ logFile \in BOOLEAN /\ folded \in BOOLEAN
  /\ sound \in BOOLEAN
  /\ main \subseteq Digests /\ blobs \subseteq Digests
  /\ log \in Logs
  /\ bk \in Running /\ archive \in Archive /\ rst \in Restoring

-----------------------------------------------------------------------------
(* The inductive invariant. *)

\* The database: a log is in its file, and a folded one says nothing new to the
\* server that folded it, unless a restore has written beside it.
DbSound ==
  /\ logFile \/ log = Empty
  /\ archive.logFile \/ archive.log = Empty
  /\ up /\ folded /\ sound => RowsOf(main, Empty) = Rows

\* Who runs beside whom.
Exclusive ==
  /\ rst.pc # "idle" => bk.pc = "idle" /\ (rst.alone => ~up)
  /\ bk.pc # "idle" /\ archive.quiet => ~up
  /\ archive.quiet => ~archive.torn /\ ~archive.collected

\* Rows that a reader of the archive's database sees.
Archived == RowsOf(archive.main, archive.log)

\* A backup has copied the database that is there, unless a checkpoint tore it,
\* and since then the files of its rows stay, unless one is collected.
BackupFaithful ==
  /\ bk.pc # "idle" => (archive.sound <=> sound) /\ ~archive.done
  /\ bk.pc # "idle" /\ archive.quiet => archive.taken = Rows
  /\ bk.pc \in {"db", "log"} => archive.log = Empty
  /\ bk.pc = "log" /\ ~archive.torn => archive.main = main
  /\ bk.pc = "walk" /\ archive.quiet => Archived = archive.taken
  /\ bk.pc = "walk" => bk.at \in 1..(Cardinality(Digests) + 1)
  /\ bk.pc = "walk" /\ ~archive.torn /\ ~archive.collected /\ archive.sound =>
       /\ Archived \subseteq blobs
       /\ \A d \in Archived : d < bk.at => d \in archive.blobs

\* An archive that is complete.
ArchiveFaithful ==
  archive.done =>
    /\ archive.quiet => Archived = archive.taken
    /\ ~archive.torn /\ ~archive.collected /\ archive.sound => Archived \subseteq archive.blobs

\* How far a restore has come that no server runs beside.
RestoreFaithful ==
  /\ rst.pc # "idle" /\ rst.alone =>
       /\ rst.pc \in {"db", "log"} /\ ~rst.stale /\ ~archive.logFile => ~logFile
       /\ rst.pc \in {"log", "storage", "done"} => main = archive.main
       /\ rst.pc \in {"storage", "done"} /\ ~rst.stale => log = archive.log
       /\ archive.blobs \ rst.left \subseteq blobs
       /\ rst.pc = "done" => rst.left = {}
  /\ rst.pc \in {"db", "log", "storage"} => ~sound

BackupInv ==
  /\ BackupTyped
  /\ DbSound
  /\ Exclusive
  /\ BackupFaithful
  /\ ArchiveFaithful
  /\ RestoreFaithful
  /\ RowsKeepFiles

-----------------------------------------------------------------------------
(* Rows that a reader sees. *)

LEMMA RowsAreDigests == \A m, l : RowsOf(m, l) \subseteq Digests
  BY DEF RowsOf

\* Bringing a log into the main file changes nothing for a reader, with the log
\* or without.
LEMMA FoldedRows ==
  ASSUME NEW m, NEW l
  PROVE  /\ RowsOf(RowsOf(m, l), l) = RowsOf(m, l)
         /\ RowsOf(RowsOf(m, l), Empty) = RowsOf(m, l)
  <1>1. \A x, d : d \in RowsOf(x, l) <=> d \in Digests /\ (IF d \in DOMAIN l THEN l[d] ELSE d \in x)
    BY DEF RowsOf
  <1>2. \A x, d : d \in RowsOf(x, Empty) <=> d \in Digests /\ d \in x
    BY DEF RowsOf, Empty
  <1>3. \A d : d \in RowsOf(RowsOf(m, l), l) <=> d \in RowsOf(m, l)
    BY <1>1
  <1>4. \A d : d \in RowsOf(RowsOf(m, l), Empty) <=> d \in RowsOf(m, l)
    BY <1>1, <1>2
  <1> QED
    BY <1>3, <1>4

LEMMA NoRows == RowsOf({}, Empty) = {}
  BY DEF RowsOf, Empty

\* One statement in a log.
LEMMA CommittedRows ==
  ASSUME NEW m, NEW l \in Logs, NEW d \in Digests, NEW there \in BOOLEAN
  PROVE  LET new == [p \in DOMAIN l \cup {d} |-> IF p = d THEN there ELSE l[p]] IN
         /\ new \in Logs
         /\ there => RowsOf(m, new) = RowsOf(m, l) \cup {d}
         /\ ~there => RowsOf(m, new) = RowsOf(m, l) \ {d}
  <1> DEFINE new == [p \in DOMAIN l \cup {d} |-> IF p = d THEN there ELSE l[p]]
  <1>1. PICK S \in SUBSET Digests : l \in [S -> BOOLEAN]
    BY DEF Logs
  <1>2. DOMAIN l = S
    BY <1>1
  <1>3. new \in [S \cup {d} -> BOOLEAN]
    BY <1>1, <1>2
  <1>4. S \cup {d} \in SUBSET Digests
    OBVIOUS
  <1>5. new \in Logs
    BY <1>3, <1>4 DEF Logs
  <1>6. DOMAIN new = S \cup {d} /\ new[d] = there /\ \A e \in S \ {d} : new[e] = l[e]
    BY <1>2
  <1> HIDE DEF new
  <1>7. \A e \in Digests \ {d} : e \in RowsOf(m, new) <=> e \in RowsOf(m, l)
    BY <1>2, <1>6 DEF RowsOf
  <1>8. d \in RowsOf(m, new) <=> there
    BY <1>6 DEF RowsOf
  <1>9. RowsOf(m, new) \subseteq Digests /\ RowsOf(m, l) \subseteq Digests
    BY RowsAreDigests
  <1> QED
    BY <1>5, <1>7, <1>8, <1>9 DEF new

LEMMA EmptyLog == Empty \in Logs
  BY DEF Empty, Logs

-----------------------------------------------------------------------------
(* What is noted in the archive's history. *)

LEMMA TearNotes ==
  ASSUME archive \in Archive
  PROVE  /\ Tear \in Archive
         /\ Tear.main = archive.main /\ Tear.log = archive.log /\ Tear.logFile = archive.logFile
         /\ Tear.blobs = archive.blobs /\ Tear.done = archive.done /\ Tear.quiet = archive.quiet
         /\ Tear.taken = archive.taken /\ Tear.sound = archive.sound
         /\ Tear.collected = archive.collected
         /\ bk.pc \in {"db", "log"} => Tear.torn
         /\ bk.pc \notin {"db", "log"} => Tear = archive
         /\ archive.torn => Tear.torn
  BY DEF Tear, Archive

LEMMA LoseNotes ==
  ASSUME archive \in Archive
  PROVE  /\ Lose \in Archive
         /\ Lose.main = archive.main /\ Lose.log = archive.log /\ Lose.logFile = archive.logFile
         /\ Lose.blobs = archive.blobs /\ Lose.done = archive.done /\ Lose.quiet = archive.quiet
         /\ Lose.taken = archive.taken /\ Lose.sound = archive.sound
         /\ Lose.torn = archive.torn
         /\ bk.pc = "walk" => Lose.collected
         /\ bk.pc # "walk" => Lose = archive
         /\ archive.collected => Lose.collected
  BY DEF Lose, Archive

-----------------------------------------------------------------------------
(* Steps of the server. *)

LEMMA ServerKeeps ==
  ASSUME BackupInv, BackupTyped', DbSound', UNCHANGED bk,
         rst'.pc = rst.pc, rst.pc # "idle" => ~rst'.alone /\ sound' = sound,
         archive'.main = archive.main, archive'.log = archive.log,
         archive'.blobs = archive.blobs, archive'.done = archive.done,
         archive'.taken = archive.taken, archive'.sound = archive.sound,
         archive.torn => archive'.torn, archive.collected => archive'.collected,
         archive'.quiet => archive.quiet,
         bk.pc = "idle" => archive' = archive,
         bk.pc # "idle" => ~archive'.quiet /\ (sound' <=> sound),
         bk.pc = "log" /\ main' # main => archive'.torn,
         bk.pc = "walk" /\ ~(blobs \subseteq blobs') => archive'.collected,
         sound' => Rows' \subseteq blobs'
  PROVE  BackupInv'
  <1> USE DEF BackupInv
  <1>1. Archived' = Archived
    BY DEF Archived
  <1>2. Exclusive'
    BY DEF Exclusive
  <1>3. BackupFaithful'
    BY <1>1 DEF BackupFaithful
  <1>4. ArchiveFaithful'
    BY <1>1 DEF ArchiveFaithful
  <1>5. RestoreFaithful'
    BY DEF RestoreFaithful
  <1>6. RowsKeepFiles'
    BY DEF RowsKeepFiles
  <1> QED
    BY <1>2, <1>3, <1>4, <1>5, <1>6

LEMMA ServerStep ==
  ASSUME BackupInv, Server
  PROVE  BackupInv'
  <1> USE DEF disk
  <1>1. /\ BackupTyped /\ DbSound /\ archive \in Archive
        /\ sound => Rows \subseteq blobs
        /\ Rows \subseteq Digests
        /\ Rows = RowsOf(main, log)
    BY RowsAreDigests DEF BackupInv, BackupTyped, RowsKeepFiles, Rows
  <1>2. /\ up => (rst.pc # "idle" => ~rst.alone) /\ (bk.pc # "idle" => ~archive.quiet)
        /\ bk.pc # "idle" => rst.pc = "idle"
    BY DEF BackupInv, Exclusive
  <1>3. ASSUME NEW d \in Digests, StoreBlob(d) PROVE BackupInv'
    <2>1. /\ up /\ blobs' = blobs \cup {d}
          /\ UNCHANGED <<up, exists, main, log, logFile, folded, bk, archive, rst, sound>>
      BY <1>3 DEF StoreBlob
    <2>2. Rows' = Rows
      BY <2>1 DEF Rows
    <2>3. BackupTyped' /\ DbSound'
      BY <1>1, <2>1, <2>2 DEF BackupTyped, DbSound
    <2> QED
      BY <1>1, <1>2, <2>1, <2>2, <2>3, ServerKeeps
  <1>4. ASSUME NEW d \in Digests, NEW there \in BOOLEAN, Commit(d, there),
               there => d \in blobs
        PROVE  BackupInv'
    <2> DEFINE old == IF folded THEN Empty ELSE log
    <2>1. /\ up /\ exists' = TRUE /\ logFile' = TRUE /\ folded' = FALSE
          /\ log' = [p \in DOMAIN old \cup {d} |-> IF p = d THEN there ELSE old[p]]
          /\ UNCHANGED <<up, main, blobs, bk, archive, rst, sound>>
      BY <1>4 DEF Commit
    <2>2. old \in Logs /\ (sound => RowsOf(main, old) = Rows)
      BY <1>1, <2>1, EmptyLog DEF BackupTyped, DbSound
    <2> HIDE DEF old
    <2>3. /\ log' \in Logs
          /\ sound /\ there => RowsOf(main, log') = Rows \cup {d}
          /\ sound /\ ~there => RowsOf(main, log') = Rows \ {d}
      BY <2>1, <2>2, CommittedRows
    <2>4. Rows' = RowsOf(main, log')
      BY <2>1 DEF Rows
    <2>5. BackupTyped' /\ DbSound'
      BY <1>1, <2>1, <2>3 DEF BackupTyped, DbSound
    <2>6. sound => Rows' \subseteq blobs
      BY <1>1, <1>4, <2>3, <2>4
    <2> QED
      BY <1>1, <1>2, <2>1, <2>5, <2>6, ServerKeeps
  <1>5. ASSUME NEW d \in Digests, Collect(d) PROVE BackupInv'
    <2>1. /\ up /\ d \notin Rows /\ blobs' = blobs \ {d} /\ archive' = Lose
          /\ UNCHANGED <<up, exists, main, log, logFile, folded, bk, rst, sound>>
      BY <1>5 DEF Collect
    <2>2. Rows' = Rows
      BY <2>1 DEF Rows
    <2>3. /\ archive' \in Archive
          /\ archive'.main = archive.main /\ archive'.log = archive.log
          /\ archive'.logFile = archive.logFile
          /\ archive'.blobs = archive.blobs /\ archive'.done = archive.done
          /\ archive'.quiet = archive.quiet
          /\ archive'.taken = archive.taken /\ archive'.sound = archive.sound
          /\ archive'.torn = archive.torn
          /\ bk.pc = "walk" => archive'.collected
          /\ bk.pc # "walk" => archive' = archive
          /\ archive.collected => archive'.collected
      BY <1>1, <2>1, LoseNotes
    <2>4. BackupTyped' /\ DbSound'
      BY <1>1, <2>1, <2>2, <2>3 DEF BackupTyped, DbSound
    <2> QED
      BY <1>1, <1>2, <2>1, <2>2, <2>3, <2>4, ServerKeeps
  <1>6. ASSUME archive' = Tear
        PROVE  /\ archive' \in Archive
               /\ archive'.main = archive.main /\ archive'.log = archive.log
               /\ archive'.logFile = archive.logFile
               /\ archive'.blobs = archive.blobs /\ archive'.done = archive.done
               /\ archive'.quiet = archive.quiet
               /\ archive'.taken = archive.taken /\ archive'.sound = archive.sound
               /\ archive'.collected = archive.collected
               /\ bk.pc \in {"db", "log"} => archive'.torn
               /\ bk.pc \notin {"db", "log"} => archive' = archive
               /\ archive.torn => archive'.torn
    BY <1>1, <1>6, TearNotes
  <1>7. CASE Checkpoint
    <2>1. /\ up /\ main' = Rows /\ folded' = TRUE /\ archive' = Tear
          /\ UNCHANGED <<up, exists, log, logFile, blobs, bk, rst, sound>>
      BY <1>7 DEF Checkpoint
    <2>2. Rows' = Rows /\ RowsOf(main', Empty) = Rows
      BY <1>1, <2>1, FoldedRows DEF Rows
    <2>3. BackupTyped' /\ DbSound'
      BY <1>1, <1>6, <2>1, <2>2 DEF BackupTyped, DbSound
    <2> QED
      BY <1>1, <1>2, <1>6, <2>1, <2>2, <2>3, ServerKeeps
  <1>8. CASE Start
    <2> DEFINE new == IF bk.pc = "idle" THEN archive ELSE [archive EXCEPT !.quiet = FALSE]
    <2>1. /\ ~up /\ up' = TRUE /\ exists' = TRUE /\ logFile' = TRUE /\ folded' = FALSE
          /\ archive' = new
          /\ rst' = IF rst.pc = "idle" THEN rst ELSE [rst EXCEPT !.alone = FALSE]
          /\ UNCHANGED <<main, log, blobs, bk, sound>>
      BY <1>8 DEF Start
    <2>6. /\ rst' \in Restoring /\ rst'.pc = rst.pc
          /\ rst.pc # "idle" => ~rst'.alone
      BY <1>1, <2>1 DEF BackupTyped, Restoring
    <2>2. /\ new \in Archive
          /\ new.main = archive.main /\ new.log = archive.log /\ new.logFile = archive.logFile
          /\ new.blobs = archive.blobs /\ new.done = archive.done
          /\ new.taken = archive.taken /\ new.sound = archive.sound
          /\ new.torn = archive.torn /\ new.collected = archive.collected
          /\ bk.pc # "idle" => ~new.quiet
          /\ bk.pc = "idle" => new = archive
      BY <1>1 DEF Archive
    <2> HIDE DEF new
    <2>3. Rows' = Rows
      BY <2>1 DEF Rows
    <2>4. BackupTyped' /\ DbSound'
      BY <1>1, <2>1, <2>2, <2>3, <2>6 DEF BackupTyped, DbSound
    <2>5. archive'.quiet => archive.quiet
      BY <2>1, <2>2
    <2> QED
      BY <1>1, <1>2, <2>1, <2>2, <2>3, <2>4, <2>5, <2>6, ServerKeeps
  <1>9. CASE Shutdown
    <2>1. /\ up /\ up' = FALSE /\ main' = Rows /\ log' = Empty /\ logFile' = FALSE
          /\ folded' = FALSE /\ archive' = Tear
          /\ UNCHANGED <<exists, blobs, bk, rst, sound>>
      BY <1>9 DEF Shutdown
    <2>2. Rows' = Rows
      BY <1>1, <2>1, FoldedRows DEF Rows
    <2>3. BackupTyped' /\ DbSound'
      BY <1>1, <1>6, <2>1, <2>2, EmptyLog DEF BackupTyped, DbSound
    <2> QED
      BY <1>1, <1>2, <1>6, <2>1, <2>2, <2>3, ServerKeeps
  <1>10. CASE ServerCrash
    <2>1. /\ up /\ up' = FALSE
          /\ UNCHANGED <<exists, main, log, logFile, folded, blobs, bk, archive, rst, sound>>
      BY <1>10 DEF ServerCrash
    <2>2. Rows' = Rows
      BY <2>1 DEF Rows
    <2>3. BackupTyped' /\ DbSound'
      BY <1>1, <2>1, <2>2 DEF BackupTyped, DbSound
    <2> QED
      BY <1>1, <1>2, <2>1, <2>2, <2>3, ServerKeeps
  <1>11. CASE LoseDisk
    <2>1. /\ bk.pc = "idle" /\ rst.pc = "idle" /\ ~up
          /\ exists' = FALSE /\ main' = {} /\ log' = Empty /\ logFile' = FALSE /\ folded' = FALSE
          /\ blobs' = {} /\ sound' = TRUE
          /\ UNCHANGED <<up, bk, archive, rst>>
      BY <1>11 DEF LoseDisk
    <2>2. Rows' = {}
      BY <2>1, NoRows DEF Rows
    <2>3. BackupTyped' /\ DbSound'
      BY <1>1, <2>1, EmptyLog DEF BackupTyped, DbSound
    <2> QED
      BY <1>1, <2>1, <2>2, <2>3, ServerKeeps
  <1>12. ASSUME NEW d \in Digests, Record(d) PROVE BackupInv'
    BY <1>4, <1>12 DEF Record
  <1>13. ASSUME NEW d \in Digests, Delete(d) PROVE BackupInv'
    BY <1>4, <1>13 DEF Delete
  <1> QED
    BY <1>3, <1>5, <1>7, <1>8, <1>9, <1>10, <1>11, <1>12, <1>13 DEF Server

-----------------------------------------------------------------------------
(* Steps of a backup. *)

LEMMA CopyingKeeps ==
  ASSUME BackupInv, UNCHANGED <<up, disk, blobs, rst, sound>>, rst.pc = "idle",
         bk' \in Running, archive' \in Archive,
         archive'.logFile \/ archive'.log = Empty,
         bk'.pc # "idle" /\ archive'.quiet => ~up,
         archive'.quiet => ~archive'.torn /\ ~archive'.collected,
         Rows' = Rows => BackupFaithful' /\ ArchiveFaithful'
  PROVE  BackupInv'
  <1> USE DEF BackupInv, disk
  <1>1. Rows' = Rows
    BY DEF Rows
  <1>2. BackupTyped'
    BY DEF BackupTyped
  <1>3. DbSound'
    BY <1>1 DEF DbSound
  <1>4. Exclusive'
    BY DEF Exclusive
  <1>5. RestoreFaithful' /\ RowsKeepFiles'
    BY <1>1 DEF RestoreFaithful, RowsKeepFiles
  <1> QED
    BY <1>1, <1>2, <1>3, <1>4, <1>5

LEMMA Counted ==
  /\ Cardinality(Digests) \in Nat
  /\ Digests = 1..Cardinality(Digests)
  BY FS_CardinalityType, BackupAssumption DEF BackupAssumption

\* The walk goes on.
LEMMA WalkType ==
  ASSUME NEW k \in Running
  PROVE  /\ k.at \in Nat
         /\ [k EXCEPT !.listed = TRUE] \in Running
         /\ [k EXCEPT !.listed = TRUE].pc = k.pc /\ [k EXCEPT !.listed = TRUE].at = k.at
         /\ [k EXCEPT !.at = @ + 1] \in Running
         /\ [k EXCEPT !.at = @ + 1].pc = k.pc /\ [k EXCEPT !.at = @ + 1].at = k.at + 1
         /\ [k EXCEPT !.at = @ + 1, !.listed = FALSE] \in Running
         /\ [k EXCEPT !.at = @ + 1, !.listed = FALSE].pc = k.pc
         /\ [k EXCEPT !.at = @ + 1, !.listed = FALSE].at = k.at + 1
  <1>1. k.at \in Nat /\ k.at + 1 \in Nat
    BY DEF Running
  <1>2. /\ [k EXCEPT !.listed = TRUE] \in Running
        /\ [k EXCEPT !.listed = TRUE].pc = k.pc /\ [k EXCEPT !.listed = TRUE].at = k.at
    BY DEF Running
  <1>3. ASSUME NEW n \in Nat
        PROVE  /\ [k EXCEPT !.at = n] \in Running
               /\ [k EXCEPT !.at = n].pc = k.pc /\ [k EXCEPT !.at = n].at = n
               /\ [k EXCEPT !.at = n, !.listed = FALSE] \in Running
               /\ [k EXCEPT !.at = n, !.listed = FALSE].pc = k.pc
               /\ [k EXCEPT !.at = n, !.listed = FALSE].at = n
    BY <1>3 DEF Running
  <1> QED
    BY <1>1, <1>2, <1>3

LEMMA CopyingStep ==
  ASSUME BackupInv, RunBackup
  PROVE  BackupInv'
  <1>1. /\ BackupTyped /\ DbSound /\ Exclusive /\ BackupFaithful /\ ArchiveFaithful
        /\ archive \in Archive /\ bk \in Running /\ main \subseteq Digests /\ log \in Logs
        /\ (sound => Rows \subseteq blobs) /\ Rows \subseteq Digests
        /\ up \in BOOLEAN /\ sound \in BOOLEAN /\ blobs \subseteq Digests
    BY RowsAreDigests DEF BackupInv, BackupTyped, RowsKeepFiles, Rows
  <1>2. bk.pc # "idle" => rst.pc = "idle" /\ ~archive.done
    BY <1>1 DEF Exclusive, BackupFaithful
  <1>3. Archived \subseteq Digests
    BY RowsAreDigests DEF Archived
  <1>4. CASE BackupBegin
    <2> DEFINE new == [NoArchive EXCEPT !.quiet = ~up, !.taken = Rows, !.sound = sound]
               start == [Idle EXCEPT !.pc = "db"]
    <2>1. /\ rst.pc = "idle" /\ bk' = start /\ archive' = new
          /\ UNCHANGED <<up, disk, blobs, rst, sound>>
      BY <1>4 DEF BackupBegin
    <2>2. start \in Running /\ start.pc = "db"
      BY DEF Idle, Running
    <2>3. /\ new \in Archive /\ new.log = Empty
          /\ ~new.torn /\ ~new.collected /\ ~new.done
          /\ (new.quiet <=> ~up) /\ new.taken = Rows /\ (new.sound <=> sound)
      BY <1>1, EmptyLog DEF NoArchive, Archive
    <2> HIDE DEF new, start
    <2>4. ASSUME Rows' = Rows PROVE BackupFaithful' /\ ArchiveFaithful'
      BY <2>1, <2>2, <2>3, <2>4 DEF BackupFaithful, ArchiveFaithful
    <2> QED
      BY <2>1, <2>2, <2>3, <2>4, CopyingKeeps
  <1>5. CASE CopyDb
    <2> DEFINE new == [archive EXCEPT !.db = TRUE, !.main = main]
               next == [bk EXCEPT !.pc = "log"]
    <2>1. /\ bk.pc = "db" /\ bk' = next /\ archive' = new
          /\ UNCHANGED <<up, disk, blobs, rst, sound>>
      BY <1>5 DEF CopyDb
    <2>2. next \in Running /\ next.pc = "log"
      BY <1>1 DEF Running
    <2>3. /\ new \in Archive /\ new.main = main /\ new.log = archive.log
          /\ new.logFile = archive.logFile /\ new.done = archive.done
          /\ new.torn = archive.torn /\ new.collected = archive.collected
          /\ new.quiet = archive.quiet /\ new.taken = archive.taken /\ new.sound = archive.sound
      BY <1>1 DEF Archive
    <2> HIDE DEF new, next
    <2>4. ASSUME Rows' = Rows PROVE BackupFaithful' /\ ArchiveFaithful'
      <3>1. ~archive'.done
        BY <1>2, <2>1, <2>3
      <3>2. main' = main
        BY <2>1 DEF disk
      <3> QED
        BY <1>1, <2>1, <2>2, <2>3, <2>4, <3>1, <3>2 DEF BackupFaithful, ArchiveFaithful
    <2>5. archive'.logFile \/ archive'.log = Empty
      BY <1>1, <2>1, <2>3 DEF DbSound
    <2>6. archive'.quiet => ~up /\ ~archive'.torn /\ ~archive'.collected
      BY <1>1, <2>1, <2>3 DEF Exclusive
    <2> QED
      BY <1>2, <2>1, <2>2, <2>3, <2>4, <2>5, <2>6, CopyingKeeps
  <1>6. CASE CopyLog
    <2> DEFINE new == IF logFile THEN [archive EXCEPT !.log = log, !.logFile = TRUE] ELSE archive
               next == [bk EXCEPT !.pc = "walk", !.at = 1]
    <2>1. /\ bk.pc = "log" /\ bk' = next /\ archive' = new
          /\ UNCHANGED <<up, disk, blobs, rst, sound>>
      BY <1>6 DEF CopyLog
    <2>2. next \in Running /\ next.pc = "walk" /\ next.at = 1
      BY <1>1 DEF Running
    <2>3. /\ new \in Archive /\ new.main = archive.main /\ new.log = log
          /\ new.logFile \/ new.log = Empty
          /\ new.done = archive.done
          /\ new.torn = archive.torn /\ new.collected = archive.collected
          /\ new.quiet = archive.quiet /\ new.taken = archive.taken /\ new.sound = archive.sound
      BY <1>1, <2>1 DEF Archive, DbSound, BackupFaithful
    <2> HIDE DEF new, next
    <2>4. ASSUME Rows' = Rows PROVE BackupFaithful' /\ ArchiveFaithful'
      <3>1. ~archive'.done
        BY <1>2, <2>1, <2>3
      <3>2. ~archive.torn => Archived' = Rows
        BY <1>1, <2>1, <2>3 DEF Archived, Rows, BackupFaithful
      <3>3. archive.quiet => ~archive.torn
        BY <1>1 DEF Exclusive
      <3>4. archive'.sound => Rows \subseteq blobs
        BY <1>1, <2>1, <2>3 DEF BackupFaithful
      <3>5. \A d \in Digests : ~(d < 1)
        BY Counted
      <3>6. Archived' \subseteq Digests
        BY RowsAreDigests DEF Archived
      <3>7. 1 \in 1..(Cardinality(Digests) + 1)
        BY Counted
      <3>8. archive.quiet => archive.taken = Rows
        BY <1>1, <2>1 DEF BackupFaithful
      <3>9. archive'.sound <=> sound'
        BY <1>1, <2>1, <2>3 DEF BackupFaithful
      <3>10. ArchiveFaithful'
        BY <3>1 DEF ArchiveFaithful
      <3>11. /\ archive'.quiet => archive'.taken = Rows' /\ Archived' = archive'.taken
        BY <2>1, <2>3, <2>4, <3>2, <3>3, <3>8
      <3>12. ~archive'.torn /\ archive'.sound =>
               /\ Archived' \subseteq blobs'
               /\ \A d \in Archived' : d < 1 => d \in archive'.blobs
        BY <2>1, <2>3, <3>2, <3>4, <3>5, <3>6
      <3> QED
        BY <2>1, <2>2, <3>1, <3>7, <3>9, <3>10, <3>11, <3>12 DEF BackupFaithful
    <2>5. archive'.quiet => ~up /\ ~archive'.torn /\ ~archive'.collected
      BY <1>1, <2>1, <2>3 DEF Exclusive
    <2> QED
      BY <1>2, <2>1, <2>2, <2>3, <2>4, <2>5, CopyingKeeps
  <1>7. CASE BackupFails
    <2> DEFINE new == [NoArchive EXCEPT !.db = archive.db, !.main = archive.main,
                                        !.log = archive.log, !.logFile = archive.logFile,
                                        !.blobs = archive.blobs]
    <2>1. /\ bk.pc # "idle" /\ bk' = Idle /\ archive' = new
          /\ UNCHANGED <<up, disk, blobs, rst, sound>>
      BY <1>7 DEF BackupFails
    <2>2. /\ new \in Archive /\ new.log = archive.log /\ new.logFile = archive.logFile
          /\ ~new.done /\ ~new.quiet
      BY <1>1, EmptyLog DEF NoArchive, Archive
    <2> HIDE DEF new
    <2>3. Idle \in Running /\ Idle.pc = "idle"
      BY DEF Idle, Running
    <2>4. BackupFaithful' /\ ArchiveFaithful'
      BY <2>1, <2>2, <2>3 DEF BackupFaithful, ArchiveFaithful
    <2>5. archive'.logFile \/ archive'.log = Empty
      BY <1>1, <2>1, <2>2 DEF DbSound
    <2> QED
      BY <1>2, <2>1, <2>2, <2>3, <2>4, <2>5, CopyingKeeps
  <1>8. CASE BackupDone
    <2> DEFINE new == [archive EXCEPT !.done = TRUE]
    <2>1. /\ bk.pc = "walk" /\ bk.at \notin Digests
          /\ bk' = Idle /\ Idle \in Running /\ Idle.pc = "idle" /\ archive' = new
          /\ UNCHANGED <<up, disk, blobs, rst, sound>>
      BY <1>8 DEF BackupDone, Idle, Running
    <2>2. /\ new \in Archive /\ new.main = archive.main /\ new.log = archive.log
          /\ new.logFile = archive.logFile /\ new.blobs = archive.blobs
          /\ new.torn = archive.torn /\ new.collected = archive.collected
          /\ new.quiet = archive.quiet /\ new.taken = archive.taken /\ new.sound = archive.sound
      BY <1>1 DEF Archive
    <2> HIDE DEF new
    <2>3. \A d \in Digests : d < bk.at
      BY <1>1, <2>1, Counted DEF BackupFaithful
    <2>4. Archived' = Archived
      BY <2>1, <2>2 DEF Archived
    <2>5. ~archive.torn /\ ~archive.collected /\ archive.sound => Archived \subseteq archive.blobs
      BY <1>1, <1>3, <2>1, <2>3 DEF BackupFaithful
    <2>6. BackupFaithful' /\ ArchiveFaithful'
      BY <1>1, <2>1, <2>2, <2>4, <2>5 DEF BackupFaithful, ArchiveFaithful
    <2>7. archive'.logFile \/ archive'.log = Empty
      BY <1>1, <2>1, <2>2 DEF DbSound
    <2>8. archive'.quiet => ~archive'.torn /\ ~archive'.collected
      BY <1>1, <2>1, <2>2 DEF Exclusive
    <2> QED
      BY <1>2, <2>1, <2>2, <2>6, <2>7, <2>8, CopyingKeeps
  <1>9. ASSUME bk.pc = "walk", bk' \in Running, archive' \in Archive,
               bk'.pc = "walk", bk'.at \in 1..(Cardinality(Digests) + 1),
               UNCHANGED <<up, disk, blobs, rst, sound>>,
               archive'.main = archive.main, archive'.log = archive.log,
               archive'.logFile = archive.logFile, archive'.done = archive.done,
               archive'.torn = archive.torn, archive'.collected = archive.collected,
               archive'.quiet = archive.quiet, archive'.taken = archive.taken,
               archive'.sound = archive.sound,
               Archived \subseteq blobs /\ (\A d \in Archived : d < bk.at => d \in archive.blobs)
                 => \A d \in Archived : d < bk'.at => d \in archive'.blobs
        PROVE  BackupInv'
    <2>1. Archived' = Archived /\ blobs' = blobs
      BY <1>9 DEF Archived
    <2>2. ASSUME Rows' = Rows PROVE BackupFaithful' /\ ArchiveFaithful'
      BY <1>1, <1>9, <2>1, <2>2 DEF BackupFaithful, ArchiveFaithful
    <2>3. archive'.logFile \/ archive'.log = Empty
      BY <1>1, <1>9 DEF DbSound
    <2>4. archive'.quiet => ~up /\ ~archive'.torn /\ ~archive'.collected
      BY <1>1, <1>9 DEF Exclusive
    <2> QED
      BY <1>2, <1>9, <2>2, <2>3, <2>4, CopyingKeeps
  <1>10. CASE ReadDir
    <2> DEFINE next == IF bk.at \in blobs THEN [bk EXCEPT !.listed = TRUE]
                                          ELSE [bk EXCEPT !.at = @ + 1]
    <2>1. /\ bk.pc = "walk" /\ bk.at \in Digests /\ bk' = next
          /\ UNCHANGED <<up, disk, blobs, archive, rst, sound>>
      BY <1>10 DEF ReadDir
    <2>2. /\ next \in Running /\ next.pc = "walk"
          /\ bk.at \in blobs => next.at = bk.at
          /\ bk.at \notin blobs => next.at = bk.at + 1
      BY <1>1, <2>1, WalkType
    <2> HIDE DEF next
    <2>3. next.at \in 1..(Cardinality(Digests) + 1)
      BY <2>1, <2>2, Counted
    <2>4. ASSUME Archived \subseteq blobs, \A d \in Archived : d < bk.at => d \in archive.blobs
          PROVE  \A d \in Archived : d < next.at => d \in archive.blobs
      <3>1. \A d \in Archived : d \in Nat
        BY <1>3, Counted
      <3> QED
        BY <2>1, <2>2, <2>4, <3>1, Counted
    <2> QED
      BY <1>1, <1>9, <2>1, <2>2, <2>3, <2>4
  <1>11. CASE CopyBlob
    <2> DEFINE new == [archive EXCEPT !.blobs = @ \cup {bk.at}]
               next == [bk EXCEPT !.at = @ + 1, !.listed = FALSE]
    <2>1. /\ bk.pc = "walk" /\ bk.at \in blobs /\ bk.at \in Digests
          /\ bk' = next /\ archive' = new
          /\ UNCHANGED <<up, disk, blobs, rst, sound>>
      BY <1>1, <1>11 DEF CopyBlob
    <2>2. next \in Running /\ next.pc = "walk" /\ next.at = bk.at + 1
      BY <1>1, <2>1, WalkType
    <2>3. /\ new \in Archive /\ new.main = archive.main /\ new.log = archive.log
          /\ new.logFile = archive.logFile /\ new.done = archive.done
          /\ new.blobs = archive.blobs \cup {bk.at}
          /\ new.torn = archive.torn /\ new.collected = archive.collected
          /\ new.quiet = archive.quiet /\ new.taken = archive.taken /\ new.sound = archive.sound
      BY <1>1, <2>1 DEF Archive
    <2> HIDE DEF new, next
    <2>4. next.at \in 1..(Cardinality(Digests) + 1)
      BY <2>1, <2>2, Counted
    <2>5. ASSUME \A d \in Archived : d < bk.at => d \in archive.blobs
          PROVE  \A d \in Archived : d < next.at => d \in new.blobs
      <3>1. \A d \in Archived : d \in Nat
        BY <1>3, Counted
      <3> QED
        BY <2>1, <2>2, <2>3, <2>5, <3>1, Counted
    <2> QED
      BY <1>9, <2>1, <2>2, <2>3, <2>4, <2>5
  <1> QED
    BY <1>4, <1>5, <1>6, <1>7, <1>8, <1>10, <1>11 DEF RunBackup

-----------------------------------------------------------------------------
(* Steps of a restore. *)

LEMMA RestoringKeeps ==
  ASSUME BackupInv, UNCHANGED <<up, bk, archive>>, bk.pc = "idle",
         BackupTyped', logFile' \/ log' = Empty, RestoreFaithful',
         rst'.pc # "idle" => (rst'.alone => ~up),
         \/ sound' => ~up
         \/ UNCHANGED <<main, log, folded, sound>>,
         sound' => Rows' \subseteq blobs'
  PROVE  BackupInv'
  <1> USE DEF BackupInv
  <1>1. Archived' = Archived
    BY DEF Archived
  <1>2. DbSound' /\ Exclusive'
    BY DEF DbSound, Exclusive, Rows
  <1>3. BackupFaithful' /\ ArchiveFaithful' /\ RowsKeepFiles'
    BY <1>1 DEF BackupFaithful, ArchiveFaithful, RowsKeepFiles
  <1> QED
    BY <1>2, <1>3

\* A restore moves on.
LEMMA RestoreMoves ==
  ASSUME NEW k \in Restoring, NEW pc \in {"idle", "db", "log", "storage", "done"}
  PROVE  /\ [k EXCEPT !.pc = pc] \in Restoring
         /\ [k EXCEPT !.pc = pc].pc = pc
         /\ [k EXCEPT !.pc = pc].left = k.left /\ [k EXCEPT !.pc = pc].stale = k.stale
         /\ [k EXCEPT !.pc = pc].alone = k.alone
  BY DEF Restoring

LEMMA RestoringStep ==
  ASSUME BackupInv, RunRestore
  PROVE  BackupInv'
  <1> USE DEF disk
  <1>1. /\ BackupTyped /\ DbSound /\ ArchiveFaithful /\ RestoreFaithful
        /\ archive \in Archive /\ rst \in Restoring
        /\ (sound => Rows \subseteq blobs)
    BY DEF BackupInv, BackupTyped, RowsKeepFiles
  <1>2. rst.pc # "idle" => bk.pc = "idle" /\ (rst.alone => ~up)
    BY DEF BackupInv, Exclusive
  <1>3. /\ archive.main \subseteq Digests /\ archive.blobs \subseteq Digests
        /\ archive.log \in Logs
    BY <1>1 DEF Archive
  <1>4. ASSUME NEW force \in BOOLEAN, RestoreBegin(force) PROVE BackupInv'
    <2> DEFINE new == [pc |-> "db", left |-> archive.blobs, stale |-> Stale, alone |-> ~up]
    <2>1. /\ bk.pc = "idle" /\ rst' = new /\ sound' = FALSE
          /\ UNCHANGED <<up, exists, main, log, logFile, folded, blobs, bk, archive>>
      BY <1>4 DEF RestoreBegin
    <2>2. Stale \in BOOLEAN
      BY DEF Stale
    <2>3. /\ new \in Restoring /\ new.pc = "db" /\ new.left = archive.blobs
          /\ (new.stale <=> Stale) /\ (new.alone <=> ~up)
      BY <1>1, <1>3, <2>2 DEF Restoring, BackupTyped
    <2> HIDE DEF new
    <2>4. BackupTyped'
      BY <1>1, <2>1, <2>3 DEF BackupTyped
    <2>5. RestoreFaithful'
      BY <1>1, <2>1, <2>3 DEF RestoreFaithful, Stale
    <2> QED
      BY <1>1, <2>1, <2>3, <2>4, <2>5, RestoringKeeps DEF DbSound
  <1>5. CASE RestoreDb
    <2>1. /\ rst.pc = "db" /\ exists' = TRUE /\ main' = archive.main
          /\ rst' = [rst EXCEPT !.pc = "log"]
          /\ UNCHANGED <<up, log, logFile, folded, blobs, bk, archive, sound>>
      BY <1>5 DEF RestoreDb
    <2>2. /\ rst' \in Restoring /\ rst'.pc = "log"
          /\ rst'.left = rst.left /\ rst'.stale = rst.stale /\ rst'.alone = rst.alone
      BY <1>1, <2>1, RestoreMoves
    <2>3. BackupTyped'
      BY <1>1, <1>3, <2>1, <2>2 DEF BackupTyped
    <2>4. RestoreFaithful' /\ ~sound'
      BY <1>1, <2>1, <2>2 DEF RestoreFaithful
    <2> QED
      BY <1>1, <1>2, <2>1, <2>2, <2>3, <2>4, RestoringKeeps DEF DbSound
  <1>6. CASE RestoreLog
    <2>1. /\ rst.pc = "log"
          /\ \/ archive.logFile /\ log' = archive.log /\ logFile' = TRUE
             \/ ~archive.logFile /\ UNCHANGED <<log, logFile>>
          /\ rst' = [rst EXCEPT !.pc = "storage"]
          /\ UNCHANGED <<up, exists, main, folded, blobs, bk, archive, sound>>
      BY <1>6 DEF RestoreLog
    <2>2. /\ rst' \in Restoring /\ rst'.pc = "storage"
          /\ rst'.left = rst.left /\ rst'.stale = rst.stale /\ rst'.alone = rst.alone
      BY <1>1, <2>1, RestoreMoves
    <2>3. BackupTyped'
      BY <1>1, <1>3, <2>1, <2>2 DEF BackupTyped
    <2>4. rst.alone /\ ~rst.stale => log' = archive.log
      BY <1>1, <2>1 DEF RestoreFaithful, DbSound
    <2>5. RestoreFaithful' /\ ~sound'
      BY <1>1, <2>1, <2>2, <2>4 DEF RestoreFaithful
    <2>6. logFile' \/ log' = Empty
      BY <1>1, <2>1 DEF DbSound
    <2> QED
      BY <1>1, <1>2, <2>1, <2>2, <2>3, <2>5, <2>6, RestoringKeeps
  <1>7. ASSUME NEW d \in Digests, RestoreBlob(d) PROVE BackupInv'
    <2>1. /\ rst.pc = "storage" /\ blobs' = blobs \cup {d}
          /\ rst' = [rst EXCEPT !.left = @ \ {d}]
          /\ UNCHANGED <<up, exists, main, log, logFile, folded, bk, archive, sound>>
      BY <1>7 DEF RestoreBlob
    <2>2. /\ rst' \in Restoring /\ rst'.pc = "storage"
          /\ rst'.left = rst.left \ {d} /\ rst'.stale = rst.stale /\ rst'.alone = rst.alone
      BY <1>1, <2>1 DEF Restoring
    <2>3. BackupTyped'
      BY <1>1, <2>1, <2>2 DEF BackupTyped
    <2>4. RestoreFaithful' /\ ~sound'
      BY <1>1, <2>1, <2>2 DEF RestoreFaithful
    <2> QED
      BY <1>1, <1>2, <2>1, <2>2, <2>3, <2>4, RestoringKeeps DEF DbSound
  <1>8. CASE RestoreDone
    <2>1. /\ rst.pc = "storage" /\ rst.left = {}
          /\ rst' = [rst EXCEPT !.pc = "done"]
          /\ sound' = (archive.done /\ archive.sound /\ rst.alone /\ ~rst.stale
                       /\ ~archive.torn /\ ~archive.collected)
          /\ UNCHANGED <<up, exists, main, log, logFile, folded, blobs, bk, archive>>
      BY <1>8 DEF RestoreDone
    <2>2. /\ rst' \in Restoring /\ rst'.pc = "done"
          /\ rst'.left = rst.left /\ rst'.stale = rst.stale /\ rst'.alone = rst.alone
      BY <1>1, <2>1, RestoreMoves
    <2>3. sound' \in BOOLEAN
      BY <2>1
    <2>4. BackupTyped'
      BY <1>1, <2>1, <2>2, <2>3 DEF BackupTyped
    <2>5. RestoreFaithful'
      BY <1>1, <2>1, <2>2 DEF RestoreFaithful
    <2>6. ASSUME sound' PROVE Rows' \subseteq blobs'
      <3>1. archive.done /\ archive.sound /\ rst.alone /\ ~rst.stale /\ ~archive.torn /\ ~archive.collected
        BY <2>1, <2>6
      <3>2. Rows' = Archived
        BY <1>1, <2>1, <3>1 DEF Rows, Archived, RestoreFaithful
      <3>3. Archived \subseteq archive.blobs /\ archive.blobs \subseteq blobs
        BY <1>1, <2>1, <3>1 DEF ArchiveFaithful, RestoreFaithful
      <3> QED
        BY <2>1, <3>2, <3>3
    <2>7. sound' => ~up
      BY <1>2, <2>1
    <2> QED
      BY <1>1, <1>2, <2>1, <2>2, <2>4, <2>5, <2>6, <2>7, RestoringKeeps DEF DbSound
  <1>9. CASE RestoreEnd \/ RestoreFails
    <2>1. /\ rst.pc # "idle" /\ rst' = NoRestore
          /\ UNCHANGED <<up, exists, main, log, logFile, folded, blobs, bk, archive, sound>>
      BY <1>9 DEF RestoreEnd, RestoreFails
    <2>2. NoRestore \in Restoring /\ NoRestore.pc = "idle"
      BY DEF NoRestore, Restoring
    <2>3. Rows' = Rows
      BY <2>1 DEF Rows
    <2>4. BackupTyped'
      BY <1>1, <2>1, <2>2 DEF BackupTyped
    <2>5. RestoreFaithful' /\ rst'.pc = "idle"
      BY <2>1, <2>2 DEF RestoreFaithful
    <2>6. logFile' \/ log' = Empty
      BY <1>1, <2>1 DEF DbSound
    <2>7. sound' => Rows' \subseteq blobs'
      BY <1>1, <2>1, <2>3
    <2> QED
      BY <1>1, <1>2, <2>1, <2>4, <2>5, <2>6, <2>7, RestoringKeeps
  <1> QED
    BY <1>4, <1>5, <1>6, <1>7, <1>8, <1>9 DEF RunRestore

-----------------------------------------------------------------------------
LEMMA InitBackup == BackupInit => BackupInv
  <1> SUFFICES ASSUME BackupInit PROVE BackupInv
    OBVIOUS
  <1>1. /\ Idle \in Running /\ Idle.pc = "idle"
        /\ NoRestore \in Restoring /\ NoRestore.pc = "idle"
    BY DEF Idle, Running, NoRestore, Restoring
  <1>2. /\ NoArchive \in Archive /\ ~NoArchive.done /\ NoArchive.log = Empty
        /\ ~NoArchive.torn /\ ~NoArchive.collected
    BY EmptyLog DEF NoArchive, Archive
  <1>3. BackupTyped
    BY <1>1, <1>2, EmptyLog DEF BackupInit, BackupTyped
  <1>4. Rows = {}
    BY NoRows DEF BackupInit, Rows
  <1>5. DbSound /\ Exclusive
    BY <1>1, <1>2 DEF BackupInit, DbSound, Exclusive
  <1>6. BackupFaithful /\ ArchiveFaithful /\ RestoreFaithful /\ RowsKeepFiles
    BY <1>1, <1>2, <1>4 DEF BackupInit, BackupFaithful, ArchiveFaithful, RestoreFaithful, RowsKeepFiles
  <1> QED
    BY <1>3, <1>5, <1>6 DEF BackupInv

LEMMA BackupStutter ==
  ASSUME BackupInv, UNCHANGED backupVars
  PROVE  BackupInv'
  <1> USE DEF backupVars, disk, BackupInv
  <1>1. Rows' = Rows /\ Archived' = Archived
    BY DEF Rows, Archived
  <1>2. BackupTyped' /\ DbSound' /\ Exclusive'
    BY <1>1 DEF BackupTyped, DbSound, Exclusive
  <1>3. BackupFaithful' /\ ArchiveFaithful' /\ RestoreFaithful' /\ RowsKeepFiles'
    BY <1>1 DEF BackupFaithful, ArchiveFaithful, RestoreFaithful, RowsKeepFiles
  <1> QED
    BY <1>2, <1>3

LEMMA BackupStep == BackupInv /\ [BackupNext]_backupVars => BackupInv'
  BY ServerStep, CopyingStep, RestoringStep, BackupStutter DEF BackupNext

-----------------------------------------------------------------------------
(* The theorems. *)

\* The inductive invariant of the database, the archive and the copies between
\* them, for any number of blobs.
THEOREM BackupInvariance == BackupSpec => []BackupInv
  BY InitBackup, BackupStep, PTL DEF BackupSpec

\* What was backed up while the server was stopped comes back to the row, with
\* its files (backup.go:4-6, restore.go:70-114), by a restore that no server runs
\* beside, after any sequence of crashes, broken backups and broken restores.
THEOREM GivesBackAlways == BackupSpec => []GivesBackWhatWasThere
  <1>1. ASSUME BackupInv PROVE GivesBackWhatWasThere
    <2> SUFFICES ASSUME rst.pc = "done", archive.done, archive.quiet, rst.alone,
                        ~rst.stale
                 PROVE  Rows = archive.taken /\ (archive.sound => archive.taken \subseteq blobs)
      BY DEF GivesBackWhatWasThere
    <2>1. Exclusive /\ ArchiveFaithful /\ RestoreFaithful
      BY <1>1 DEF BackupInv
    <2>2. Rows = Archived
      BY <2>1 DEF RestoreFaithful, Rows, Archived
    <2>3. Archived = archive.taken /\ (archive.sound => Archived \subseteq archive.blobs)
      BY <2>1 DEF ArchiveFaithful, Exclusive
    <2>4. archive.blobs \subseteq blobs
      BY <2>1 DEF RestoreFaithful
    <2> QED
      BY <2>2, <2>3, <2>4
  <1> QED
    BY <1>1, BackupInvariance, PTL

\* Every row has its blob after every step, restores of archives that were taken
\* beside a running server included (backup.go:53-72): the database is copied
\* before the tree. A restore counts here if no server runs beside it.
THEOREM RowsKeepFilesAlways == BackupSpec => []RowsKeepFiles
  <1>1. BackupInv => RowsKeepFiles
    BY DEF BackupInv
  <1> QED
    BY <1>1, BackupInvariance, PTL
=============================================================================
