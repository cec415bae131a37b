----------------------------- MODULE Migrations -----------------------------
(***************************************************************************)
(* Schema migrations at start-up (internal/db/migrate.go). The server, and *)
(* every command line tool that opens the database, reads which versions   *)
(* are applied and then applies the others in order, each in a transaction *)
(* that creates its tables and records its version. Only a statement of    *)
(* the migration itself that fails marks the version dirty, outside of the *)
(* transaction that is rolled back.                                        *)
(***************************************************************************)
EXTENDS Naturals

CONSTANTS
  N,           \* the migrations are numbered 1..N
  Processes,   \* processes that open the database
  MaxCrashes   \* bound on processes that die in ApplyMigrations

ASSUME MigrationAssumption == N \in Nat /\ MaxCrashes \in Nat

Versions == 1..N

VARIABLES
  objects,    \* versions whose tables exist
  mark,       \* mark[v]: the row of v in schema_migrations, "none" without
  proc,       \* proc[p]: process p; todo is what it found not applied
  crashes,
  past        \* what has happened that the code does not provide against:
              \* processes in ApplyMigrations together ("overlap"), and a
              \* statement that failed for a passing reason ("error")

vars == <<objects, mark, proc, crashes, past>>

-----------------------------------------------------------------------------
Off == [pc |-> "off", todo |-> {}]

Migrating == {"read", "apply", "mark"}

Clean == {v \in Versions : mark[v] = "clean"}

\* v is the version that p turns to now.
Turn(p, v) ==
  /\ v \in proc[p].todo
  /\ \A u \in proc[p].todo : v <= u

Error == past' = past \cup {"error"}

Exit(p) == proc' = [proc EXCEPT ![p] = Off]

-----------------------------------------------------------------------------
\* ensureMigrationsTable: CREATE TABLE IF NOT EXISTS.
Begin(p) ==
  /\ proc[p] = Off
  /\ proc' = [proc EXCEPT ![p].pc = "read"]
  /\ past' = past \cup {e \in {"overlap"} : \E q \in Processes : proc[q].pc \in Migrating}
  /\ UNCHANGED <<objects, mark, crashes>>

\* Mutant of appliedVersions: the applied versions are not left out.
appliedVersionsIgnored(p) ==
  /\ proc[p].pc = "read"
  /\ proc' = [proc EXCEPT ![p] = [pc |-> "apply", todo |-> Versions]]
  /\ UNCHANGED <<objects, mark, crashes, past>>

\* SELECT version FROM schema_migrations WHERE NOT dirty.
appliedVersions(p) ==
  /\ proc[p].pc = "read"
  /\ proc' = [proc EXCEPT ![p] = [pc |-> "apply", todo |-> Versions \ Clean]]
  /\ UNCHANGED <<objects, mark, crashes, past>>

\* Mutant of applyOne: the version is recorded in a transaction of its own.
applyOneUnrecorded(p, v) ==
  /\ proc[p].pc = "apply"
  /\ Turn(p, v)
  /\ v \notin objects
  /\ mark[v] = "none"
  /\ objects' = objects \cup {v}
  /\ proc' = [proc EXCEPT ![p].todo = @ \ {v}]
  /\ UNCHANGED <<mark, crashes, past>>

\* Mutant of applyOne: a failed statement is recorded as applied.
applyOneRecorded(p, v) ==
  /\ proc[p].pc = "apply"
  /\ Turn(p, v)
  /\ mark[v] = "none"
  /\ mark' = [mark EXCEPT ![v] = "clean"]
  /\ proc' = [proc EXCEPT ![p].todo = @ \ {v}]
  /\ UNCHANGED <<objects, crashes, past>>

\* The transaction of v commits: its tables and its row.
applyOne(p, v) ==
  /\ proc[p].pc = "apply"
  /\ Turn(p, v)
  /\ v \notin objects
  /\ mark[v] = "none"
  /\ objects' = objects \cup {v}
  /\ mark' = [mark EXCEPT ![v] = "clean"]
  /\ proc' = [proc EXCEPT ![p].todo = @ \ {v}]
  /\ UNCHANGED <<crashes, past>>

\* A statement of v fails: its table is there already, or for a passing reason.
ExecFails(p, v) ==
  /\ proc[p].pc = "apply"
  /\ Turn(p, v)
  /\ \/ v \in objects /\ UNCHANGED past
     \/ Error
  /\ proc' = [proc EXCEPT ![p].pc = "mark"]
  /\ UNCHANGED <<objects, mark, crashes>>

\* Mutant of MarkDirty: the process goes on without the version.
MarkDirtyGoesOn(p, v) ==
  /\ proc[p].pc = "mark"
  /\ Turn(p, v)
  /\ mark' = [mark EXCEPT ![v] = "dirty"]
  /\ proc' = [proc EXCEPT ![p] = [Off EXCEPT !.pc = "up"]]
  /\ UNCHANGED <<objects, crashes, past>>

\* INSERT ... ON CONFLICT DO UPDATE SET dirty: whatever the row says now. The
\* statement may fail, and nobody looks; the process ends with an error.
MarkDirty(p, v) ==
  /\ proc[p].pc = "mark"
  /\ Turn(p, v)
  /\ Exit(p)
  /\ \/ mark' = [mark EXCEPT ![v] = "dirty"] /\ UNCHANGED past
     \/ Error /\ UNCHANGED mark
  /\ UNCHANGED <<objects, crashes>>

\* The row of v cannot be inserted, because there is one or for a passing
\* reason: everything is rolled back.
InsertFails(p, v) ==
  /\ proc[p].pc = "apply"
  /\ Turn(p, v)
  /\ v \notin objects
  /\ \/ mark[v] # "none" /\ UNCHANGED past
     \/ Error
  /\ Exit(p)
  /\ UNCHANGED <<objects, mark, crashes>>

\* Nothing is left: ApplyMigrations returns nil.
Finish(p) ==
  /\ proc[p].pc = "apply"
  /\ proc[p].todo = {}
  /\ proc' = [proc EXCEPT ![p].pc = "up"]
  /\ UNCHANGED <<objects, mark, crashes, past>>

\* A process ends; in ApplyMigrations, it is killed.
Stop(p) ==
  /\ proc[p].pc = "up"
  /\ Exit(p)
  /\ UNCHANGED <<objects, mark, crashes, past>>

Crash(p) ==
  /\ proc[p].pc \in Migrating
  /\ crashes < MaxCrashes
  /\ crashes' = crashes + 1
  /\ Exit(p)
  /\ UNCHANGED <<objects, mark, past>>

-----------------------------------------------------------------------------
Init ==
  /\ objects = {}
  /\ mark = [v \in Versions |-> "none"]
  /\ proc = [p \in Processes |-> Off]
  /\ crashes = 0
  /\ past = {}

\* What a process does of itself, from its start to the end of ApplyMigrations.
Step(p) ==
  \/ Begin(p)
  \/ appliedVersions(p)
  \/ \E v \in Versions :
       \/ applyOne(p, v)
       \/ ExecFails(p, v)
       \/ MarkDirty(p, v)
       \/ InsertFails(p, v)
  \/ Finish(p)

Next == \E p \in Processes : Step(p) \/ Stop(p) \/ Crash(p)

Spec == Init /\ [][Next]_vars

\* A process that is started runs, and one that exits is started again (the
\* systemd unit and the Kubernetes deployment restart it).
FairSpec == Spec /\ \A p \in Processes : SF_vars(Step(p))

-----------------------------------------------------------------------------
(* Properties. *)

TypeOK ==
  /\ objects \subseteq Versions
  /\ mark \in [Versions -> {"none", "clean", "dirty"}]
  /\ proc \in [Processes -> [pc: {"off", "up"} \cup Migrating, todo: SUBSET Versions]]
  /\ crashes \in Nat
  /\ past \subseteq {"overlap", "error"}

\* A version that is recorded as applied has its tables, and no version has
\* them before the versions it builds on, whatever processes overlap, fail or
\* die (migrate.go:46-55, 144-168).
AppliedInOrder ==
  /\ Clean \subseteq objects
  /\ \A v \in objects : \A u \in Versions : u < v => u \in objects

\* A process that gets past ApplyMigrations works on the whole schema
\* (serve.go:67-70).
UpIsCurrent == \A p \in Processes : proc[p].pc = "up" => objects = Versions

\* "Safe to call at every startup; it is a no-op once the schema is current"
\* (migrate.go:23-24): nothing takes a current schema back, through deaths and
\* failing statements, as long as no two processes have been in ApplyMigrations
\* together: then the later one's dirty mark overwrites the row of a version
\* that is applied.
NoopOnceCurrent ==
  [][Clean = Versions /\ "overlap" \notin past' => UNCHANGED <<objects, mark>>]_vars

\* A process that keeps being started gets up again and again, after deaths in
\* any place (migrate.go:23: "Safe to call at every startup"). Neither an
\* overlap nor a statement that failed once may lie behind it: a dirty row
\* makes every later INSERT fail (migrate.go:158-161).
StartsUp == \A p \in Processes : []<>(proc[p].pc = "up" \/ past # {})
=============================================================================
