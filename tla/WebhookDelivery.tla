-------------------------- MODULE WebhookDelivery ---------------------------
(***************************************************************************)
(* Webhook subscriptions and the delivery of their events                  *)
(* (internal/webhook: webhook.go, worker.go).                              *)
(*                                                                         *)
(* Fire starts one goroutine per matching subscription. It inserts a row   *)
(* that is "pending" with one attempt, posts, and marks the row. A retry   *)
(* worker in every server process scans for failed rows that are due and   *)
(* posts them one after the other, from the values it read in the scan.    *)
(* Rows outlive the processes; goroutines do not. Database errors are      *)
(* ignored or logged, and the code goes on.                                *)
(*                                                                         *)
(* A row is due or not; how long it takes to become due, a minute or half  *)
(* an hour, makes no difference to what is promised.                       *)
(***************************************************************************)
EXTENDS Naturals, Sequences, Functions

CONSTANTS
  Hooks,        \* webhook ids (UUIDs): each created at most once
  Events,       \* calls of Fire, each made once
  Processes,    \* server processes on one database, each with its worker
  MaxAttempts,  \* maxAttempts in worker.go, where it is 6
  BatchLimit,   \* LIMIT of the worker's query, where it is 50
  Enforced,     \* whether the connection a statement gets enforces foreign
                \*   keys: {TRUE} for Postgres, {TRUE, FALSE} for a pool of
                \*   SQLite connections of which only one got the pragma
  MaxFaults,    \* bound on process deaths and failed statements
  None          \* no process, no row

ASSUME DeliveryAssumption ==
  /\ MaxAttempts \in Nat \ {0, 1}
  /\ BatchLimit \in Nat \ {0}
  /\ MaxFaults \in Nat
  /\ Enforced \in SUBSET BOOLEAN
  /\ None \notin Processes

VARIABLES
  hooks,      \* the rows of table webhooks, all active
  unborn,     \* webhooks that have not been created yet
  row,        \* row[d]: the row of delivery d in webhook_deliveries, or None
  order,      \* the deliveries that got a row, by created_at
  sender,     \* sender[d]: the goroutine that runs deliver for d
  worker,     \* worker[p]: the retry loop of process p
  accepted,   \* deliveries that the subscriber answered with 2xx
  contended,  \* deliveries that two workers have had in hand at a time
  faults      \* process deaths and failed statements so far

vars == <<hooks, unborn, row, order, sender, worker, accepted, contended, faults>>
tableVars == <<row, order>>

\* One goroutine, and at most one row, for each event and subscription.
Deliveries == Events \X Hooks
HookOf(d) == d[2]

-----------------------------------------------------------------------------
Status == {"pending", "delivered", "failed"}

NoSender == [pc |-> "off", proc |-> None]
NoBatch == [pc |-> "idle", batch |-> <<>>]

Fault == faults < MaxFaults /\ faults' = faults + 1

\* An UPDATE of the columns of row d, which does nothing if the row is gone.
Update(d, columns) ==
  row' = [row EXCEPT ![d] = IF @ = None THEN None ELSE columns]

\* The outcome of a POST: the subscriber accepts it or not, and its answer may
\* be lost to a timeout. "ok" is all that the code sees of it.
Post(d, ok) ==
  \/ accepted' = accepted \cup {d}
  \/ ~ok /\ accepted' = accepted

-----------------------------------------------------------------------------
(* The admin API. *)

\* Mutant of Create: an id can be given out again.
CreateAgain(h) ==
  /\ h \in Hooks
  /\ hooks' = hooks \cup {h}
  /\ UNCHANGED <<unborn, tableVars, sender, worker, accepted, faults, contended>>

Create(h) ==
  /\ h \in unborn
  /\ unborn' = unborn \ {h}
  /\ hooks' = hooks \cup {h}
  /\ UNCHANGED <<tableVars, sender, worker, accepted, faults, contended>>

\* The rows of deliveries of h go with it where foreign keys are enforced.
Delete(h) ==
  /\ h \in hooks
  /\ hooks' = hooks \ {h}
  /\ \E enforced \in Enforced :
       row' = [d \in Deliveries |-> IF enforced /\ HookOf(d) = h THEN None ELSE row[d]]
  /\ UNCHANGED <<unborn, order, sender, worker, accepted, faults, contended>>

-----------------------------------------------------------------------------
(* Fire and deliver. *)

\* Fire returns when it has started a goroutine for each active subscription.
Fire(p, e) ==
  /\ \A h \in Hooks : sender[<<e, h>>] = NoSender
  /\ sender' = [d \in Deliveries |->
       IF d[1] = e /\ HookOf(d) \in hooks THEN [pc |-> "insert", proc |-> p] ELSE sender[d]]
  /\ UNCHANGED <<hooks, unborn, tableVars, worker, accepted, faults, contended>>

SenderGoto(d, from, to) ==
  /\ sender[d].pc = from
  /\ sender' = [sender EXCEPT ![d].pc = to]

\* INSERT ... 'pending', one attempt. It is refused when the webhook is gone.
Insert(d) ==
  /\ SenderGoto(d, "insert", "post")
  /\ \E enforced \in Enforced :
       IF enforced /\ HookOf(d) \notin hooks
       THEN UNCHANGED tableVars
       ELSE /\ row' = [row EXCEPT ![d] = [status |-> "pending", attempts |-> 1, due |-> TRUE]]
            /\ order' = Append(order, d)
  /\ UNCHANGED <<hooks, unborn, worker, accepted, faults, contended>>

\* Mutant of SendFirst: any answer is taken for an acceptance.
SendFirstOptimist(d, ok) ==
  /\ SenderGoto(d, "post", "delivered")
  /\ Post(d, ok)
  /\ UNCHANGED <<hooks, unborn, tableVars, worker, faults, contended>>

SendFirst(d, ok) ==
  /\ SenderGoto(d, "post", IF ok THEN "delivered" ELSE "failed")
  /\ Post(d, ok)
  /\ UNCHANGED <<hooks, unborn, tableVars, worker, faults, contended>>

\* The outcome becomes the row's status.
markDelivery(d) ==
  /\ sender[d].pc \in {"delivered", "failed"}
  /\ SenderGoto(d, sender[d].pc, "done")
  /\ Update(d, [row[d] EXCEPT !.status = sender[d].pc])
  /\ UNCHANGED <<hooks, unborn, order, worker, accepted, faults, contended>>

\* The statement of Insert, or of markDelivery, fails: nobody is told.
SenderStatementFails(d) ==
  /\ \/ SenderGoto(d, "insert", "post")
     \/ SenderGoto(d, "delivered", "done")
     \/ SenderGoto(d, "failed", "done")
  /\ Fault
  /\ UNCHANGED <<hooks, unborn, tableVars, worker, accepted, contended>>

-----------------------------------------------------------------------------
(* The retry worker. *)

\* Mutant of IsDue: an off-by-one in the limit.
IsDueOnceMore(d) ==
  /\ HookOf(d) \in hooks
  /\ row[d].status = "failed"
  /\ row[d].attempts <= MaxAttempts
  /\ row[d].due

\* Mutant of IsDue: rows that a goroutine is delivering are picked up too.
IsDueOrPending(d) ==
  /\ HookOf(d) \in hooks
  /\ row[d].status # "delivered"
  /\ row[d].attempts < MaxAttempts
  /\ row[d].due

\* Failed, attempts left, and next_attempt_at NULL or reached; the query joins
\* webhooks, so the subscription must still be there.
IsDue(d) ==
  /\ HookOf(d) \in hooks
  /\ row[d].status = "failed"
  /\ row[d].attempts < MaxAttempts
  /\ row[d].due

Due == {d \in Deliveries : row[d] # None /\ IsDue(d)}

Before(d, e) == \E i, j \in DOMAIN order : i < j /\ order[i] = d /\ order[j] = e

\* ORDER BY created_at LIMIT BatchLimit: no row that is due is passed over.
Oldest(found) ==
  /\ \A i, j \in DOMAIN found : i < j => Before(found[i], found[j])
  /\ \A d \in Due \ Range(found) :
       Len(found) = BatchLimit /\ \A e \in Range(found) : Before(e, d)

\* The deliveries that the worker of p has read and has not dealt with.
InHand(p) == {worker[p].batch[i].id : i \in DOMAIN worker[p].batch}

\* runOnce scans: the oldest rows that are due, with the attempts they have.
Scan(p) ==
  /\ worker[p].pc = "idle"
  /\ \E n \in 1..BatchLimit : \E found \in [1..n -> Due] :
       /\ Oldest(found)
       /\ worker' = [worker EXCEPT ![p] =
            [pc |-> "post",
             batch |-> [i \in 1..n |-> [id |-> found[i], attempts |-> row[found[i]].attempts]]]]
       /\ contended' = contended \cup
            {d \in Range(found) : \E q \in Processes \ {p} : d \in InHand(q)}
  /\ UNCHANGED <<hooks, unborn, tableVars, sender, accepted, faults>>

\* retryOne posts the first row of the batch.
Retry(p, ok) ==
  /\ worker[p].pc = "post"
  /\ Post(Head(worker[p].batch).id, ok)
  /\ worker' = [worker EXCEPT ![p].pc = IF ok THEN "delivered" ELSE "retry"]
  /\ UNCHANGED <<hooks, unborn, tableVars, sender, faults, contended>>

\* On to the next row of the batch.
NextRow(p) ==
  LET rest == Tail(worker[p].batch) IN
  worker' = [worker EXCEPT ![p] =
    IF rest = <<>> THEN NoBatch ELSE [pc |-> "post", batch |-> rest]]

\* UPDATE ... SET status = 'delivered', attempts = attempts + 1.
MarkDelivered(p) ==
  LET d == Head(worker[p].batch).id IN
  /\ worker[p].pc = "delivered"
  /\ Update(d, [row[d] EXCEPT !.status = "delivered", !.attempts = @ + 1])
  /\ NextRow(p)
  /\ UNCHANGED <<hooks, unborn, order, sender, accepted, faults, contended>>

\* The columns that markRetry writes: the attempts of the scan plus one, and
\* the time of the next attempt, in the future, or NULL after the last.
Retried(r, attempts) ==
  [r EXCEPT !.attempts = attempts,
            !.due = attempts >= MaxAttempts]

\* Mutant of markRetry: an off-by-one in the attempts.
markRetryUncounted(p) ==
  LET d == Head(worker[p].batch).id IN
  /\ worker[p].pc = "retry"
  /\ Update(d, Retried(row[d], Head(worker[p].batch).attempts))
  /\ NextRow(p)
  /\ UNCHANGED <<hooks, unborn, order, sender, accepted, faults, contended>>

\* Mutant of markRetry: the status is written with the other columns.
markRetryStatus(p) ==
  LET d == Head(worker[p].batch).id IN
  /\ worker[p].pc = "retry"
  /\ Update(d, [Retried(row[d], Head(worker[p].batch).attempts + 1)
                 EXCEPT !.status = "failed"])
  /\ NextRow(p)
  /\ UNCHANGED <<hooks, unborn, order, sender, accepted, faults, contended>>

\* The status of the row is left as it is.
markRetry(p) ==
  LET d == Head(worker[p].batch).id IN
  /\ worker[p].pc = "retry"
  /\ Update(d, Retried(row[d], Head(worker[p].batch).attempts + 1))
  /\ NextRow(p)
  /\ UNCHANGED <<hooks, unborn, order, sender, accepted, faults, contended>>

\* The statement of MarkDelivered, or of markRetry, fails: a line in the log.
WorkerStatementFails(p) ==
  /\ worker[p].pc \in {"delivered", "retry"}
  /\ Fault
  /\ NextRow(p)
  /\ UNCHANGED <<hooks, unborn, tableVars, sender, accepted, contended>>

-----------------------------------------------------------------------------
\* Process p dies and starts again: its goroutines are gone.
Crash(p) ==
  /\ Fault
  /\ sender' = [d \in Deliveries |->
       IF sender[d].proc = p /\ sender[d].pc # "done"
       THEN [sender[d] EXCEPT !.pc = "dead"] ELSE sender[d]]
  /\ worker' = [worker EXCEPT ![p] = NoBatch]
  /\ UNCHANGED <<hooks, unborn, tableVars, accepted, contended>>

\* The time of the next attempt of d is reached.
ComeDue(d) ==
  /\ row[d] # None
  /\ ~row[d].due
  /\ row' = [row EXCEPT ![d].due = TRUE]
  /\ UNCHANGED <<hooks, unborn, order, sender, worker, accepted, faults, contended>>

-----------------------------------------------------------------------------
Init ==
  /\ hooks = {}
  /\ unborn = Hooks
  /\ row = [d \in Deliveries |-> None]
  /\ order = <<>>
  /\ sender = [d \in Deliveries |-> NoSender]
  /\ worker = [p \in Processes |-> NoBatch]
  /\ accepted = {}
  /\ contended = {}
  /\ faults = 0

SenderStep(d) ==
  \/ Insert(d)
  \/ \E ok \in BOOLEAN : SendFirst(d, ok)
  \/ markDelivery(d)

WorkerStep(p) ==
  \/ Scan(p)
  \/ \E ok \in BOOLEAN : Retry(p, ok)
  \/ MarkDelivered(p)
  \/ markRetry(p)

Next ==
  \/ \E h \in Hooks : Create(h) \/ Delete(h)
  \/ \E p \in Processes :
       \/ \E e \in Events : Fire(p, e)
       \/ WorkerStep(p)
       \/ WorkerStatementFails(p)
       \/ Crash(p)
  \/ \E d \in Deliveries : SenderStep(d) \/ SenderStatementFails(d) \/ ComeDue(d)

Spec == Init /\ [][Next]_vars

\* A goroutine runs on while its process lives, the worker polls every thirty
\* seconds, posts end by a timeout, and time passes.
FairSpec ==
  /\ Spec
  /\ \A d \in Deliveries : WF_vars(SenderStep(d)) /\ WF_vars(ComeDue(d))
  /\ \A p \in Processes : WF_vars(WorkerStep(p))

-----------------------------------------------------------------------------
(* Properties. *)

Row == [status: Status, attempts: Nat, due: BOOLEAN]

Goroutine == [pc: {"off", "insert", "post", "delivered", "failed", "done", "dead"},
              proc: Processes \cup {None}]

Item == [id: Deliveries, attempts: Nat]

Loop == [pc: {"idle", "post", "delivered", "retry"}, batch: Seq(Item)]

TypeOK ==
  /\ hooks \subseteq Hooks
  /\ unborn \subseteq Hooks \ hooks
  /\ row \in [Deliveries -> Row \cup {None}]
  /\ order \in Seq(Deliveries)
  /\ sender \in [Deliveries -> Goroutine]
  /\ worker \in [Processes -> Loop]
  /\ accepted \subseteq Deliveries
  /\ contended \subseteq Deliveries
  /\ faults \in 0..MaxFaults

\* A row that says "delivered" was accepted by the subscriber, whichever of
\* the goroutine and the workers wrote it (webhook.go:222-226, worker.go:134).
DeliveredWasAccepted ==
  \A d \in Deliveries :
    row[d] # None /\ row[d].status = "delivered" => d \in accepted

\* A delivered row stays delivered, also when another replica's worker gives
\* up on the attempt that it had begun before (worker.go:146-168).
DeliveredIsFinal ==
  [][\A d \in Deliveries :
       row[d] # None /\ row[d].status = "delivered" =>
         row'[d] = None \/ row'[d].status = "delivered"]_vars

\* The attempts column of a row does not pass MaxAttempts ("up to 6 attempts",
\* README.md:582-583), through deaths and failing statements, as long as no two
\* replicas' workers have scanned the row at a time: nothing claims it
\* (worker.go:73-98). It is the column that is bounded, and not the POSTs: one
\* whose UPDATE fails, or whose process dies before it, is made again, uncounted.
AttemptsWithinLimit ==
  \A d \in Deliveries \ contended : row[d] # None => row[d].attempts <= MaxAttempts

\* A worker has no row in hand that the goroutine which created it is still
\* delivering: the first attempt has ended before a retry is made, on whichever
\* replica (webhook.go:189-227, worker.go:73-98).
RetriesAfterFirst ==
  \A p \in Processes : \A d \in InHand(p) : sender[d].pc \in {"done", "dead"}

\* A failed row of an active subscription is retried until it is delivered or
\* its attempts are used up ("Failed deliveries retry with exponential
\* backoff", README.md:417-418).
Failed(d) ==
  /\ HookOf(d) \in hooks
  /\ row[d] # None
  /\ row[d].status = "failed"
  /\ row[d].attempts < MaxAttempts

FailedIsSettled ==
  \A d \in Deliveries : []<>~Failed(d)
=============================================================================
