----------------------- MODULE WebhookDeliveryProofs -----------------------
(***************************************************************************)
(* Proofs about the delivery of webhooks' events.                          *)
(***************************************************************************)
EXTENDS WebhookDelivery, SequenceTheorems, TLAPS

DeliveryTyped ==
  /\ hooks \subseteq Hooks
  /\ unborn \subseteq Hooks \ hooks
  /\ row \in [Deliveries -> Row \cup {None}]
  /\ order \in Seq(Deliveries)
  /\ sender \in [Deliveries -> Goroutine]
  /\ worker \in [Processes -> Loop]
  /\ accepted \subseteq Deliveries
  /\ contended \subseteq Deliveries
  /\ faults \in 0..MaxFaults

-----------------------------------------------------------------------------
(* The inductive invariant. *)

\* A row is written by its goroutine first; until that one ends, the row says
\* "pending" and one attempt.
RowAt(d) ==
  row[d] # None =>
    /\ sender[d].pc \notin {"off", "insert"}
    /\ sender[d].pc \notin {"done", "dead"} => row[d].status = "pending" /\ row[d].attempts = 1
    /\ row[d].status = "delivered" => d \in accepted
    /\ d \notin contended => row[d].attempts <= MaxAttempts

RowsFollow == \A d \in Deliveries : RowAt(d)

\* Who is about to mark a row as delivered has the subscriber's answer.
FirstAccepted == \A d \in Deliveries : sender[d].pc = "delivered" => d \in accepted
RetryAccepted ==
  \A p \in Processes : worker[p].pc = "delivered" => Head(worker[p].batch).id \in accepted

\* A delivery is put in the order when it is inserted, once.
Ordered ==
  /\ \A i \in DOMAIN order : sender[order[i]].pc \notin {"off", "insert"}
  /\ \A i, j \in DOMAIN order : order[i] = order[j] => i = j

\* A batch has rows whose first attempt has ended and that have attempts left,
\* each once.
BatchSound(p) ==
  /\ worker[p].pc # "idle" => worker[p].batch # <<>>
  /\ \A i \in DOMAIN worker[p].batch :
       /\ sender[worker[p].batch[i].id].pc \in {"done", "dead"}
       /\ worker[p].batch[i].attempts < MaxAttempts
  /\ \A i, j \in DOMAIN worker[p].batch : worker[p].batch[i].id = worker[p].batch[j].id => i = j

BatchesSound == \A p \in Processes : BatchSound(p)

\* What a worker alone has in hand still has the attempts of the scan.
Claimed ==
  \A p \in Processes : \A i \in DOMAIN worker[p].batch :
    LET d == worker[p].batch[i].id IN
    d \notin contended =>
      /\ row[d] # None => row[d].attempts = worker[p].batch[i].attempts
      /\ \A q \in Processes \ {p} : d \notin InHand(q)

DeliveryInv ==
  /\ DeliveryTyped
  /\ RowsFollow
  /\ FirstAccepted
  /\ RetryAccepted
  /\ Ordered
  /\ BatchesSound
  /\ Claimed

-----------------------------------------------------------------------------
(* Batches. *)

LEMMA RestOfBatch ==
  ASSUME NEW s \in Seq(Item), s # <<>>
  PROVE  /\ 1 \in DOMAIN s /\ Head(s) = s[1] /\ Head(s) \in Item
         /\ Tail(s) \in Seq(Item)
         /\ \A i \in DOMAIN Tail(s) :
              i \in Nat /\ i + 1 \in DOMAIN s /\ i + 1 # 1 /\ Tail(s)[i] = s[i + 1]
  <1>1. Len(s) \in Nat /\ Len(s) >= 1 /\ DOMAIN s = 1..Len(s)
    OBVIOUS
  <1>2. Tail(s) \in Seq(Item) /\ Len(Tail(s)) = Len(s) - 1
    BY <1>1
  <1>3. \A i \in 1..Len(Tail(s)) : Tail(s)[i] = s[i + 1]
    BY <1>1, <1>2
  <1>4. DOMAIN Tail(s) = 1..Len(Tail(s))
    BY <1>2
  <1>5. Head(s) = s[1] /\ s[1] \in Item
    BY <1>1
  <1> QED
    BY <1>1, <1>2, <1>3, <1>4, <1>5

\* What a worker has in its batch.
LEMMA InBatch ==
  ASSUME worker \in [Processes -> Loop], NEW p \in Processes, NEW i \in DOMAIN worker[p].batch
  PROVE  /\ worker[p].batch \in Seq(Item)
         /\ worker[p].batch[i].id \in Deliveries
         /\ worker[p].batch[i].attempts \in Nat
         /\ worker[p].batch[i].id \in InHand(p)
  <1>1. worker[p].batch \in Seq(Item)
    BY DEF Loop
  <1>2. worker[p].batch[i] \in Item
    BY <1>1
  <1> QED
    BY <1>1, <1>2 DEF InHand, Item

-----------------------------------------------------------------------------
(* Steps that change no batch except by emptying it. *)

LEMMA TableKeeps ==
  ASSUME DeliveryInv, DeliveryTyped', RowsFollow', FirstAccepted', Ordered',
         accepted \subseteq accepted', contended' = contended,
         \A p \in Processes : worker'[p] = worker[p] \/ worker'[p] = NoBatch,
         \A d \in Deliveries : sender[d].pc \in {"done", "dead"} =>
           /\ sender'[d].pc \in {"done", "dead"}
           /\ row'[d] # None => row[d] # None /\ row'[d].attempts = row[d].attempts
  PROVE  DeliveryInv'
  <1> USE DEF DeliveryInv
  <1>0. worker \in [Processes -> Loop]
    BY DEF DeliveryTyped
  <1>1. \A p \in Processes : \A i \in DOMAIN worker'[p].batch : worker'[p] = worker[p]
    BY DEF NoBatch
  <1>2. RetryAccepted'
    BY DEF RetryAccepted, NoBatch
  <1>3. ASSUME NEW p \in Processes PROVE BatchSound(p)'
    <2>1. CASE worker'[p] = NoBatch
      BY <2>1 DEF BatchSound, NoBatch
    <2>2. CASE worker'[p] = worker[p]
      <3>1. BatchSound(p)
        BY DEF BatchesSound
      <3>2. \A i \in DOMAIN worker[p].batch : worker[p].batch[i].id \in Deliveries
        BY <1>0, InBatch
      <3> QED
        BY <2>2, <3>1, <3>2 DEF BatchSound
    <2> QED
      BY <2>1, <2>2
  <1>4. \A q \in Processes : InHand(q)' \subseteq InHand(q)
    <2> TAKE q \in Processes
    <2>1. CASE worker'[q] = NoBatch
      BY <2>1 DEF InHand, NoBatch
    <2>2. CASE worker'[q] = worker[q]
      BY <2>2 DEF InHand
    <2> QED
      BY <2>1, <2>2
  <1>5. Claimed'
    <2> SUFFICES ASSUME NEW p \in Processes, NEW i \in DOMAIN worker'[p].batch,
                        worker'[p].batch[i].id \notin contended'
                 PROVE  LET d == worker'[p].batch[i].id IN
                        /\ row'[d] # None => row'[d].attempts = worker'[p].batch[i].attempts
                        /\ \A q \in Processes \ {p} : d \notin InHand(q)'
      BY DEF Claimed
    <2> DEFINE d == worker[p].batch[i].id
    <2>1. worker'[p] = worker[p] /\ i \in DOMAIN worker[p].batch /\ d \notin contended
      BY <1>1
    <2>2. /\ row[d] # None => row[d].attempts = worker[p].batch[i].attempts
          /\ \A q \in Processes \ {p} : d \notin InHand(q)
      BY <2>1 DEF Claimed
    <2>3. d \in Deliveries /\ sender[d].pc \in {"done", "dead"}
      BY <2>1, <1>0, InBatch DEF BatchesSound, BatchSound
    <2> QED
      BY <2>1, <2>2, <2>3, <1>4
  <1> QED
    BY <1>2, <1>3, <1>5 DEF BatchesSound

-----------------------------------------------------------------------------
(* Steps of a worker on the first row of its batch. *)

LEMMA WorkerKeeps ==
  ASSUME DeliveryInv, NEW p \in Processes, worker[p].batch # <<>>, DeliveryTyped',
         NEW d \in Deliveries, d = Head(worker[p].batch).id,
         UNCHANGED <<sender, order, contended>>,
         accepted \subseteq accepted',
         \A q \in Processes \ {p} : worker'[q] = worker[q],
         \A e \in Deliveries \ {d} : row'[e] = row[e],
         RowAt(d)',
         \/ /\ row' = row
            /\ worker'[p].batch = worker[p].batch
            /\ worker'[p].pc = "delivered" => d \in accepted'
         \/ /\ worker'[p].batch = Tail(worker[p].batch)
            /\ worker'[p].pc # "delivered"
            /\ worker'[p].pc # "idle" => worker'[p].batch # <<>>
  PROVE  DeliveryInv'
  <1> USE DEF DeliveryInv
  <1>0. worker \in [Processes -> Loop] /\ worker' \in [Processes -> Loop]
    BY DEF DeliveryTyped
  <1>1. worker[p].batch \in Seq(Item)
    BY <1>0 DEF Loop
  <1>2. RowsFollow'
    <2> SUFFICES ASSUME NEW e \in Deliveries PROVE RowAt(e)'
      BY DEF RowsFollow
    <2>1. CASE e = d
      BY <2>1 DEF RowAt
    <2>2. CASE e # d
      <3>1. RowAt(e) /\ row'[e] = row[e]
        BY <2>2 DEF RowsFollow
      <3> QED
        BY <3>1 DEF RowAt
    <2> QED
      BY <2>1, <2>2
  <1>3. FirstAccepted' /\ Ordered'
    BY DEF FirstAccepted, Ordered
  <1>4. RetryAccepted'
    <2> SUFFICES ASSUME NEW q \in Processes, worker'[q].pc = "delivered"
                 PROVE  Head(worker'[q].batch).id \in accepted'
      BY DEF RetryAccepted
    <2>1. CASE q = p
      BY <2>1
    <2>2. CASE q # p
      BY <2>2 DEF RetryAccepted
    <2> QED
      BY <2>1, <2>2
  <1>5. ASSUME worker'[p].batch = Tail(worker[p].batch)
        PROVE  \A i \in DOMAIN worker'[p].batch :
                 /\ i \in Nat /\ i + 1 \in DOMAIN worker[p].batch /\ i + 1 # 1
                 /\ worker'[p].batch[i] = worker[p].batch[i + 1]
    BY <1>1, <1>5, RestOfBatch
  <1>6. BatchSound(p)
    BY DEF BatchesSound
  <1>7. 1 \in DOMAIN worker[p].batch /\ d = worker[p].batch[1].id
    BY <1>1, RestOfBatch
  <1>8. ASSUME NEW q \in Processes PROVE BatchSound(q)'
    <2>1. CASE q # p
      BY <2>1 DEF BatchesSound, BatchSound
    <2>2. CASE q = p /\ worker'[p].batch = worker[p].batch
      BY <2>2, <1>6 DEF BatchSound
    <2>3. CASE q = p /\ worker'[p].batch = Tail(worker[p].batch) /\ worker'[p].batch # <<>>
      BY <2>3, <1>5, <1>6 DEF BatchSound
    <2>4. CASE q = p /\ worker'[p].batch = Tail(worker[p].batch) /\ worker'[p].batch = <<>>
      BY <2>4, <1>5, <1>6 DEF BatchSound
    <2> QED
      BY <2>1, <2>2, <2>3, <2>4
  <1>9. \A q \in Processes : InHand(q)' \subseteq InHand(q)
    <2> TAKE q \in Processes
    <2>1. CASE q # p
      BY <2>1 DEF InHand
    <2>2. CASE q = p /\ worker'[p].batch = worker[p].batch
      BY <2>2 DEF InHand
    <2>3. CASE q = p /\ worker'[p].batch = Tail(worker[p].batch)
      BY <2>3, <1>5 DEF InHand
    <2> QED
      BY <2>1, <2>2, <2>3
  <1>10. Claimed'
    <2> SUFFICES ASSUME NEW q \in Processes, NEW i \in DOMAIN worker'[q].batch,
                        worker'[q].batch[i].id \notin contended
                 PROVE  LET e == worker'[q].batch[i].id IN
                        /\ row'[e] # None => row'[e].attempts = worker'[q].batch[i].attempts
                        /\ \A z \in Processes \ {q} : e \notin InHand(z)'
      BY DEF Claimed
    <2>1. PICK j \in DOMAIN worker[q].batch :
            /\ worker'[q].batch[i] = worker[q].batch[j]
            /\ q = p /\ worker'[p].batch = Tail(worker[p].batch) => j # 1
      <3>1. CASE q # p
        BY <3>1
      <3>2. CASE q = p /\ worker'[p].batch = worker[p].batch
               /\ worker'[p].batch # Tail(worker[p].batch)
        BY <3>2
      <3>3. CASE q = p /\ worker'[p].batch = Tail(worker[p].batch)
        BY <3>3, <1>5
      <3> QED
        BY <3>1, <3>2, <3>3
    <2> DEFINE e == worker[q].batch[j].id
    <2>2. e \notin contended /\ e \in Deliveries /\ e \in InHand(q)
      BY <2>1, <1>0, InBatch
    <2>3. /\ row[e] # None => row[e].attempts = worker[q].batch[j].attempts
          /\ \A z \in Processes \ {q} : e \notin InHand(z)
      BY <2>1, <2>2 DEF Claimed
    <2>4. row'[e] = row[e]
      <3>1. CASE e # d
        BY <2>2, <3>1
      <3>2. CASE e = d /\ q = p
        <4>1. j = 1
          BY <3>2, <1>6, <1>7 DEF BatchSound
        <4> QED
          BY <2>1, <3>2, <4>1
      <3>3. CASE e = d /\ q # p
        <4>1. d \in InHand(p)
          BY <1>0, <1>7, InBatch
        <4> QED
          BY <3>3, <4>1, <2>3
      <3> QED
        BY <3>1, <3>2, <3>3
    <2> QED
      BY <2>1, <2>3, <2>4, <1>9
  <1> QED
    BY <1>2, <1>3, <1>4, <1>8, <1>10 DEF BatchesSound

-----------------------------------------------------------------------------
(* The steps of a goroutine. *)

\* A goroutine that moves on from a place before its end.
LEMMA SenderMoves ==
  ASSUME sender \in [Deliveries -> Goroutine], NEW d \in Deliveries,
         NEW to \in {"post", "delivered", "failed", "done"},
         sender' = [sender EXCEPT ![d].pc = to]
  PROVE  /\ sender' \in [Deliveries -> Goroutine]
         /\ sender'[d].pc = to
         /\ \A e \in Deliveries \ {d} : sender'[e] = sender[e]
  BY DEF Goroutine

\* A step of the goroutine of d, which looks after no other row.
LEMMA SenderKeeps ==
  ASSUME DeliveryInv, NEW d \in Deliveries,
         NEW to \in {"post", "delivered", "failed", "done"},
         sender[d].pc \in {"insert", "post", "delivered", "failed"},
         sender' = [sender EXCEPT ![d].pc = to],
         row' \in [Deliveries -> Row \cup {None}],
         \A e \in Deliveries \ {d} : row'[e] = row[e],
         row'[d] # None =>
           /\ to # "done" => row'[d].status = "pending" /\ row'[d].attempts = 1
           /\ row'[d].status = "delivered" => d \in accepted'
           /\ row'[d].attempts = 1,
         to = "delivered" => d \in accepted',
         \/ order' = order
         \/ sender[d].pc = "insert" /\ order' = Append(order, d),
         accepted \subseteq accepted', accepted' \subseteq Deliveries,
         faults' \in 0..MaxFaults,
         UNCHANGED <<hooks, unborn, worker, contended>>
  PROVE  DeliveryInv'
  <1> USE DEF DeliveryInv
  <1>0. DeliveryTyped
    OBVIOUS
  <1>1. /\ sender' \in [Deliveries -> Goroutine]
        /\ sender'[d].pc = to
        /\ \A e \in Deliveries \ {d} : sender'[e] = sender[e]
    BY <1>0, SenderMoves DEF DeliveryTyped
  <1>2. order' \in Seq(Deliveries)
    BY <1>0 DEF DeliveryTyped
  <1>3. DeliveryTyped'
    BY <1>0, <1>1, <1>2 DEF DeliveryTyped
  <1>4. RowsFollow'
    <2> SUFFICES ASSUME NEW e \in Deliveries PROVE RowAt(e)'
      BY DEF RowsFollow
    <2>1. CASE e = d
      <3>1. 1 <= MaxAttempts
        BY DeliveryAssumption DEF DeliveryAssumption
      <3> QED
        BY <1>1, <2>1, <3>1 DEF RowAt
    <2>2. CASE e # d
      <3>1. RowAt(e) /\ row'[e] = row[e] /\ sender'[e] = sender[e]
        BY <1>1, <2>2 DEF RowsFollow
      <3> QED
        BY <3>1 DEF RowAt
    <2> QED
      BY <2>1, <2>2
  <1>5. FirstAccepted'
    BY <1>1 DEF FirstAccepted
  <1>6. Ordered'
    <2>0. order \in Seq(Deliveries) /\ \A i \in DOMAIN order : order[i] \in Deliveries
      BY <1>0 DEF DeliveryTyped
    <2>1. CASE order' = order
      BY <1>1, <2>0, <2>1 DEF Ordered
    <2>2. CASE sender[d].pc = "insert" /\ order' = Append(order, d)
      <3>1. \A i \in DOMAIN order : order[i] # d
        BY <2>2 DEF Ordered
      <3>2. /\ DOMAIN order' = 1..(Len(order) + 1) /\ DOMAIN order = 1..Len(order)
            /\ Len(order) \in Nat
            /\ order'[Len(order) + 1] = d
            /\ \A i \in DOMAIN order : order'[i] = order[i]
        BY <2>0, <2>2
      <3>3. \A i \in DOMAIN order' : i \in DOMAIN order \/ i = Len(order) + 1
        BY <3>2
      <3>4. \A i \in DOMAIN order' : sender'[order'[i]].pc \notin {"off", "insert"}
        BY <1>1, <2>0, <3>1, <3>2, <3>3 DEF Ordered
      <3>5. \A i, j \in DOMAIN order' : order'[i] = order'[j] => i = j
        BY <3>1, <3>2, <3>3 DEF Ordered
      <3> QED
        BY <3>4, <3>5 DEF Ordered
    <2> QED
      BY <2>1, <2>2
  <1>7. \A e \in Deliveries : sender[e].pc \in {"done", "dead"} => e # d
    OBVIOUS
  <1> QED
    BY <1>1, <1>3, <1>4, <1>5, <1>6, <1>7, TableKeeps

LEMMA SenderSteps ==
  ASSUME DeliveryInv, NEW d \in Deliveries,
         SenderStep(d) \/ SenderStatementFails(d)
  PROVE  DeliveryInv'
  <1>1. /\ DeliveryTyped /\ RowAt(d) /\ (sender[d].pc = "delivered" => d \in accepted)
    BY DEF DeliveryInv, RowsFollow, FirstAccepted
  <1>2. /\ row \in [Deliveries -> Row \cup {None}] /\ accepted \subseteq Deliveries
        /\ faults \in 0..MaxFaults /\ MaxFaults \in Nat
    BY <1>1, DeliveryAssumption DEF DeliveryTyped, DeliveryAssumption
  <1>3. CASE Insert(d)
    <2> DEFINE new == [status |-> "pending", attempts |-> 1, due |-> TRUE]
    <2>1. new \in Row /\ new.status = "pending" /\ new.attempts = 1
      BY DEF Row, Status
    <2> HIDE DEF new
    <2>2. /\ sender[d].pc = "insert" /\ sender' = [sender EXCEPT ![d].pc = "post"]
          /\ UNCHANGED <<hooks, unborn, worker, accepted, faults, contended>>
          /\ \/ UNCHANGED <<row, order>>
             \/ row' = [row EXCEPT ![d] = new] /\ order' = Append(order, d)
      BY <1>3 DEF Insert, SenderGoto, tableVars, new
    <2>3. row[d] = None
      BY <1>1, <2>2 DEF RowAt
    <2>4. /\ row' \in [Deliveries -> Row \cup {None}]
          /\ \A e \in Deliveries \ {d} : row'[e] = row[e]
          /\ row'[d] # None => row'[d].status = "pending" /\ row'[d].attempts = 1
      BY <1>2, <2>1, <2>2, <2>3
    <2> QED
      BY <1>2, <2>2, <2>4, SenderKeeps
  <1>4. ASSUME NEW ok \in BOOLEAN, SendFirst(d, ok) PROVE DeliveryInv'
    <2> DEFINE to == IF ok THEN "delivered" ELSE "failed"
    <2>1. /\ sender[d].pc = "post" /\ sender' = [sender EXCEPT ![d].pc = to]
          /\ UNCHANGED <<hooks, unborn, row, order, worker, faults, contended>>
          /\ accepted' = accepted \cup {d} \/ (~ok /\ accepted' = accepted)
      BY <1>4 DEF SendFirst, SenderGoto, Post, tableVars
    <2>2. to \in {"delivered", "failed"} /\ (to = "delivered" => d \in accepted')
      BY <2>1
    <2>3. row[d] # None => row[d].status = "pending" /\ row[d].attempts = 1
      BY <1>1, <2>1 DEF RowAt
    <2> HIDE DEF to
    <2> QED
      BY <1>2, <2>1, <2>2, <2>3, SenderKeeps
  <1>5. CASE markDelivery(d)
    <2> DEFINE new == [row[d] EXCEPT !.status = sender[d].pc]
    <2>1. /\ sender[d].pc \in {"delivered", "failed"} /\ sender' = [sender EXCEPT ![d].pc = "done"]
          /\ UNCHANGED <<hooks, unborn, order, worker, accepted, faults, contended>>
          /\ row' = [row EXCEPT ![d] = IF row[d] = None THEN None ELSE new]
      BY <1>5 DEF markDelivery, SenderGoto, Update
    <2>2. ASSUME row[d] # None
          PROVE  new \in Row /\ new.status = sender[d].pc /\ new.attempts = 1
      <3>1. row[d] \in Row /\ row[d].attempts = 1
        BY <1>1, <1>2, <2>1, <2>2 DEF RowAt
      <3> QED
        BY <2>1, <3>1 DEF Row, Status
    <2> HIDE DEF new
    <2>3. /\ row' \in [Deliveries -> Row \cup {None}]
          /\ \A e \in Deliveries \ {d} : row'[e] = row[e]
          /\ row'[d] # None => row'[d] = new /\ row[d] # None
      BY <1>2, <2>1, <2>2
    <2>4. row'[d] # None => row'[d].attempts = 1 /\ (row'[d].status = "delivered" => d \in accepted')
      BY <1>1, <2>1, <2>2, <2>3
    <2> QED
      BY <1>2, <2>1, <2>3, <2>4, SenderKeeps
  <1>6. CASE SenderStatementFails(d)
    <2>1. /\ \/ sender[d].pc = "insert" /\ sender' = [sender EXCEPT ![d].pc = "post"]
             \/ sender[d].pc \in {"delivered", "failed"} /\ sender' = [sender EXCEPT ![d].pc = "done"]
          /\ UNCHANGED <<hooks, unborn, row, order, worker, accepted, contended>>
          /\ faults < MaxFaults /\ faults' = faults + 1
      BY <1>6 DEF SenderStatementFails, SenderGoto, Fault, tableVars
    <2>2. faults' \in 0..MaxFaults
      BY <1>2, <2>1
    <2>3. row[d] # None => row[d].status = "pending" /\ row[d].attempts = 1
      BY <1>1, <2>1 DEF RowAt
    <2> QED
      BY <1>2, <2>1, <2>2, <2>3, SenderKeeps
  <1> QED
    BY <1>3, <1>4, <1>5, <1>6 DEF SenderStep

-----------------------------------------------------------------------------
(* The steps of a worker. *)

\* On to the next row.
LEMMA NextRowType ==
  ASSUME worker \in [Processes -> Loop], NEW p \in Processes,
         worker[p].batch # <<>>, NextRow(p)
  PROVE  /\ worker' \in [Processes -> Loop]
         /\ worker'[p].batch = Tail(worker[p].batch)
         /\ worker'[p].pc # "delivered"
         /\ worker'[p].pc # "idle" => worker'[p].batch # <<>>
         /\ \A q \in Processes \ {p} : worker'[q] = worker[q]
  <1> DEFINE rest == Tail(worker[p].batch)
             new == IF rest = <<>> THEN NoBatch ELSE [pc |-> "post", batch |-> rest]
  <1>1. worker[p].batch \in Seq(Item)
    BY DEF Loop
  <1>2. rest \in Seq(Item)
    BY <1>1, RestOfBatch
  <1>3. worker' = [worker EXCEPT ![p] = new]
    BY DEF NextRow
  <1> HIDE DEF rest
  <1>4. /\ new \in Loop
        /\ new.batch = rest /\ new.pc # "delivered" /\ (new.pc # "idle" => rest # <<>>)
    BY <1>2 DEF Loop, NoBatch
  <1> HIDE DEF new
  <1>5. worker'[p] = new /\ \A q \in Processes \ {p} : worker'[q] = worker[q]
    BY <1>3
  <1>6. worker' \in [Processes -> Loop]
    BY <1>3, <1>4
  <1> QED
    BY <1>4, <1>5, <1>6 DEF rest

\* What the worker writes to a row.
LEMMA MarkedType ==
  ASSUME NEW r \in Row
  PROVE  /\ [r EXCEPT !.status = "delivered", !.attempts = @ + 1] \in Row
         /\ [r EXCEPT !.status = "delivered", !.attempts = @ + 1].attempts = r.attempts + 1
  <1> DEFINE n == r.attempts + 1
             new == [r EXCEPT !.status = "delivered", !.attempts = n]
  <1>1. n \in Nat
    BY DEF Row
  <1> HIDE DEF n
  <1>2. new \in Row /\ new.attempts = n
    BY <1>1 DEF Row, Status
  <1>3. new = [r EXCEPT !.status = "delivered", !.attempts = @ + 1]
    BY DEF Row, n
  <1> QED
    BY <1>2, <1>3 DEF n

LEMMA RetriedType ==
  ASSUME NEW r \in Row, NEW n \in Nat
  PROVE  /\ Retried(r, n + 1) \in Row
         /\ Retried(r, n + 1).status = r.status /\ Retried(r, n + 1).attempts = n + 1
  <1>1. MaxAttempts \in Nat /\ n + 1 \in Nat
    BY DeliveryAssumption DEF DeliveryAssumption
  <1>2. (n + 1 >= MaxAttempts) \in BOOLEAN
    OBVIOUS
  <1> QED
    BY <1>1, <1>2 DEF Row, Retried

LEMMA RetrySteps ==
  ASSUME DeliveryInv, NEW p \in Processes,
         \/ \E ok \in BOOLEAN : Retry(p, ok)
         \/ MarkDelivered(p) \/ markRetry(p) \/ WorkerStatementFails(p)
  PROVE  DeliveryInv'
  <1> DEFINE batch == worker[p].batch
             d == Head(batch).id
  <1>1. /\ DeliveryTyped /\ RowsFollow /\ RetryAccepted /\ BatchSound(p) /\ Claimed
    BY DEF DeliveryInv, BatchesSound
  <1>2. /\ worker \in [Processes -> Loop] /\ row \in [Deliveries -> Row \cup {None}]
        /\ accepted \subseteq Deliveries /\ faults \in 0..MaxFaults
        /\ MaxFaults \in Nat /\ MaxAttempts \in Nat
    BY <1>1, DeliveryAssumption DEF DeliveryTyped, DeliveryAssumption
  <1>3. worker[p].pc \in {"post", "delivered", "retry"}
    BY DEF Retry, MarkDelivered, markRetry, WorkerStatementFails
  <1>4. batch # <<>> /\ batch \in Seq(Item)
    BY <1>1, <1>2, <1>3 DEF BatchSound, Loop
  <1>5. 1 \in DOMAIN batch /\ Head(batch) = batch[1] /\ d \in Deliveries /\ Head(batch).attempts \in Nat
    BY <1>4, RestOfBatch DEF Item
  <1>6. /\ sender[d].pc \in {"done", "dead"}
        /\ Head(batch).attempts < MaxAttempts
        /\ d \notin contended /\ row[d] # None => row[d].attempts = Head(batch).attempts
    BY <1>1, <1>5 DEF BatchSound, Claimed
  <1>7. RowAt(d)
    BY <1>1, <1>5 DEF RowsFollow
  <1>8. ASSUME NEW ok \in BOOLEAN, Retry(p, ok) PROVE DeliveryInv'
    <2> DEFINE to == IF ok THEN "delivered" ELSE "retry"
    <2>1. /\ worker' = [worker EXCEPT ![p].pc = to]
          /\ UNCHANGED <<hooks, unborn, row, order, sender, faults, contended>>
          /\ accepted' = accepted \cup {d} \/ (~ok /\ accepted' = accepted)
      BY <1>8 DEF Retry, Post, tableVars
    <2>2. to \in {"delivered", "retry"} /\ (to = "delivered" => d \in accepted')
      BY <2>1
    <2> HIDE DEF to
    <2>3. /\ worker' \in [Processes -> Loop]
          /\ worker'[p].pc = to /\ worker'[p].batch = batch
          /\ \A q \in Processes \ {p} : worker'[q] = worker[q]
      BY <1>2, <2>1, <2>2 DEF Loop
    <2>4. accepted \subseteq accepted' /\ accepted' \subseteq Deliveries
      BY <1>2, <1>5, <2>1
    <2>5. DeliveryTyped'
      BY <1>1, <2>1, <2>3, <2>4 DEF DeliveryTyped
    <2>6. ASSUME NEW e \in Deliveries, e = d PROVE RowAt(e)'
      BY <1>7, <2>1, <2>4, <2>6 DEF RowAt
    <2> QED
      BY <1>4, <1>5, <2>1, <2>2, <2>3, <2>4, <2>5, <2>6, WorkerKeeps
  <1>9. ASSUME NextRow(p), UNCHANGED <<hooks, unborn, order, sender, accepted, contended>>,
               faults' \in 0..MaxFaults,
               row' \in [Deliveries -> Row \cup {None}],
               \A e \in Deliveries \ {d} : row'[e] = row[e],
               row'[d] # None =>
                 /\ row'[d].status = "delivered" => d \in accepted
                 /\ d \notin contended => row'[d].attempts <= MaxAttempts
        PROVE  DeliveryInv'
    <2>1. /\ worker' \in [Processes -> Loop]
          /\ worker'[p].batch = Tail(batch)
          /\ worker'[p].pc # "delivered"
          /\ worker'[p].pc # "idle" => worker'[p].batch # <<>>
          /\ \A q \in Processes \ {p} : worker'[q] = worker[q]
      BY <1>2, <1>4, <1>9, NextRowType
    <2>2. DeliveryTyped'
      BY <1>1, <1>9, <2>1 DEF DeliveryTyped
    <2>3. ASSUME NEW e \in Deliveries, e = d PROVE RowAt(e)'
      BY <1>6, <1>9, <2>3 DEF RowAt
    <2> QED
      BY <1>4, <1>5, <1>9, <2>1, <2>2, <2>3, WorkerKeeps
  <1>10. CASE MarkDelivered(p)
    <2> DEFINE new == [row[d] EXCEPT !.status = "delivered", !.attempts = @ + 1]
    <2>1. /\ worker[p].pc = "delivered" /\ NextRow(p)
          /\ UNCHANGED <<hooks, unborn, order, sender, accepted, faults, contended>>
          /\ row' = [row EXCEPT ![d] = IF row[d] = None THEN None ELSE new]
      BY <1>10 DEF MarkDelivered, Update
    <2>2. ASSUME row[d] # None
          PROVE  new \in Row /\ new.attempts = row[d].attempts + 1 /\ row[d].attempts \in Nat
      <3>1. row[d] \in Row /\ row[d].attempts \in Nat
        BY <1>2, <1>5, <2>2 DEF Row
      <3> QED
        BY <3>1, MarkedType
    <2>3. d \in accepted
      BY <1>1, <2>1 DEF RetryAccepted
    <2> HIDE DEF new
    <2>4. /\ row' \in [Deliveries -> Row \cup {None}]
          /\ \A e \in Deliveries \ {d} : row'[e] = row[e]
          /\ row'[d] # None => row'[d] = new /\ row[d] # None
      BY <1>2, <1>5, <2>1, <2>2
    <2>5. row'[d] # None /\ d \notin contended => row'[d].attempts <= MaxAttempts
      BY <1>2, <1>5, <1>6, <2>2, <2>4
    <2> QED
      BY <1>2, <1>9, <2>1, <2>3, <2>4, <2>5
  <1>11. CASE markRetry(p)
    <2> DEFINE new == Retried(row[d], Head(batch).attempts + 1)
    <2>1. /\ NextRow(p)
          /\ UNCHANGED <<hooks, unborn, order, sender, accepted, faults, contended>>
          /\ row' = [row EXCEPT ![d] = IF row[d] = None THEN None ELSE new]
      BY <1>11 DEF markRetry, Update
    <2>2. ASSUME row[d] # None
          PROVE  /\ new \in Row /\ new.status = row[d].status
                 /\ new.attempts = Head(batch).attempts + 1
      <3>1. row[d] \in Row
        BY <1>2, <1>5, <2>2
      <3> QED
        BY <1>5, <3>1, RetriedType
    <2>3. row[d] # None => (row[d].status = "delivered" => d \in accepted)
      BY <1>7 DEF RowAt
    <2> HIDE DEF new
    <2>4. /\ row' \in [Deliveries -> Row \cup {None}]
          /\ \A e \in Deliveries \ {d} : row'[e] = row[e]
          /\ row'[d] # None => row'[d] = new /\ row[d] # None
      BY <1>2, <1>5, <2>1, <2>2
    <2>5. row'[d] # None => row'[d].attempts <= MaxAttempts
      BY <1>2, <1>5, <1>6, <2>2, <2>4
    <2>6. row'[d] # None => (row'[d].status = "delivered" => d \in accepted)
      BY <2>2, <2>3, <2>4
    <2> QED
      BY <1>2, <1>9, <2>1, <2>4, <2>5, <2>6
  <1>12. CASE WorkerStatementFails(p)
    <2>1. /\ NextRow(p) /\ faults < MaxFaults /\ faults' = faults + 1
          /\ UNCHANGED <<hooks, unborn, row, order, sender, accepted, contended>>
      BY <1>12 DEF WorkerStatementFails, Fault, tableVars
    <2>2. faults' \in 0..MaxFaults
      BY <1>2, <2>1
    <2> QED
      BY <1>2, <1>7, <1>9, <2>1, <2>2 DEF RowAt
  <1> QED
    BY <1>8, <1>10, <1>11, <1>12

\* What a scan finds has ended its first attempt and has attempts left.
LEMMA FoundIsDue ==
  ASSUME DeliveryTyped, RowsFollow, NEW d \in Due
  PROVE  /\ d \in Deliveries /\ row[d] \in Row /\ row[d].attempts \in Nat
         /\ row[d].attempts < MaxAttempts
         /\ sender[d].pc \in {"done", "dead"}
  <1>1. d \in Deliveries /\ row[d] # None /\ IsDue(d)
    BY DEF Due
  <1>2. row[d] \in Row
    BY <1>1 DEF DeliveryTyped
  <1>3. RowAt(d)
    BY <1>1 DEF RowsFollow
  <1> QED
    BY <1>1, <1>2, <1>3 DEF RowAt, IsDue, Row

LEMMA ScanStep ==
  ASSUME DeliveryInv, NEW p \in Processes, Scan(p)
  PROVE  DeliveryInv'
  <1>0. PICK n \in 1..BatchLimit : \E found \in [1..n -> Due] :
          /\ Oldest(found)
          /\ worker' = [worker EXCEPT ![p] =
               [pc |-> "post",
                batch |-> [i \in 1..n |-> [id |-> found[i], attempts |-> row[found[i]].attempts]]]]
          /\ contended' = contended \cup
               {d \in Range(found) : \E q \in Processes \ {p} : d \in InHand(q)}
    BY DEF Scan
  <1>1. PICK found \in [1..n -> Due] :
          /\ Oldest(found)
          /\ worker' = [worker EXCEPT ![p] =
               [pc |-> "post",
                batch |-> [i \in 1..n |-> [id |-> found[i], attempts |-> row[found[i]].attempts]]]]
          /\ contended' = contended \cup
               {d \in Range(found) : \E q \in Processes \ {p} : d \in InHand(q)}
    BY <1>0
  <1> USE DEF DeliveryInv
  <1> DEFINE rows == [i \in 1..n |-> [id |-> found[i], attempts |-> row[found[i]].attempts]]
  <1>2. UNCHANGED <<hooks, unborn, row, order, sender, accepted, faults>>
    BY DEF Scan, tableVars
  <1>3. n \in Nat /\ n >= 1 /\ DOMAIN found = 1..n /\ Len(found) = n
    BY <1>1, DeliveryAssumption DEF DeliveryAssumption
  <1>4. ASSUME NEW i \in 1..n
        PROVE  /\ found[i] \in Deliveries /\ row[found[i]].attempts \in Nat
               /\ row[found[i]].attempts < MaxAttempts
               /\ sender[found[i]].pc \in {"done", "dead"}
               /\ rows[i] \in Item /\ rows[i].id = found[i]
               /\ rows[i].attempts = row[found[i]].attempts
    <2>1. found[i] \in Due
      OBVIOUS
    <2>2. /\ found[i] \in Deliveries /\ row[found[i]].attempts \in Nat
          /\ row[found[i]].attempts < MaxAttempts
          /\ sender[found[i]].pc \in {"done", "dead"}
      BY <2>1, FoundIsDue
    <2> QED
      BY <2>2 DEF Item
  <1>5. rows \in Seq(Item) /\ DOMAIN rows = 1..n /\ rows # <<>>
    <2>1. rows \in [1..n -> Item]
      BY <1>4
    <2>2. rows \in Seq(Item)
      BY <1>3, <2>1, SeqDef
    <2> QED
      BY <1>3, <2>1, <2>2
  <1>6. \A i, j \in 1..n : found[i] = found[j] => i = j
    <2>1. \A d \in Deliveries : ~Before(d, d)
      BY DEF Before, Ordered, DeliveryTyped
    <2>2. \A i, j \in 1..n : i < j => Before(found[i], found[j])
      BY <1>1, <1>3 DEF Oldest
    <2> SUFFICES ASSUME NEW i \in 1..n, NEW j \in 1..n, found[i] = found[j], i # j
                 PROVE  FALSE
      OBVIOUS
    <2>3. i < j \/ j < i
      BY <1>3
    <2>4. Before(found[i], found[i])
      BY <2>2, <2>3
    <2> QED
      BY <1>4, <2>1, <2>4
  <1>7. /\ worker' = [worker EXCEPT ![p] = [pc |-> "post", batch |-> rows]]
    BY <1>1
  <1> HIDE DEF rows
  <1>8. [pc |-> "post", batch |-> rows] \in Loop
    BY <1>5 DEF Loop
  <1>9. /\ worker' \in [Processes -> Loop]
        /\ worker'[p].pc = "post" /\ worker'[p].batch = rows
        /\ \A q \in Processes \ {p} : worker'[q] = worker[q]
    BY <1>7, <1>8 DEF DeliveryTyped
  <1>10. contended \subseteq contended' /\ contended' \subseteq Deliveries
    <2>1. Range(found) \subseteq Deliveries
      BY <1>3, <1>4 DEF Range
    <2> QED
      BY <1>1, <2>1 DEF DeliveryTyped
  <1>11. DeliveryTyped'
    BY <1>2, <1>9, <1>10 DEF DeliveryTyped
  <1>12. RowsFollow' /\ FirstAccepted' /\ Ordered'
    <2>1. \A d \in Deliveries : RowAt(d)'
      BY <1>2, <1>10 DEF RowsFollow, RowAt
    <2> QED
      BY <1>2, <2>1 DEF RowsFollow, FirstAccepted, Ordered
  <1>13. RetryAccepted'
    BY <1>2, <1>9 DEF RetryAccepted
  <1>14. ASSUME NEW q \in Processes PROVE BatchSound(q)'
    <2>1. CASE q = p
      BY <1>2, <1>4, <1>5, <1>6, <1>9, <2>1 DEF BatchSound
    <2>2. CASE q # p
      BY <1>2, <1>9, <2>2 DEF BatchesSound, BatchSound
    <2> QED
      BY <2>1, <2>2
  <1>15. /\ InHand(p)' = Range(found)
         /\ \A q \in Processes \ {p} : InHand(q)' = InHand(q)
    <2>1. InHand(p)' = {rows[i].id : i \in 1..n}
      BY <1>5, <1>9 DEF InHand
    <2>2. {rows[i].id : i \in 1..n} = Range(found)
      BY <1>3, <1>4 DEF Range
    <2> QED
      BY <2>1, <2>2, <1>9 DEF InHand
  <1>16. Claimed'
    <2> SUFFICES ASSUME NEW q \in Processes, NEW i \in DOMAIN worker'[q].batch,
                        worker'[q].batch[i].id \notin contended'
                 PROVE  LET d == worker'[q].batch[i].id IN
                        /\ row'[d] # None => row'[d].attempts = worker'[q].batch[i].attempts
                        /\ \A z \in Processes \ {q} : d \notin InHand(z)'
      BY DEF Claimed
    <2>1. CASE q = p
      <3>1. i \in 1..n /\ worker'[q].batch[i].id = found[i] /\ found[i] \in Range(found)
        BY <1>3, <1>4, <1>5, <1>9, <2>1 DEF Range
      <3>2. worker'[q].batch[i].attempts = row[found[i]].attempts
        BY <1>4, <1>9, <2>1, <3>1
      <3>3. \A z \in Processes \ {p} : found[i] \notin InHand(z)
        BY <1>1, <3>1
      <3> QED
        BY <1>2, <1>15, <2>1, <3>1, <3>2, <3>3
    <2>2. CASE q # p
      <3> DEFINE d == worker[q].batch[i].id
      <3>1. worker'[q] = worker[q] /\ i \in DOMAIN worker[q].batch /\ d \notin contended
        BY <1>9, <1>10, <2>2
      <3>2. /\ row[d] # None => row[d].attempts = worker[q].batch[i].attempts
            /\ \A z \in Processes \ {q} : d \notin InHand(z)
        BY <3>1 DEF Claimed
      <3>3. d \in InHand(q)
        BY <3>1 DEF InHand
      <3>4. d \notin Range(found)
        BY <1>1, <2>2, <3>1, <3>3
      <3> QED
        BY <1>2, <1>15, <3>1, <3>2, <3>4
    <2> QED
      BY <2>1, <2>2
  <1> QED
    BY <1>11, <1>12, <1>13, <1>14, <1>16 DEF BatchesSound

-----------------------------------------------------------------------------
(* The other steps. *)

\* A step that leaves the tables, the goroutines and the loops alone.
LEMMA IdleKeeps ==
  ASSUME DeliveryInv, DeliveryTyped',
         UNCHANGED <<row, order, sender, worker, accepted, contended>>
  PROVE  DeliveryInv'
  <1> USE DEF DeliveryInv
  <1>1. RowsFollow' /\ FirstAccepted' /\ Ordered'
    BY DEF RowsFollow, RowAt, FirstAccepted, Ordered
  <1> QED
    BY <1>1, TableKeeps

LEMMA DeleteStep ==
  ASSUME DeliveryInv, NEW h \in Hooks, Delete(h)
  PROVE  DeliveryInv'
  <1> USE DEF DeliveryInv
  <1>1. PICK enforced \in Enforced :
          row' = [d \in Deliveries |-> IF enforced /\ HookOf(d) = h THEN None ELSE row[d]]
    BY DEF Delete
  <1>2. /\ hooks' = hooks \ {h}
        /\ UNCHANGED <<unborn, order, sender, worker, accepted, faults, contended>>
    BY DEF Delete
  <1>3. \A d \in Deliveries : row'[d] = None \/ row'[d] = row[d]
    BY <1>1
  <1>4. row' \in [Deliveries -> Row \cup {None}]
    BY <1>1 DEF DeliveryTyped
  <1>5. DeliveryTyped'
    BY <1>2, <1>4 DEF DeliveryTyped
  <1>6. RowsFollow' /\ FirstAccepted' /\ Ordered'
    BY <1>2, <1>3 DEF RowsFollow, RowAt, FirstAccepted, Ordered
  <1> QED
    BY <1>2, <1>3, <1>5, <1>6, TableKeeps

LEMMA FireStep ==
  ASSUME DeliveryInv, NEW p \in Processes, NEW e \in Events, Fire(p, e)
  PROVE  DeliveryInv'
  <1> USE DEF DeliveryInv
  <1> DEFINE new == [pc |-> "insert", proc |-> p]
  <1>1. /\ \A h \in Hooks : sender[<<e, h>>].pc = "off"
        /\ sender' = [d \in Deliveries |->
             IF d[1] = e /\ HookOf(d) \in hooks THEN new ELSE sender[d]]
        /\ UNCHANGED <<hooks, unborn, row, order, worker, accepted, faults, contended>>
    BY DEF Fire, tableVars, NoSender
  <1>2. new \in Goroutine /\ new.pc = "insert"
    BY DEF Goroutine
  <1> HIDE DEF new
  <1>3. ASSUME NEW d \in Deliveries
        PROVE  sender'[d] = sender[d] \/ (sender[d].pc = "off" /\ sender'[d].pc = "insert")
    <2>0. sender'[d] = IF d[1] = e /\ HookOf(d) \in hooks THEN new ELSE sender[d]
      BY <1>1
    <2>1. CASE d[1] = e
      <3>1. d = <<e, d[2]>> /\ d[2] \in Hooks
        BY <2>1 DEF Deliveries
      <3>2. sender[d].pc = "off"
        BY <1>1, <3>1
      <3> QED
        BY <2>0, <1>2, <3>2
    <2>2. CASE d[1] # e
      BY <2>0, <2>2
    <2> QED
      BY <2>1, <2>2
  <1>4. sender' \in [Deliveries -> Goroutine]
    BY <1>1, <1>2 DEF DeliveryTyped
  <1>5. DeliveryTyped'
    BY <1>1, <1>4 DEF DeliveryTyped
  <1>6. \A d \in Deliveries : sender[d].pc # "off" => sender'[d] = sender[d]
    BY <1>3
  <1>7. RowsFollow'
    BY <1>1, <1>6 DEF RowsFollow, RowAt
  <1>8. FirstAccepted'
    BY <1>1, <1>3 DEF FirstAccepted
  <1>9. Ordered'
    <2>1. \A i \in DOMAIN order : order[i] \in Deliveries
      BY DEF DeliveryTyped
    <2> QED
      BY <1>1, <1>6, <2>1 DEF Ordered
  <1> QED
    BY <1>1, <1>5, <1>6, <1>7, <1>8, <1>9, TableKeeps

LEMMA CrashStep ==
  ASSUME DeliveryInv, NEW p \in Processes, Crash(p)
  PROVE  DeliveryInv'
  <1> USE DEF DeliveryInv
  <1>1. /\ sender' = [d \in Deliveries |->
             IF sender[d].proc = p /\ sender[d].pc # "done"
             THEN [sender[d] EXCEPT !.pc = "dead"] ELSE sender[d]]
        /\ worker' = [worker EXCEPT ![p] = NoBatch]
        /\ faults < MaxFaults /\ faults' = faults + 1
        /\ UNCHANGED <<hooks, unborn, row, order, accepted, contended>>
    BY DEF Crash, Fault, tableVars
  <1>2. ASSUME NEW d \in Deliveries
        PROVE  /\ sender'[d] \in Goroutine
               /\ sender'[d] = sender[d] \/ sender'[d].pc = "dead"
    BY <1>1 DEF DeliveryTyped, Goroutine
  <1>3. sender' \in [Deliveries -> Goroutine]
    BY <1>1, <1>2
  <1>4. worker' \in [Processes -> Loop]
    BY <1>1 DEF DeliveryTyped, NoBatch, Loop
  <1>5. faults' \in 0..MaxFaults
    BY <1>1, DeliveryAssumption DEF DeliveryTyped, DeliveryAssumption
  <1>6. DeliveryTyped'
    BY <1>1, <1>3, <1>4, <1>5 DEF DeliveryTyped
  <1>7. RowsFollow' /\ FirstAccepted'
    BY <1>1, <1>2 DEF RowsFollow, RowAt, FirstAccepted
  <1>8. Ordered'
    <2>1. \A i \in DOMAIN order : order[i] \in Deliveries
      BY DEF DeliveryTyped
    <2> QED
      BY <1>1, <1>2, <2>1 DEF Ordered
  <1>9. \A q \in Processes : worker'[q] = worker[q] \/ worker'[q] = NoBatch
    BY <1>1 DEF DeliveryTyped
  <1> QED
    BY <1>1, <1>2, <1>6, <1>7, <1>8, <1>9, TableKeeps

LEMMA ComeDueStep ==
  ASSUME DeliveryInv, NEW d \in Deliveries, ComeDue(d)
  PROVE  DeliveryInv'
  <1> USE DEF DeliveryInv
  <1> DEFINE new == [row[d] EXCEPT !.due = TRUE]
  <1>1. /\ row[d] # None
        /\ row' = [row EXCEPT ![d] = new]
        /\ UNCHANGED <<hooks, unborn, order, sender, worker, accepted, faults, contended>>
    BY DEF ComeDue
  <1>2. row[d] \in Row
    BY <1>1 DEF DeliveryTyped
  <1>3. new \in Row /\ new.status = row[d].status /\ new.attempts = row[d].attempts
    BY <1>2 DEF Row
  <1> HIDE DEF new
  <1>4. /\ row' \in [Deliveries -> Row \cup {None}]
        /\ row'[d] = new /\ \A e \in Deliveries \ {d} : row'[e] = row[e]
    BY <1>1, <1>3 DEF DeliveryTyped
  <1>5. DeliveryTyped'
    BY <1>1, <1>4 DEF DeliveryTyped
  <1>6. \A e \in Deliveries : row'[e] # None =>
          /\ row[e] # None
          /\ row'[e].status = row[e].status /\ row'[e].attempts = row[e].attempts
    BY <1>1, <1>3, <1>4
  <1>7. RowsFollow'
    BY <1>1, <1>6 DEF RowsFollow, RowAt
  <1>8. FirstAccepted' /\ Ordered'
    BY <1>1 DEF FirstAccepted, Ordered
  <1> QED
    BY <1>1, <1>5, <1>6, <1>7, <1>8, TableKeeps

LEMMA InitDelivery == Init => DeliveryInv
  <1> SUFFICES ASSUME Init PROVE DeliveryInv
    OBVIOUS
  <1>1. NoSender \in Goroutine /\ NoBatch \in Loop /\ 0 \in 0..MaxFaults
    BY DeliveryAssumption DEF NoSender, Goroutine, NoBatch, Loop, DeliveryAssumption
  <1>2. DeliveryTyped
    BY <1>1 DEF Init, DeliveryTyped
  <1>3. /\ \A d \in Deliveries : row[d] = None /\ sender[d].pc = "off"
        /\ \A p \in Processes : worker[p].pc = "idle" /\ worker[p].batch = <<>>
        /\ order = <<>>
    BY DEF Init, NoSender, NoBatch
  <1>4. RowsFollow /\ FirstAccepted /\ RetryAccepted /\ Ordered
    BY <1>3 DEF RowsFollow, RowAt, FirstAccepted, RetryAccepted, Ordered
  <1>5. BatchesSound /\ Claimed
    BY <1>3 DEF BatchesSound, BatchSound, Claimed
  <1> QED
    BY <1>2, <1>4, <1>5 DEF DeliveryInv

LEMMA DeliveryStep == DeliveryInv /\ [Next]_vars => DeliveryInv'
  <1> SUFFICES ASSUME DeliveryInv, [Next]_vars PROVE DeliveryInv'
    OBVIOUS
  <1>0. DeliveryTyped
    BY DEF DeliveryInv
  <1>1. ASSUME NEW h \in Hooks, Create(h) PROVE DeliveryInv'
    <2>1. DeliveryTyped' /\ UNCHANGED <<row, order, sender, worker, accepted, contended>>
      BY <1>0, <1>1 DEF Create, DeliveryTyped, tableVars
    <2> QED
      BY <2>1, IdleKeeps
  <1>2. ASSUME NEW h \in Hooks, Delete(h) PROVE DeliveryInv'
    BY <1>2, DeleteStep
  <1>3. ASSUME NEW p \in Processes, NEW e \in Events, Fire(p, e) PROVE DeliveryInv'
    BY <1>3, FireStep
  <1>4. ASSUME NEW p \in Processes, WorkerStep(p) \/ WorkerStatementFails(p) PROVE DeliveryInv'
    BY <1>4, ScanStep, RetrySteps DEF WorkerStep
  <1>5. ASSUME NEW p \in Processes, Crash(p) PROVE DeliveryInv'
    BY <1>5, CrashStep
  <1>6. ASSUME NEW d \in Deliveries, SenderStep(d) \/ SenderStatementFails(d) PROVE DeliveryInv'
    BY <1>6, SenderSteps
  <1>7. ASSUME NEW d \in Deliveries, ComeDue(d) PROVE DeliveryInv'
    BY <1>7, ComeDueStep
  <1>8. CASE UNCHANGED vars
    <2>1. DeliveryTyped' /\ UNCHANGED <<row, order, sender, worker, accepted, contended>>
      BY <1>0, <1>8 DEF vars, DeliveryTyped
    <2> QED
      BY <2>1, IdleKeeps
  <1> QED
    BY <1>1, <1>2, <1>3, <1>4, <1>5, <1>6, <1>7, <1>8 DEF Next

-----------------------------------------------------------------------------
(* What a step may do to a row. *)

\* A step that writes at most one row, and keeps its status if it is "delivered".
LEMMA OneRowFinal ==
  ASSUME row \in [Deliveries -> Row \cup {None}], NEW d \in Deliveries, NEW columns,
         row' = [row EXCEPT ![d] = IF row[d] = None THEN None ELSE columns],
         row[d] # None /\ row[d].status = "delivered" => columns.status = "delivered"
  PROVE  \A e \in Deliveries : row[e] # None /\ row[e].status = "delivered" =>
           row'[e] = None \/ row'[e].status = "delivered"
  OBVIOUS

LEMMA DeliveredStays ==
  ASSUME DeliveryInv, [Next]_vars
  PROVE  \A d \in Deliveries : row[d] # None /\ row[d].status = "delivered" =>
           row'[d] = None \/ row'[d].status = "delivered"
  <1> DEFINE Final == \A d \in Deliveries : row[d] # None /\ row[d].status = "delivered" =>
                        row'[d] = None \/ row'[d].status = "delivered"
  <1>1. /\ row \in [Deliveries -> Row \cup {None}] /\ worker \in [Processes -> Loop]
        /\ RowsFollow /\ BatchesSound
    BY DEF DeliveryInv, DeliveryTyped
  <1>2. CASE UNCHANGED row
    BY <1>2
  <1>3. ASSUME NEW h \in Hooks, Delete(h) PROVE Final
    BY <1>3 DEF Delete
  <1>4. ASSUME NEW d \in Deliveries, Insert(d) PROVE Final
    <2>1. row[d] = None
      BY <1>1, <1>4 DEF Insert, SenderGoto, RowsFollow, RowAt
    <2> QED
      BY <1>1, <1>4, <2>1 DEF Insert, tableVars
  <1>5. ASSUME NEW d \in Deliveries, markDelivery(d) PROVE Final
    <2>1. row[d] # None => row[d].status = "pending"
      BY <1>1, <1>5 DEF markDelivery, RowsFollow, RowAt
    <2>2. row' = [row EXCEPT ![d] = IF row[d] = None THEN None
                                    ELSE [row[d] EXCEPT !.status = sender[d].pc]]
      BY <1>5 DEF markDelivery, Update
    <2> QED
      BY <1>1, <2>1, <2>2, OneRowFinal
  <1>6. ASSUME NEW p \in Processes, worker[p].pc # "idle"
        PROVE  Head(worker[p].batch).id \in Deliveries
    <2>1. worker[p].batch \in Seq(Item) /\ worker[p].batch # <<>>
      BY <1>1, <1>6 DEF BatchesSound, BatchSound, Loop
    <2> QED
      BY <2>1, RestOfBatch DEF Item
  <1>7. ASSUME NEW p \in Processes, MarkDelivered(p) PROVE Final
    <2> DEFINE d == Head(worker[p].batch).id
               new == [row[d] EXCEPT !.status = "delivered", !.attempts = @ + 1]
    <2>1. d \in Deliveries
      BY <1>6, <1>7 DEF MarkDelivered
    <2>2. row' = [row EXCEPT ![d] = IF row[d] = None THEN None ELSE new]
      BY <1>7 DEF MarkDelivered, Update
    <2>3. ASSUME row[d] # None PROVE new.status = "delivered"
      BY <1>1, <2>1, <2>3 DEF Row
    <2> HIDE DEF d, new
    <2> QED
      BY <1>1, <2>1, <2>2, <2>3, OneRowFinal
  <1>8. ASSUME NEW p \in Processes, markRetry(p) PROVE Final
    <2> DEFINE d == Head(worker[p].batch).id
               new == Retried(row[d], Head(worker[p].batch).attempts + 1)
    <2>1. d \in Deliveries
      BY <1>6, <1>8 DEF markRetry
    <2>2. row' = [row EXCEPT ![d] = IF row[d] = None THEN None ELSE new]
      BY <1>8 DEF markRetry, Update
    <2>3. ASSUME row[d] # None PROVE new.status = row[d].status
      BY <1>1, <2>1, <2>3 DEF Row, Retried
    <2> HIDE DEF d, new
    <2> QED
      BY <1>1, <2>1, <2>2, <2>3, OneRowFinal
  <1>9. ASSUME NEW d \in Deliveries, ComeDue(d) PROVE Final
    <2>1. /\ row[d] \in Row /\ row' = [row EXCEPT ![d] = [row[d] EXCEPT !.due = TRUE]]
      BY <1>1, <1>9 DEF ComeDue
    <2>2. [row[d] EXCEPT !.due = TRUE].status = row[d].status
      BY <2>1 DEF Row
    <2> QED
      BY <1>1, <2>1, <2>2
  <1>10. \/ UNCHANGED row
         \/ \E h \in Hooks : Delete(h)
         \/ \E d \in Deliveries : Insert(d) \/ markDelivery(d) \/ ComeDue(d)
         \/ \E p \in Processes : MarkDelivered(p) \/ markRetry(p)
    BY DEF Next, vars, tableVars, Create, Fire, WorkerStep, Scan, Retry, WorkerStatementFails,
           Crash, SenderStep, SendFirst, SenderStatementFails
  <1> QED
    BY <1>2, <1>3, <1>4, <1>5, <1>7, <1>8, <1>9, <1>10

-----------------------------------------------------------------------------
(* The theorems. *)

\* The inductive invariant of the deliveries: a goroutine, the workers and the
\* row agree on who writes next, whatever the number of processes.
THEOREM DeliveryInvariance == Spec => []DeliveryInv
  BY InitDelivery, DeliveryStep, PTL DEF Spec

\* Rows, goroutines and batches stay of their types (webhook.go:189-238,
\* worker.go:60-102), the number of faults within its bound.
THEOREM DeliveryTypeCorrect == Spec => []TypeOK
  <1>1. DeliveryInv => TypeOK
    BY DEF DeliveryInv, DeliveryTyped, TypeOK
  <1> QED
    BY <1>1, DeliveryInvariance, PTL

\* What the table calls delivered, the subscriber has accepted, for any number
\* of replicas, events and subscriptions (webhook.go:222-226, worker.go:134).
THEOREM DeliveredWasAcceptedAlways == Spec => []DeliveredWasAccepted
  <1>1. DeliveryInv => DeliveredWasAccepted
    BY DEF DeliveryInv, DeliveredWasAccepted, RowsFollow, RowAt
  <1> QED
    BY <1>1, DeliveryInvariance, PTL

\* The attempts column of a row does not pass maxAttempts, whatever the limit,
\* unless two workers had it in hand together (worker.go:73-98, 146-168). POSTs
\* whose UPDATE fails, or never comes, are not in the column.
THEOREM AttemptsWithinLimitAlways == Spec => []AttemptsWithinLimit
  <1>1. DeliveryInv => AttemptsWithinLimit
    BY DEF DeliveryInv, AttemptsWithinLimit, RowsFollow, RowAt
  <1> QED
    BY <1>1, DeliveryInvariance, PTL

\* A retry begins after the first attempt has ended, on whichever replica
\* (webhook.go:189-227, worker.go:73-98).
THEOREM RetriesAfterFirstAlways == Spec => []RetriesAfterFirst
  <1>1. DeliveryInv => RetriesAfterFirst
    BY DEF DeliveryInv, RetriesAfterFirst, BatchesSound, BatchSound, InHand
  <1> QED
    BY <1>1, DeliveryInvariance, PTL

\* No step of any process takes the status "delivered" from a row, also the late
\* verdict of a worker that had begun before (worker.go:146-168).
THEOREM DeliveredIsFinalAlways == Spec => DeliveredIsFinal
  <1>1. DeliveryInv /\ [Next]_vars =>
          [\A d \in Deliveries :
             row[d] # None /\ row[d].status = "delivered" =>
               row'[d] = None \/ row'[d].status = "delivered"]_vars
    BY DeliveredStays
  <1> QED
    BY <1>1, DeliveryInvariance, PTL DEF Spec, DeliveredIsFinal

=============================================================================
