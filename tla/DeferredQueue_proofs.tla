------------------------ MODULE DeferredQueue_proofs ------------------------
(***************************************************************************)
(* Proofs about DeferredQueue, for any capacity of the file, any queries   *)
(* and any number of submissions.                                          *)
(***************************************************************************)
EXTENDS DeferredQueue, SequenceTheorems, FiniteSetTheorems, TLAPS

USE QueueAssumption, ValueAssumption

-----------------------------------------------------------------------------
(* Typing.                                                                  *)

Queues == {queue \in Seq(Item) : Len(queue) <= MaxItems}

LEMMA LoadQueue ==
  ASSUME NEW f, f \in Seq(Item) \cup {Absent, Torn},
         f \notin {Absent, Torn} => Len(f) <= MaxItems
  PROVE  Load(f) \in Queues
BY DEF Load, Queues

LEMMA LoadTyped == TypeOK => Load(file) \in Queues
BY LoadQueue DEF TypeOK

LEMMA LoadFile == \A queue \in Queues : Load(queue) = queue
BY DEF Load, Queues

LEMMA TrimTyped ==
  ASSUME NEW queue \in Seq(Item)
  PROVE  /\ Trim(queue) \in Queues
         /\ Len(Trim(queue)) = IF Len(queue) <= MaxItems THEN Len(queue) ELSE MaxItems
         /\ \A i \in 1..Len(Trim(queue)) : Trim(queue)[i] = queue[i]
<1>1. CASE Len(queue) <= MaxItems
  BY <1>1 DEF Trim, Queues
<1>2. CASE Len(queue) > MaxItems
  <2>1. \A i \in 1..MaxItems : queue[i] \in Item
    BY <1>2
  <2> HIDE QueueAssumption, ValueAssumption
  <2>2. 1 \in Int /\ MaxItems \in Int /\ 1 <= MaxItems
    BY QueueAssumption
  <2>3. /\ SubSeq(queue, 1, MaxItems) \in Seq(Item)
        /\ Len(SubSeq(queue, 1, MaxItems)) = MaxItems
        /\ \A i \in 1..MaxItems : SubSeq(queue, 1, MaxItems)[i] = queue[i]
    BY <2>1, <2>2, SubSeqProperties, Z3
  <2> QED  BY <1>2, <2>2, <2>3 DEF Trim, Queues
<1> QED  BY <1>1, <1>2

(* A new item before the others, and the oldest cut off.                    *)
LEMMA PutFirst ==
  ASSUME NEW queue \in Queues, NEW item \in Item
  PROVE  LET longer == Trim(<<item>> \o queue)
         IN  /\ longer \in Queues
             /\ Len(longer) = IF Len(queue) < MaxItems THEN Len(queue) + 1 ELSE MaxItems
             /\ longer[1] = item
             /\ \A i \in 2..Len(longer) : longer[i] = queue[i - 1]
<1> DEFINE all == <<item>> \o queue
<1>1. <<item>> \in Seq(Item) /\ Len(<<item>>) = 1 /\ queue \in Seq(Item)
  BY DEF Queues
<1>2. /\ all \in Seq(Item)
      /\ Len(all) = 1 + Len(queue)
      /\ all[1] = item
      /\ \A i \in 2..1 + Len(queue) : all[i] = queue[i - 1]
  BY <1>1
<1>3. Len(queue) <= MaxItems /\ Len(queue) \in Nat
  BY DEF Queues
<1> HIDE DEF all
<1>4. /\ Trim(all) \in Queues
      /\ Len(Trim(all)) = IF Len(queue) < MaxItems THEN Len(queue) + 1 ELSE MaxItems
      /\ \A i \in 1..Len(Trim(all)) : Trim(all)[i] = all[i]
  BY <1>2, <1>3, TrimTyped
<1> QED  BY <1>2, <1>3, <1>4 DEF all

LEMMA MatchedTyped ==
  ASSUME NEW queue \in Queues, NEW window
  PROVE  /\ Matched(queue, window) \subseteq 1..Len(queue)
         /\ Matched(queue, window) \in SUBSET (1..MaxItems)
         /\ Cardinality(Matched(queue, window)) \in Nat
<1>1. Matched(queue, window) \subseteq 1..Len(queue) /\ Len(queue) \in 0..MaxItems
  BY DEF Matched, Queues
<1>2. IsFiniteSet(1..Len(queue))
  BY <1>1, FS_Interval
<1>3. IsFiniteSet(Matched(queue, window))
  BY <1>1, <1>2, FS_Subset
<1> QED  BY <1>1, <1>3, FS_CardinalityType

LEMMA InitTyped == Init => TypeOK
BY DEF Init, TypeOK, Time

(* An enqueue, and a query taken up again at the head of the queue.         *)
LEMMA AddTyped ==
  ASSUME TypeOK, NEW kind \in ArchiveKind \cup CandidateKind, NEW query \in Queries \cup {None},
         AddItem(kind, query)
  PROVE  /\ batch = None /\ batch' = None
         /\ NewItem(kind, query) \in Item
         /\ file' = Trim(<<NewItem(kind, query)>> \o Load(file))
         /\ file' \in Queues
         /\ submitted' = submitted + 1 /\ submitted' \in 0..MaxSubmitted
         /\ UNCHANGED <<snapshot, answer, clock>>
<1>1. NewItem(kind, query) \in Item /\ submitted' \in 0..MaxSubmitted
  BY DEF AddItem, NewItem, Item, ItemStatus, TypeOK
<1> QED  BY <1>1, PutFirst, LoadTyped DEF AddItem, HandlersRun

Renewed(item) == [item EXCEPT !.created = clock, !.status = "pending", !.processedAt = None]

LEMMA RenewedTyped ==
  ASSUME TypeOK, NEW item \in Item
  PROVE  /\ Renewed(item) \in Item
         /\ Renewed(item).id = item.id /\ Renewed(item).kind = item.kind
         /\ Renewed(item).created = clock /\ Renewed(item).status = "pending"
BY DEF Renewed, Item, ItemStatus, TypeOK

Reopened(queue, again) ==
  /\ Len(queue) >= 1 /\ Len(again) = Len(queue)
  /\ queue[1].kind = "search_query"
  /\ again[1] = Renewed(queue[1])
  /\ \A i \in 2..Len(queue) : again[i] = queue[i]

LEMMA ReopenTyped ==
  ASSUME TypeOK, NEW query \in Queries, EnqueueSearchQuery(query),
         Repeated(Load(file), query) # {}
  PROVE  /\ batch = None /\ batch' = None
         /\ Reopened(Load(file), file')
         /\ file' \in Queues
         /\ UNCHANGED <<snapshot, answer, clock, submitted>>
<1> DEFINE queue == Load(file)
<1>1. queue \in Queues
  BY LoadTyped
<1> HIDE DEF queue
<1>2. /\ HandlersRun(batch)
      /\ UNCHANGED <<batch, snapshot, answer, clock, submitted>>
      /\ \E i \in Repeated(queue, query) :
           file' = [queue EXCEPT ![i].created = clock, ![i].status = "pending",
                                 ![i].processedAt = None]
  BY DEF EnqueueSearchQuery, queue
<1>3. 1 \in 1..Len(queue) /\ queue[1].kind = "search_query" /\ queue[1] \in Item
  BY <1>1, <1>2 DEF Repeated, Queues
<1>4. Renewed(queue[1]) \in Item
  BY <1>3, RenewedTyped
<1>5. file' = [queue EXCEPT ![1] = Renewed(queue[1])]
  <2>1. file' = [queue EXCEPT ![1].created = clock, ![1].status = "pending",
                              ![1].processedAt = None]
    BY <1>2 DEF Repeated
  <2> QED  BY <1>1, <1>3, <2>1 DEF Queues, Renewed
<1>6. /\ file' \in Queues /\ Len(file') = Len(queue)
      /\ \A i \in 1..Len(queue) : file'[i] = IF i = 1 THEN Renewed(queue[1]) ELSE queue[i]
  BY <1>1, <1>3, <1>4, <1>5, ExceptSeq DEF Queues
<1>7. Reopened(queue, file')
  BY <1>1, <1>3, <1>6 DEF Reopened, Queues
<1> QED  BY <1>2, <1>6, <1>7 DEF HandlersRun, queue

-----------------------------------------------------------------------------
(* A batch.                                                                 *)

LEMMA BatchTyped ==
  ASSUME TypeOK, batch # None
  PROVE  /\ batch \in Batch
         /\ batch.queue \in Queues
         /\ batch.todo \subseteq 1..Len(batch.queue)
         /\ batch.latest \in Snapshot \cup {None}
         /\ batch.counts \in Answer
BY DEF TypeOK, Batch, Queues

Done(item, status) == [item EXCEPT !.status = status, !.processedAt = clock]

LEMMA DoneTyped ==
  ASSUME TypeOK, NEW item \in Item, NEW status \in ItemStatus
  PROVE  /\ Done(item, status) \in Item
         /\ Done(item, status).id = item.id /\ Done(item, status).kind = item.kind
         /\ Done(item, status).query = item.query /\ Done(item, status).created = item.created
         /\ Done(item, status).status = status /\ Done(item, status).processedAt = clock
BY DEF Done, Item, TypeOK

(* The i-th item is as it was, but done.                                    *)
DoneAt(queue, i, status) == [queue EXCEPT ![i] = Done(queue[i], status)]

LEMMA DoneAtTyped ==
  ASSUME TypeOK, NEW queue \in Queues, NEW i \in 1..Len(queue), NEW status \in ItemStatus
  PROVE  /\ DoneAt(queue, i, status) \in Queues
         /\ Len(DoneAt(queue, i, status)) = Len(queue)
         /\ \A j \in 1..Len(queue) : j # i => DoneAt(queue, i, status)[j] = queue[j]
         /\ DoneAt(queue, i, status)[i] = Done(queue[i], status)
<1>1. queue \in Seq(Item) /\ queue[i] \in Item /\ Len(queue) <= MaxItems
  BY DEF Queues
<1>2. Done(queue[i], status) \in Item
  BY <1>1, DoneTyped
<1> QED  BY <1>1, <1>2, ExceptSeq DEF DoneAt, Queues

CountsPlus(c, processed, failed, requestOnly) ==
  [c EXCEPT !.processedCount = @ + processed, !.failedCount = @ + failed,
            !.requestOnlyCount = @ + requestOnly]

LEMMA CountsAdd ==
  ASSUME NEW c \in Answer, NEW p \in Nat, NEW f \in Nat, NEW r \in Nat
  PROVE  LET new == CountsPlus(c, p, f, r)
         IN  /\ new.window = c.window /\ new.totalMatched = c.totalMatched
             /\ new.processedCount = c.processedCount + p
             /\ new.failedCount = c.failedCount + f
             /\ new.requestOnlyCount = c.requestOnlyCount + r
BY DEF CountsPlus, Answer

LEMMA DoneEffect ==
  ASSUME TypeOK, InBatch("items"), NEW i \in batch.todo, NEW status \in ItemStatus,
         NEW latest \in Snapshot \cup {None}, NEW processed \in Nat, NEW failed \in Nat,
         NEW requestOnly \in Nat,
         ItemDone(i, status, latest, processed, failed, requestOnly)
  PROVE  /\ batch' \in Batch
         /\ batch'.phase = "items"
         /\ batch'.queue = DoneAt(batch.queue, i, status)
         /\ batch'.todo = batch.todo \ {i}
         /\ batch'.latest = latest
         /\ batch'.counts = CountsPlus(batch.counts, processed, failed, requestOnly)
<1> DEFINE queue == batch.queue
           counts == [batch.counts EXCEPT !.processedCount = @ + processed,
                                          !.failedCount = @ + failed,
                                          !.requestOnlyCount = @ + requestOnly]
<1>1. /\ batch \in Batch /\ queue \in Queues /\ i \in 1..Len(queue)
      /\ batch.counts \in Answer /\ batch.phase = "items" /\ batch.todo \in SUBSET (1..MaxItems)
  BY BatchTyped DEF InBatch, Batch
<1>2. batch' = [phase |-> batch.phase, queue |-> DoneAt(queue, i, status),
                todo |-> batch.todo \ {i}, latest |-> latest, counts |-> counts]
  <2>1. batch = [phase |-> batch.phase, queue |-> queue, todo |-> batch.todo,
                 latest |-> batch.latest, counts |-> batch.counts]
    BY <1>1 DEF Batch
  <2> QED  BY <1>1, <2>1 DEF ItemDone, DoneAt, Done, Queues, Answer
<1>3. counts \in Answer
  <2>1. /\ batch.counts.processedCount + processed \in Nat
        /\ batch.counts.failedCount + failed \in Nat
        /\ batch.counts.requestOnlyCount + requestOnly \in Nat
    <3>1. /\ batch.counts.processedCount \in Nat
          /\ batch.counts.failedCount \in Nat
          /\ batch.counts.requestOnlyCount \in Nat
      BY <1>1 DEF Answer
    <3> QED  BY <3>1
  <2> QED  BY <1>1, <2>1 DEF Answer
<1>4. DoneAt(queue, i, status) \in Queues
  BY <1>1, DoneAtTyped
<1> HIDE DEF counts, queue
<1>5. batch' \in Batch
  BY <1>1, <1>2, <1>3, <1>4 DEF Batch, Queues
<1>6. batch'.counts = counts
  BY <1>2
<1>7. counts = CountsPlus(batch.counts, processed, failed, requestOnly)
  BY DEF counts, CountsPlus
<1> QED  BY <1>1, <1>2, <1>5, <1>6, <1>7 DEF queue

-----------------------------------------------------------------------------
(* What a step does to the file, the batch and the dashboard.               *)

Added ==
  /\ batch = None /\ batch' = None
  /\ \E item \in Item :
       /\ item.id = submitted + 1 /\ item.created = clock /\ item.status = "pending"
       /\ file' = Trim(<<item>> \o Load(file))
  /\ submitted' = submitted + 1
  /\ UNCHANGED <<snapshot, clock>>

AskedAgain ==
  /\ batch = None /\ batch' = None
  /\ file' \in Queues /\ Reopened(Load(file), file')
  /\ UNCHANGED <<snapshot, clock, submitted>>

Started(window) ==
  /\ batch = None /\ batch' \in Batch
  /\ batch'.phase = "items" /\ batch'.queue = Load(file)
  /\ batch'.todo = Matched(Load(file), window)
  /\ batch'.latest = None
  /\ UNCHANGED <<file, snapshot, clock, submitted>>

Worked(i) ==
  /\ InBatch("items") /\ i \in batch.todo
  /\ batch' \in Batch /\ batch'.phase = "items" /\ batch'.todo = batch.todo \ {i}
  /\ \E status \in {"processed", "failed"} :
       /\ batch'.queue = DoneAt(batch.queue, i, status)
       /\ \/ /\ batch'.latest = batch.latest
             /\ status = "failed" \/ batch.queue[i].kind \in ArchiveKind
          \/ batch'.latest \in Snapshot /\ batch'.latest.at = clock
  /\ UNCHANGED <<file, snapshot, clock, submitted>>

(* The batch leaves the items, or writes the snapshot.                      *)
Turned ==
  /\ batch # None /\ batch' \in Batch
  /\ batch'.queue = batch.queue /\ batch'.todo = batch.todo /\ batch'.latest = batch.latest
  /\ \/ batch.phase = "items" /\ batch'.phase = "snapshot" /\ UNCHANGED snapshot
     \/ /\ batch.phase = "snapshot" /\ batch'.phase = "save"
        /\ snapshot' = IF batch.latest = None THEN snapshot ELSE batch.latest
  /\ UNCHANGED <<file, clock, submitted>>

Saved ==
  /\ InBatch("save") /\ batch' = None
  /\ file' = batch.queue
  /\ UNCHANGED <<snapshot, clock, submitted>>

Dropped ==
  /\ batch' = None
  /\ file' \in {file, Torn} /\ snapshot' \in {snapshot, Torn}
  /\ UNCHANGED <<clock, submitted>>

Overwritten ==
  /\ batch = None /\ batch' = None
  /\ snapshot' = [at |-> clock, shown |-> None]
  /\ UNCHANGED <<file, clock, submitted>>

Passed ==
  /\ clock' \in Time /\ clock <= clock'
  /\ UNCHANGED <<file, batch, snapshot, submitted>>

LEMMA EnqueueStep ==
  ASSUME TypeOK, Enqueue
  PROVE  TypeOK' /\ (Added \/ AskedAgain)
<1>1. ASSUME NEW kind \in ArchiveKind \cup CandidateKind, NEW query \in Queries \cup {None},
             AddItem(kind, query)
      PROVE  TypeOK' /\ Added
  <2>1. TypeOK'
    BY <1>1, AddTyped DEF TypeOK, Queues
  <2>2. Added
    BY <1>1, AddTyped DEF Added, NewItem
  <2> QED  BY <2>1, <2>2
<1>2. ASSUME NEW query \in Queries, EnqueueSearchQuery(query)
      PROVE  TypeOK' /\ (Added \/ AskedAgain)
  <2>1. CASE Repeated(Load(file), query) = {}
    <3>1. AddItem("search_query", query)
      BY <1>2, <2>1 DEF EnqueueSearchQuery
    <3> QED  BY <1>1, <3>1 DEF ArchiveKind
  <2>2. CASE Repeated(Load(file), query) # {}
    <3>1. TypeOK'
      BY <1>2, <2>2, ReopenTyped DEF TypeOK, Queues
    <3>2. AskedAgain
      BY <1>2, <2>2, ReopenTyped DEF AskedAgain
    <3> QED  BY <3>1, <3>2
  <2> QED  BY <2>1, <2>2
<1> QED
  BY <1>1, <1>2 DEF Enqueue, EnqueueOperatorRequest, EnqueueCandidateIntake,
                    EnqueueCandidateGraphRefresh, ArchiveKind, CandidateKind

LEMMA StartStep ==
  ASSUME TypeOK, NEW window \in Window, StartBatch(window)
  PROVE  TypeOK' /\ Started(window)
<1> DEFINE queue == Load(file)
           matched == Matched(queue, window)
<1>1. queue \in Queues
  BY LoadTyped
<1>2. /\ matched \subseteq 1..Len(queue)
      /\ matched \in SUBSET (1..MaxItems)
      /\ Cardinality(matched) \in Nat
  BY <1>1, MatchedTyped
<1>3. /\ batch = None
      /\ batch' = [phase |-> "items", queue |-> queue, todo |-> matched, latest |-> None,
                   counts |-> [window |-> window, totalMatched |-> Cardinality(matched),
                               processedCount |-> 0, failedCount |-> 0,
                               requestOnlyCount |-> 0, snapshotUpdated |-> FALSE]]
      /\ answer' = None
      /\ UNCHANGED <<file, snapshot, clock, submitted>>
  BY DEF StartBatch, HandlersRun
<1>4. [window |-> window, totalMatched |-> Cardinality(matched), processedCount |-> 0,
       failedCount |-> 0, requestOnlyCount |-> 0, snapshotUpdated |-> FALSE] \in Answer
  BY <1>2 DEF Answer
<1>5. Started(window)
  <2> HIDE DEF matched, queue
  <2>1. batch' \in Batch
    BY <1>1, <1>2, <1>3, <1>4 DEF Batch, Queues
  <2> QED  BY <1>3, <2>1 DEF Started, matched, queue
<1>6. TypeOK'
  BY <1>1, <1>2, <1>3, <1>5 DEF Started, TypeOK, Queues
<1> QED  BY <1>5, <1>6

LEMMA WorkStep ==
  ASSUME TypeOK, NEW i \in 1..MaxItems,
         \/ ArchiveItem(i)
         \/ \E completed \in BOOLEAN : RunCandidate(i, completed)
         \/ ReadCandidateFails(i)
  PROVE  TypeOK' /\ Worked(i)
<1>1. InBatch("items") /\ i \in batch.todo
  BY DEF ArchiveItem, RunCandidate, ReadCandidateFails, Doing
<1>2. /\ batch # None /\ batch.queue \in Queues /\ i \in 1..Len(batch.queue)
      /\ batch.queue[i] \in Item /\ batch.latest \in Snapshot \cup {None}
  BY <1>1, BatchTyped DEF InBatch, Queues
<1>3. /\ [at |-> clock, shown |-> batch.queue[i].id] \in Snapshot
      /\ [at |-> clock, shown |-> batch.queue[i].id].at = clock
  BY <1>2 DEF Snapshot, Item, TypeOK
<1>4. Worked(i)
  <2>1. CASE ArchiveItem(i)
    <3>1. ItemDone(i, "processed", batch.latest, 1, 0, 1) /\ batch.queue[i].kind \in ArchiveKind
      BY <2>1 DEF ArchiveItem, Doing
    <3> QED  BY <1>1, <1>2, <2>1, <3>1, DoneEffect DEF ArchiveItem, Worked, ItemStatus
  <2>2. CASE RunCandidate(i, TRUE)
    <3>1. ItemDone(i, "processed", [at |-> clock, shown |-> batch.queue[i].id], 1, 0, 0)
      BY <2>2 DEF RunCandidate
    <3> QED  BY <1>1, <1>3, <2>2, <3>1, DoneEffect DEF RunCandidate, Worked, ItemStatus
  <2>3. CASE RunCandidate(i, FALSE)
    <3>1. ItemDone(i, "failed", [at |-> clock, shown |-> batch.queue[i].id], 0, 1, 0)
      BY <2>3 DEF RunCandidate
    <3> QED  BY <1>1, <1>3, <2>3, <3>1, DoneEffect DEF RunCandidate, Worked, ItemStatus
  <2>4. CASE ReadCandidateFails(i)
    <3>1. ItemDone(i, "failed", batch.latest, 0, 1, 0)
      BY <2>4 DEF ReadCandidateFails
    <3> QED  BY <1>1, <1>2, <2>4, <3>1, DoneEffect DEF ReadCandidateFails, Worked, ItemStatus
  <2> QED  BY <2>1, <2>2, <2>3, <2>4
<1>5. UNCHANGED answer
  BY DEF ArchiveItem, RunCandidate, ReadCandidateFails
<1>6. batch'.queue \in Queues /\ Len(batch'.queue) = Len(batch.queue)
  <2>1. PICK status \in {"processed", "failed"} : batch'.queue = DoneAt(batch.queue, i, status)
    BY <1>4 DEF Worked
  <2>2. status \in ItemStatus
    BY DEF ItemStatus
  <2> QED  BY <1>2, <2>1, <2>2, DoneAtTyped
<1>7. TypeOK'
  BY <1>2, <1>4, <1>5, <1>6, BatchTyped DEF TypeOK, Worked, Queues
<1> QED  BY <1>4, <1>7

LEMMA TurnStep ==
  ASSUME TypeOK, EndItems \/ WriteSnapshot
  PROVE  TypeOK' /\ Turned
<1>1. /\ batch # None /\ batch \in Batch
      /\ batch.latest \in Snapshot \cup {None} /\ batch.counts \in Answer
  BY BatchTyped DEF EndItems, WriteSnapshot, InBatch
<1>2. CASE EndItems
  <2>1. batch' = [batch EXCEPT !.phase = "snapshot", !.counts = batch.counts]
    BY <1>2 DEF EndItems, Leave, PhaseAfter
  <2>2. Turned
    BY <1>1, <1>2, <2>1 DEF EndItems, InBatch, Batch, Turned
  <2>3. UNCHANGED <<answer, snapshot>>
    BY <1>2 DEF EndItems, Leave, PhaseAfter
  <2> QED  BY <2>2, <2>3 DEF Turned, TypeOK
<1>3. CASE WriteSnapshot
  <2> DEFINE counts == [batch.counts EXCEPT !.snapshotUpdated = batch.latest # None]
  <2>1. batch' = [batch EXCEPT !.phase = "save", !.counts = counts] /\ UNCHANGED answer
    BY <1>3 DEF WriteSnapshot, Leave, PhaseAfter
  <2>2. counts \in Answer
    BY <1>1 DEF Answer
  <2> HIDE DEF counts
  <2>3. Turned
    BY <1>1, <1>3, <2>1, <2>2 DEF WriteSnapshot, InBatch, Batch, Turned
  <2>4. snapshot' \in Snapshot \cup {Absent, Torn}
    BY <1>1, <2>3 DEF Turned, TypeOK
  <2> QED  BY <2>1, <2>3, <2>4 DEF Turned, TypeOK
<1> QED  BY <1>2, <1>3

LEMMA SaveStep ==
  ASSUME TypeOK, SaveQueue
  PROVE  TypeOK' /\ Saved
<1>1. InBatch("save") /\ batch # None
  BY DEF SaveQueue, InBatch
<1>2. batch' = None /\ answer' = batch.counts /\ file' = batch.queue
      /\ UNCHANGED <<snapshot, clock, submitted>>
  BY DEF SaveQueue, Leave, PhaseAfter
<1>3. Saved
  BY <1>1, <1>2 DEF Saved
<1> QED  BY <1>1, <1>2, <1>3, BatchTyped DEF TypeOK, Queues

LEMMA OtherStep ==
  ASSUME TypeOK, BatchAborts \/ QueueFileTorn \/ SnapshotTorn \/ OtherRunShown \/ Tick
  PROVE  TypeOK' /\ (Dropped \/ Overwritten \/ Passed)
<1>1. CASE BatchAborts \/ QueueFileTorn \/ SnapshotTorn
  <2>1. Dropped /\ UNCHANGED answer
    BY <1>1 DEF BatchAborts, QueueFileTorn, SnapshotTorn, Dropped
  <2> QED  BY <2>1 DEF Dropped, TypeOK
<1>2. CASE OtherRunShown
  <2>1. Overwritten /\ UNCHANGED answer
    BY <1>2 DEF OtherRunShown, HandlersRun, Overwritten
  <2> QED  BY <2>1 DEF Overwritten, TypeOK, Snapshot
<1>3. CASE Tick
  <2>1. clock' \in Time /\ clock <= clock' /\ UNCHANGED <<file, batch, snapshot, answer, submitted>>
    BY <1>3 DEF Tick, TypeOK, Time
  <2> QED  BY <2>1 DEF Passed, TypeOK
<1> QED  BY <1>1, <1>2, <1>3

LEMMA AnyStep ==
  ASSUME TypeOK, [Next]_vars
  PROVE  /\ TypeOK'
         /\ \/ Added \/ AskedAgain
            \/ \E window \in Window : Started(window)
            \/ \E i \in 1..MaxItems : Worked(i)
            \/ Turned \/ Saved \/ Dropped \/ Overwritten \/ Passed
<1>1. CASE UNCHANGED vars
  BY <1>1 DEF vars, TypeOK, Passed, Time
<1>2. CASE BatchStep
  BY <1>2, WorkStep, TurnStep, SaveStep DEF BatchStep
<1> QED
  BY <1>1, <1>2, EnqueueStep, StartStep, OtherStep DEF Next

(* Whatever is queued, worked off, cut short or torn, the state is well     *)
(* typed, and the file never holds more than MaxItems items.                *)
THEOREM Typing == Spec => []TypeOK
<1>1. TypeOK /\ [Next]_vars => TypeOK'
  BY AnyStep
<1> QED  BY <1>1, InitTyped, PTL DEF Spec

-----------------------------------------------------------------------------
(* The order of the file.  Ids tell the items apart and fall along the      *)
(* queue as the times do.                                                   *)

Ordered(queue) ==
  \A i, j \in 1..Len(queue) :
    i < j => queue[j].id < queue[i].id /\ queue[j].created <= queue[i].created

Past(queue, last, now) ==
  \A i \in 1..Len(queue) : queue[i].id <= last /\ queue[i].created <= now

FileInv == Ordered(Load(file)) /\ Past(Load(file), submitted, clock)

(* A batch's copy is the file but for what it has finished.                 *)
Copied(old, new, todo) ==
  /\ Len(new) = Len(old)
  /\ \A i \in 1..Len(old) :
       /\ new[i].id = old[i].id /\ new[i].created = old[i].created
       /\ old[i].status # "pending" => new[i] = old[i]
       /\ i \in todo => old[i].status = "pending"

BatchInv == batch # None => Copied(Load(file), batch.queue, batch.todo)

(* What a step makes of the queue in the file.                              *)
QueueStep ==
  \/ Added \/ AskedAgain \/ Saved
  \/ file' = Torn /\ Load(file') = <<>> /\ batch' = None /\ clock' = clock /\ submitted' = submitted
  \/ UNCHANGED <<file, submitted>> /\ clock <= clock'

LEMMA QueueSteps ==
  ASSUME TypeOK, [Next]_vars
  PROVE  QueueStep
<1>1. Load(Torn) = <<>>
  BY DEF Load
<1>2. clock <= clock
  BY DEF TypeOK, Time
<1> QED
  BY <1>1, <1>2, AnyStep DEF QueueStep, Started, Worked, Turned, Dropped, Overwritten, Passed

(* The queue after an enqueue.                                              *)
LEMMA AddedQueue ==
  ASSUME TypeOK, Added
  PROVE  /\ Len(Load(file')) =
              IF Len(Load(file)) < MaxItems THEN Len(Load(file)) + 1 ELSE MaxItems
         /\ Load(file') = file' /\ file' \in Queues
         /\ Load(file')[1].id = submitted + 1
         /\ Load(file')[1].created = clock /\ Load(file')[1].status = "pending"
         /\ \A i \in 2..Len(Load(file')) : Load(file')[i] = Load(file)[i - 1]
<1>1. PICK item \in Item : /\ item.id = submitted + 1 /\ item.created = clock
                           /\ item.status = "pending"
                           /\ file' = Trim(<<item>> \o Load(file))
  BY DEF Added
<1>2. file' \in Queues
  BY <1>1, LoadTyped, PutFirst
<1>3. Load(file') = file'
  BY <1>2, LoadFile
<1>4. /\ Len(file') = IF Len(Load(file)) < MaxItems THEN Len(Load(file)) + 1 ELSE MaxItems
      /\ file'[1] = item
      /\ \A i \in 2..Len(file') : file'[i] = Load(file)[i - 1]
  BY <1>1, LoadTyped, PutFirst
<1> QED  BY <1>1, <1>2, <1>3, <1>4

LEMMA QueueItems ==
  ASSUME NEW queue \in Queues
  PROVE  /\ Len(queue) \in Nat /\ Len(queue) <= MaxItems
         /\ \A i \in 1..Len(queue) :
              queue[i] \in Item /\ queue[i].id \in Nat /\ queue[i].created \in Nat
<1>1. queue \in Seq(Item) /\ Len(queue) <= MaxItems
  BY DEF Queues
<1>2. ASSUME NEW i \in 1..Len(queue)
      PROVE  queue[i] \in Item /\ queue[i].id \in Nat /\ queue[i].created \in Nat
  <2>1. queue[i] \in Item
    BY <1>1
  <2>2. queue[i].id \in 1..MaxSubmitted /\ queue[i].created \in 0..MaxTime
    BY <2>1 DEF Item, Time
  <2> QED  BY <2>1, <2>2
<1> QED  BY <1>1, <1>2

LEMMA InitFile == Init => FileInv /\ BatchInv
BY DEF Init, FileInv, BatchInv, Ordered, Past, Load

(* An item that is put first, with the next id and the present time.        *)
LEMMA OrderedAdd ==
  ASSUME NEW old \in Queues, NEW new \in Queues, NEW last \in Nat, NEW now \in Nat,
         Ordered(old), Past(old, last, now),
         Len(new) <= Len(old) + 1,
         new[1].id = last + 1, new[1].created = now,
         \A i \in 2..Len(new) : new[i] = old[i - 1]
  PROVE  Ordered(new) /\ Past(new, last + 1, now)
<1>1. /\ Len(old) \in Nat /\ Len(new) \in Nat
      /\ \A i \in 1..Len(old) : old[i].id \in Nat /\ old[i].created \in Nat
  BY QueueItems
<1>2. ASSUME NEW i \in 2..Len(new)
      PROVE  /\ i - 1 \in 1..Len(old) /\ new[i] = old[i - 1]
             /\ new[i].id \in Nat /\ new[i].id <= last
             /\ new[i].created \in Nat /\ new[i].created <= now
  <2>1. i - 1 \in 1..Len(old)
    BY <1>1
  <2> QED  BY <1>1, <2>1 DEF Past
<1>3. Past(new, last + 1, now)
  <2> SUFFICES ASSUME NEW i \in 1..Len(new)
               PROVE  new[i].id <= last + 1 /\ new[i].created <= now
    BY DEF Past
  <2>1. CASE i = 1
    BY <2>1
  <2>2. CASE i \in 2..Len(new)
    BY <1>2, <2>2
  <2> QED  BY <1>1, <2>1, <2>2
<1>4. Ordered(new)
  <2> SUFFICES ASSUME NEW i \in 1..Len(new), NEW j \in 1..Len(new), i < j
               PROVE  new[j].id < new[i].id /\ new[j].created <= new[i].created
    BY DEF Ordered
  <2>1. j \in 2..Len(new)
    BY <1>1
  <2>2. CASE i = 1
    BY <1>2, <2>1, <2>2
  <2>3. CASE i \in 2..Len(new)
    <3>1. i - 1 \in 1..Len(old) /\ j - 1 \in 1..Len(old) /\ i - 1 < j - 1
      BY <1>2, <2>1, <2>3
    <3>2. new[i] = old[i - 1] /\ new[j] = old[j - 1]
      BY <2>1, <2>3
    <3> QED  BY <3>1, <3>2 DEF Ordered
  <2> QED  BY <1>1, <2>2, <2>3
<1> QED  BY <1>3, <1>4

(* The newest item, made new again.                                         *)
LEMMA OrderedAgain ==
  ASSUME NEW old \in Queues, NEW new \in Queues, NEW last \in Nat, NEW now \in Nat,
         Ordered(old), Past(old, last, now),
         Len(new) = Len(old),
         new[1].id = old[1].id, new[1].created = now,
         \A i \in 2..Len(old) : new[i] = old[i]
  PROVE  Ordered(new) /\ Past(new, last, now)
<1>1. /\ Len(old) \in Nat
      /\ \A i \in 1..Len(old) : old[i].id \in Nat /\ old[i].created \in Nat
  BY QueueItems
<1>2. \A i \in 1..Len(old) : i = 1 \/ i \in 2..Len(old)
  BY <1>1
<1>3. Past(new, last, now)
  BY <1>2 DEF Past
<1>4. Ordered(new)
  <2> SUFFICES ASSUME NEW i \in 1..Len(old), NEW j \in 1..Len(old), i < j
               PROVE  new[j].id < new[i].id /\ new[j].created <= new[i].created
    BY DEF Ordered
  <2>1. old[j].id < old[i].id /\ old[j].created <= old[i].created /\ old[j].created <= now
    BY DEF Ordered, Past
  <2>2. new[j] = old[j]
    BY <1>1
  <2>3. new[i].id = old[i].id /\ (new[i].created = now \/ new[i].created = old[i].created)
    BY <1>2
  <2> QED  BY <2>1, <2>2, <2>3
<1> QED  BY <1>3, <1>4

LEMMA NextFile == TypeOK /\ FileInv /\ BatchInv /\ [Next]_vars => FileInv'
<1> SUFFICES ASSUME TypeOK, FileInv, BatchInv, [Next]_vars PROVE FileInv'
  OBVIOUS
<1> DEFINE old == Load(file)
           new == Load(file')
<1>1. old \in Queues /\ Ordered(old) /\ Past(old, submitted, clock)
  BY LoadTyped DEF FileInv
<1>2. TypeOK' /\ clock \in Nat /\ clock' \in Nat /\ submitted \in Nat
  BY AnyStep DEF TypeOK, Time
<1>3. new \in Queues
  BY <1>2, LoadQueue DEF TypeOK
<1> HIDE DEF old, new
<1>4. CASE Added
  <2>1. /\ Len(new) <= Len(old) + 1
        /\ new[1].id = submitted + 1 /\ new[1].created = clock
        /\ \A i \in 2..Len(new) : new[i] = old[i - 1]
    <3>1. /\ Len(new) = IF Len(old) < MaxItems THEN Len(old) + 1 ELSE MaxItems
          /\ new[1].id = submitted + 1 /\ new[1].created = clock
          /\ \A i \in 2..Len(new) : new[i] = old[i - 1]
      BY <1>4, AddedQueue DEF old, new
    <3> QED  BY <1>1, <3>1, QueueItems
  <2>2. Ordered(new) /\ Past(new, submitted + 1, clock)
    BY <1>1, <1>2, <1>3, <2>1, OrderedAdd
  <2> QED  BY <1>4, <2>2 DEF FileInv, Added, new
<1>5. CASE AskedAgain
  <2>1. new = file' /\ Reopened(old, new) /\ clock' = clock /\ submitted' = submitted
    BY <1>5, LoadFile DEF AskedAgain, old, new
  <2>2. old[1] \in Item
    BY <1>1, <2>1, QueueItems DEF Reopened
  <2>3. Ordered(new) /\ Past(new, submitted, clock)
    <3>1. /\ Len(new) = Len(old)
          /\ new[1].id = old[1].id /\ new[1].created = clock
          /\ \A i \in 2..Len(old) : new[i] = old[i]
      BY <2>1, <2>2, RenewedTyped DEF Reopened
    <3> QED  BY <1>1, <1>2, <1>3, <3>1, OrderedAgain
  <2> QED  BY <2>1, <2>3 DEF FileInv, new
<1>6. CASE Saved
  <2>1. Copied(old, batch.queue, batch.todo)
    BY <1>6 DEF Saved, InBatch, BatchInv, old
  <2>2. new = batch.queue /\ clock' = clock /\ submitted' = submitted
    BY <1>6, BatchTyped, LoadFile DEF Saved, InBatch, new
  <2>3. Len(new) = Len(old) /\ \A i \in 1..Len(old) : new[i].id = old[i].id
                                                     /\ new[i].created = old[i].created
    BY <2>1, <2>2 DEF Copied
  <2>4. Ordered(new) /\ Past(new, submitted, clock)
    BY <1>1, <2>3 DEF Ordered, Past
  <2> QED  BY <2>2, <2>4 DEF FileInv, new
<1>7. CASE new = <<>>
  BY <1>7 DEF FileInv, Ordered, Past, new
<1>8. CASE UNCHANGED <<file, submitted>> /\ clock <= clock'
  <2>1. new = old
    BY <1>8 DEF old, new
  <2>2. \A i \in 1..Len(old) : old[i].created \in Nat
    BY <1>1, QueueItems
  <2>3. Past(new, submitted, clock')
    BY <1>1, <1>2, <1>8, <2>1, <2>2 DEF Past
  <2> QED  BY <1>1, <1>8, <2>1, <2>3 DEF FileInv, new
<1> QED  BY <1>4, <1>5, <1>6, <1>7, <1>8, QueueSteps DEF QueueStep, new

LEMMA NextBatch == TypeOK /\ BatchInv /\ [Next]_vars => BatchInv'
<1> SUFFICES ASSUME TypeOK, BatchInv, [Next]_vars, batch' # None
             PROVE  Copied(Load(file'), batch'.queue, batch'.todo)
  BY DEF BatchInv
<1>1. ASSUME NEW window \in Window, Started(window)
      PROVE  Copied(Load(file'), batch'.queue, batch'.todo)
  <2>1. Load(file') = Load(file) /\ batch'.queue = Load(file)
    BY <1>1 DEF Started
  <2>2. \A i \in batch'.todo : Load(file)[i].status = "pending"
    BY <1>1 DEF Started, Matched
  <2> QED  BY <2>1, <2>2 DEF Copied
<1>2. ASSUME NEW i \in 1..MaxItems, Worked(i)
      PROVE  Copied(Load(file'), batch'.queue, batch'.todo)
  <2> DEFINE old == Load(file)
             new == batch.queue
  <2>1. /\ i \in batch.todo /\ batch # None /\ file' = file
        /\ batch'.todo = batch.todo \ {i}
    BY <1>2 DEF Worked, InBatch
  <2>2. PICK status \in {"processed", "failed"} : batch'.queue = DoneAt(new, i, status)
    BY <1>2 DEF Worked
  <2>3. Copied(old, new, batch.todo)
    BY <2>1 DEF BatchInv
  <2>4. new \in Queues /\ i \in 1..Len(new) /\ status \in ItemStatus
    BY <2>1, BatchTyped DEF ItemStatus
  <2>5. new[i] \in Item
    BY <2>4, QueueItems
  <2> HIDE DEF old, new
  <2>6. /\ Len(batch'.queue) = Len(new)
        /\ \A j \in 1..Len(new) : j # i => batch'.queue[j] = new[j]
        /\ batch'.queue[i] = Done(new[i], status)
    BY <2>2, <2>4, DoneAtTyped
  <2>7. batch'.queue[i].id = new[i].id /\ batch'.queue[i].created = new[i].created
    BY <2>4, <2>5, <2>6, DoneTyped
  <2>8. Copied(old, batch'.queue, batch'.todo)
    BY <2>1, <2>3, <2>6, <2>7 DEF Copied
  <2> QED  BY <2>1, <2>8 DEF old
<1>3. CASE Turned
  BY <1>3 DEF Turned, BatchInv
<1>4. CASE Passed
  BY <1>4 DEF Passed, BatchInv
<1> QED
  BY <1>1, <1>2, <1>3, <1>4, AnyStep DEF Added, AskedAgain, Saved, Dropped, Overwritten

QueueInv == TypeOK /\ FileInv /\ BatchInv

LEMMA NextQueue == QueueInv /\ [Next]_vars => QueueInv'
BY AnyStep, NextFile, NextBatch DEF QueueInv

(* The order of the queue and the faithfulness of a batch's copy.           *)
THEOREM QueueHolds == Spec => []QueueInv
<1>1. Init => QueueInv
  BY InitTyped, InitFile DEF QueueInv
<1> QED  BY <1>1, NextQueue, PTL DEF Spec

(* The file is in the order of its times, whatever is enqueued, asked again *)
(* or saved by a batch.                                                     *)
THEOREM FileIsSorted == Spec => []NewestFirst
<1>1. QueueInv => NewestFirst
  <2> SUFFICES ASSUME QueueInv, NEW i \in 1..Len(Load(file)), NEW j \in 1..Len(Load(file)), i < j
               PROVE  Load(file)[i].created >= Load(file)[j].created
    BY DEF NewestFirst
  <2>1. Load(file)[j].created <= Load(file)[i].created
    BY DEF QueueInv, FileInv, Ordered
  <2>2. Load(file)[i].created \in Nat /\ Load(file)[j].created \in Nat
    BY LoadTyped, QueueItems DEF QueueInv
  <2> QED  BY <2>1, <2>2
<1> QED  BY <1>1, QueueHolds, PTL

-----------------------------------------------------------------------------
(* What is done stays.                                                      *)

LEMMA IdsDiffer ==
  ASSUME NEW queue \in Queues, Ordered(queue), NEW i \in 1..Len(queue), NEW j \in 1..Len(queue),
         queue[i].id = queue[j].id
  PROVE  i = j
<1>1. queue[i].id \in Nat /\ queue[j].id \in Nat
  BY QueueItems
<1>2. ~(i < j) /\ ~(j < i)
  BY <1>1 DEF Ordered
<1> QED  BY <1>2

Stays ==
  \A item \in Items(file), now \in Items(file') :
    item.id = now.id /\ item.status # "pending" =>
      \/ now = item
      \/ now.kind = "search_query" /\ now.status = "pending"

LEMMA FinishedStep == QueueInv /\ [Next]_vars => Stays
<1> DEFINE old == Load(file)
           new == Load(file')
<1> SUFFICES ASSUME QueueInv, [Next]_vars, NEW i \in 1..Len(old), NEW k \in 1..Len(new),
                    old[i].id = new[k].id, old[i].status # "pending"
             PROVE  \/ new[k] = old[i]
                    \/ new[k].kind = "search_query" /\ new[k].status = "pending"
  BY DEF Stays, Items
<1>1. /\ TypeOK /\ old \in Queues /\ Ordered(old) /\ Past(old, submitted, clock)
      /\ submitted \in Nat
  BY LoadTyped DEF QueueInv, FileInv, TypeOK
<1>2. Len(old) \in Nat /\ \A j \in 1..Len(old) : old[j] \in Item /\ old[j].id \in Nat
  BY <1>1, QueueItems
<1> HIDE DEF old, new
<1>3. CASE Added
  <2>1. /\ Len(new) = IF Len(old) < MaxItems THEN Len(old) + 1 ELSE MaxItems
        /\ new[1].id = submitted + 1
        /\ \A j \in 2..Len(new) : new[j] = old[j - 1]
    BY <1>1, <1>3, AddedQueue DEF old, new
  <2>2. old[i].id <= submitted
    BY <1>1 DEF Past
  <2>3. k # 1
    BY <1>1, <1>2, <2>1, <2>2
  <2>4. Len(old) <= MaxItems
    BY <1>1, QueueItems
  <2>5. k \in 2..Len(new) /\ k - 1 \in 1..Len(old)
    BY <1>2, <2>1, <2>3, <2>4
  <2>6. new[k] = old[k - 1]
    BY <2>1, <2>5
  <2> QED  BY <1>1, <2>5, <2>6, IdsDiffer
<1>4. CASE AskedAgain
  <2>1. Reopened(old, new)
    BY <1>4, LoadFile DEF AskedAgain, old, new
  <2>2. k \in 1..Len(old)
    BY <2>1 DEF Reopened
  <2>3. CASE k = 1
    BY <1>1, <1>2, <2>1, <2>2, <2>3, RenewedTyped DEF Reopened
  <2>4. CASE k # 1
    <3>1. new[k] = old[k]
      BY <1>2, <2>1, <2>2, <2>4 DEF Reopened
    <3> QED  BY <1>1, <2>2, <3>1, IdsDiffer
  <2> QED  BY <2>3, <2>4
<1>5. CASE Saved
  <2>1. new = batch.queue
    BY <1>1, <1>5, BatchTyped, LoadFile DEF Saved, InBatch, new
  <2>2. Copied(old, new, batch.todo)
    BY <1>5, <2>1 DEF Saved, InBatch, QueueInv, BatchInv, old
  <2>3. k \in 1..Len(old) /\ new[k].id = old[k].id
    BY <2>2 DEF Copied
  <2>4. k = i
    BY <1>1, <2>3, IdsDiffer
  <2> QED  BY <2>2, <2>4 DEF Copied
<1>6. CASE new = <<>>
  BY <1>6
<1>7. CASE UNCHANGED file
  BY <1>1, <1>7, IdsDiffer DEF old, new
<1> QED  BY <1>1, <1>3, <1>4, <1>5, <1>6, <1>7, QueueSteps DEF QueueStep, new

(* An item that is done stays as it is until the same query is asked again. *)
THEOREM FinishedItemsStay == Spec => FinishedStays
<1>1. QueueInv /\ [Next]_vars => [Stays]_vars
  BY FinishedStep
<1>2. Spec => [][Stays]_vars
  BY <1>1, QueueHolds, PTL DEF Spec
<1>3. FinishedStays <=> [][Stays]_vars
  BY DEF FinishedStays, Stays
<1> QED  BY <1>2, <1>3

-----------------------------------------------------------------------------
(* What is queued stays.                                                    *)

Kept ==
  file' # Torn =>
    \A item \in Items(file) :
      \/ \E kept \in Items(file') : kept.id = item.id
      \/ /\ Len(file') = MaxItems
         /\ \A kept \in Items(file') : kept.created >= item.created

LEMMA KeptStep == QueueInv /\ [Next]_vars => Kept
<1> DEFINE old == Load(file)
           new == Load(file')
           Is(i) == \E k \in 1..Len(new) : new[k].id = old[i].id
           Older(i) == Len(file') = MaxItems
                         /\ \A k \in 1..Len(new) : new[k].created >= old[i].created
<1> SUFFICES ASSUME QueueInv, [Next]_vars, file' # Torn, NEW i \in 1..Len(old)
             PROVE  Is(i) \/ Older(i)
  BY DEF Kept, Items
<1>1. /\ TypeOK /\ old \in Queues /\ Ordered(old) /\ Past(old, submitted, clock)
  BY LoadTyped DEF QueueInv, FileInv, TypeOK
<1>2. /\ Len(old) \in Nat /\ Len(old) <= MaxItems /\ clock \in Nat
      /\ \A j \in 1..Len(old) : old[j] \in Item /\ old[j].created \in Nat
  BY <1>1, QueueItems DEF TypeOK, Time
<1> HIDE DEF old, new
<1>3. CASE Added
  <2>1. /\ Len(new) = IF Len(old) < MaxItems THEN Len(old) + 1 ELSE MaxItems
        /\ new[1].created = clock /\ new = file'
        /\ \A k \in 2..Len(new) : new[k] = old[k - 1]
    BY <1>1, <1>3, AddedQueue DEF old, new
  <2>2. CASE i + 1 <= Len(new)
    <3>1. i + 1 \in 2..Len(new) /\ (i + 1) - 1 = i
      BY <1>2, <2>1, <2>2
    <3>2. new[i + 1] = old[i]
      BY <2>1, <3>1
    <3> QED  BY <1>2, <2>1, <3>1, <3>2
  <2>3. CASE ~(i + 1 <= Len(new))
    <3>1. Len(new) = MaxItems /\ i = MaxItems /\ Len(old) = MaxItems
      BY <1>2, <2>1, <2>3
    <3>2. ASSUME NEW k \in 2..Len(new)
          PROVE  new[k].created >= old[i].created
      <4>1. k - 1 \in 1..Len(old) /\ k - 1 < i /\ new[k] = old[k - 1]
        BY <2>1, <3>1
      <4>2. old[i].created <= old[k - 1].created
        BY <1>1, <4>1 DEF Ordered
      <4> QED  BY <1>2, <4>1, <4>2
    <3>3. new[1].created >= old[i].created
      BY <1>1, <1>2, <2>1 DEF Past
    <3>4. \A k \in 1..Len(new) : k = 1 \/ k \in 2..Len(new)
      BY <3>1
    <3> QED  BY <2>1, <3>1, <3>2, <3>3, <3>4
  <2> QED  BY <2>2, <2>3
<1>4. CASE AskedAgain
  <2>1. Reopened(old, new)
    BY <1>4, LoadFile DEF AskedAgain, old, new
  <2>2. i \in 1..Len(new)
    BY <2>1 DEF Reopened
  <2>3. CASE i = 1
    BY <1>1, <1>2, <2>1, <2>2, <2>3, RenewedTyped DEF Reopened
  <2>4. CASE i # 1
    <3>1. new[i] = old[i]
      BY <1>2, <2>1, <2>4 DEF Reopened
    <3> QED  BY <2>2, <3>1
  <2> QED  BY <2>3, <2>4
<1>5. CASE Saved
  <2>1. new = batch.queue
    BY <1>1, <1>5, BatchTyped, LoadFile DEF Saved, InBatch, new
  <2>2. Copied(old, new, batch.todo)
    BY <1>5, <2>1 DEF Saved, InBatch, QueueInv, BatchInv, old
  <2> QED  BY <2>2 DEF Copied
<1>6. CASE UNCHANGED file
  BY <1>6 DEF old, new
<1> QED  BY <1>1, <1>3, <1>4, <1>5, <1>6, QueueSteps DEF QueueStep

(* An item is lost only to a torn file, or because MaxItems others, none    *)
(* older, stand in the file instead.                                        *)
THEOREM ItemsAreKept == Spec => QueueKeeps
<1>1. QueueInv /\ [Next]_vars => [Kept]_vars
  BY KeptStep
<1>2. Spec => [][Kept]_vars
  BY <1>1, QueueHolds, PTL DEF Spec
<1>3. QueueKeeps <=> [][Kept]_vars
  BY DEF QueueKeeps, Kept
<1> QED  BY <1>2, <1>3

-----------------------------------------------------------------------------
(* What is called processed has been shown.                                 *)

IsRun(item) == item.kind \in CandidateKind /\ item.status = "processed"

(* The dashboard is torn, or holds something made since each run.           *)
Shown(queue, shot) ==
  \A i \in 1..Len(queue) :
    IsRun(queue[i]) => shot = Torn \/ (shot # Absent /\ shot.at >= queue[i].processedAt)

Before(queue, time) ==
  \A i \in 1..Len(queue) :
    IsRun(queue[i]) => queue[i].processedAt \in Nat /\ queue[i].processedAt <= time

ShownInv ==
  /\ Shown(Load(file), snapshot) /\ Before(Load(file), clock)
  /\ batch # None =>
       /\ Before(batch.queue, clock)
       /\ batch.latest = None \/ batch.phase = "save" => Shown(batch.queue, snapshot)
       /\ batch.latest # None =>
            Before(Load(file), batch.latest.at) /\ Before(batch.queue, batch.latest.at)

LEMMA InitShown == Init => ShownInv
BY DEF Init, ShownInv, Shown, Before, Load

LEMMA BeforeLater ==
  ASSUME NEW queue, NEW t \in Nat, NEW u \in Nat, t <= u, Before(queue, t)
  PROVE  Before(queue, u)
BY DEF Before

LEMMA BeforeShown ==
  ASSUME NEW queue, NEW shot \in Snapshot, Before(queue, shot.at)
  PROVE  Shown(queue, shot)
<1>1. shot.at \in Nat /\ shot # Absent
  BY DEF Snapshot, Time
<1> QED  BY <1>1 DEF Before, Shown

(* A queue with no run that another does not have.                          *)
NoNewRun(old, new) ==
  \A i \in 1..Len(new) : IsRun(new[i]) => \E j \in 1..Len(old) : old[j] = new[i]

LEMMA NoNewRunShown ==
  ASSUME NEW old, NEW new, NoNewRun(old, new)
  PROVE  /\ \A shot : Shown(old, shot) => Shown(new, shot)
         /\ \A time : Before(old, time) => Before(new, time)
BY DEF NoNewRun, Shown, Before

LEMMA EnqueuedRuns ==
  ASSUME TypeOK, Added \/ AskedAgain
  PROVE  NoNewRun(Load(file), Load(file'))
<1> DEFINE old == Load(file)
           new == Load(file')
<1>1. old \in Queues /\ Len(old) \in Nat /\ Len(old) <= MaxItems
  BY LoadTyped, QueueItems
<1> HIDE DEF old, new
<1>2. CASE Added
  <2>1. /\ Len(new) = IF Len(old) < MaxItems THEN Len(old) + 1 ELSE MaxItems
        /\ new[1].status = "pending"
        /\ \A i \in 2..Len(new) : new[i] = old[i - 1]
    BY <1>2, AddedQueue DEF old, new
  <2>2. \A i \in 1..Len(new) : i = 1 \/ (i \in 2..Len(new) /\ i - 1 \in 1..Len(old))
    BY <1>1, <2>1
  <2>3. ~IsRun(new[1])
    BY <2>1 DEF IsRun
  <2> QED  BY <2>1, <2>2, <2>3 DEF NoNewRun, old, new
<1>3. CASE AskedAgain
  <2>1. Reopened(old, new)
    BY <1>3, LoadFile DEF AskedAgain, old, new
  <2>2. old[1] \in Item /\ Len(new) = Len(old)
    BY <1>1, <2>1, QueueItems DEF Reopened
  <2>3. ~IsRun(new[1])
    BY <2>1, <2>2, RenewedTyped DEF Reopened, IsRun
  <2>4. \A i \in 1..Len(old) : i = 1 \/ new[i] = old[i]
    BY <1>1, <2>1 DEF Reopened
  <2> QED  BY <2>2, <2>3, <2>4 DEF NoNewRun, old, new
<1> QED  BY <1>2, <1>3

(* The copy of a batch that has done its i-th item.                         *)
LEMMA WorkedRuns ==
  ASSUME TypeOK, NEW i \in 1..MaxItems, Worked(i)
  PROVE  \/ /\ batch'.latest = batch.latest
            /\ NoNewRun(batch.queue, batch'.queue)
         \/ /\ batch'.latest # None /\ batch'.latest.at = clock
            /\ Before(batch.queue, clock) => Before(batch'.queue, clock)
<1> DEFINE old == batch.queue
           new == batch'.queue
<1>1. PICK status \in {"processed", "failed"} :
        /\ new = DoneAt(old, i, status)
        /\ \/ /\ batch'.latest = batch.latest
              /\ status = "failed" \/ old[i].kind \in ArchiveKind
           \/ batch'.latest \in Snapshot /\ batch'.latest.at = clock
  BY DEF Worked
<1>2. old \in Queues /\ i \in 1..Len(old) /\ status \in ItemStatus
  BY BatchTyped DEF Worked, InBatch, ItemStatus
<1>3. old[i] \in Item /\ clock \in Nat
  BY <1>2, QueueItems DEF TypeOK, Time
<1> HIDE DEF old, new
<1>4. /\ Len(new) = Len(old)
      /\ \A j \in 1..Len(old) : j # i => new[j] = old[j]
      /\ new[i] = Done(old[i], status)
  BY <1>1, <1>2, DoneAtTyped
<1>5. new[i].kind = old[i].kind /\ new[i].status = status /\ new[i].processedAt = clock
  BY <1>2, <1>3, <1>4, DoneTyped
<1>6. CASE batch'.latest = batch.latest /\ (status = "failed" \/ old[i].kind \in ArchiveKind)
  <2>1. ~IsRun(new[i])
    BY <1>5, <1>6 DEF IsRun, CandidateKind, ArchiveKind
  <2>2. NoNewRun(old, new)
    BY <1>4, <2>1 DEF NoNewRun
  <2> QED  BY <1>6, <2>2 DEF old, new
<1>7. CASE batch'.latest \in Snapshot /\ batch'.latest.at = clock
  <2>1. Before(old, clock) => Before(new, clock)
    BY <1>3, <1>4, <1>5 DEF Before
  <2> QED  BY <1>7, <2>1 DEF old, new
<1> QED  BY <1>1, <1>6, <1>7

LEMMA NextShown == TypeOK /\ ShownInv /\ [Next]_vars => ShownInv'
<1> SUFFICES ASSUME TypeOK, ShownInv, [Next]_vars PROVE ShownInv'
  OBVIOUS
<1>1. clock \in Nat /\ clock' \in Nat /\ TypeOK'
  BY AnyStep DEF TypeOK, Time
<1>2. CASE Added \/ AskedAgain
  <2>1. batch' = None /\ snapshot' = snapshot /\ clock' = clock
    BY <1>2 DEF Added, AskedAgain
  <2>2. Shown(Load(file'), snapshot) /\ Before(Load(file'), clock)
    BY <1>2, EnqueuedRuns, NoNewRunShown DEF ShownInv
  <2> QED  BY <2>1, <2>2 DEF ShownInv
<1>3. ASSUME NEW window \in Window, Started(window)
      PROVE  ShownInv'
  BY <1>3 DEF Started, ShownInv
<1>4. ASSUME NEW i \in 1..MaxItems, Worked(i)
      PROVE  ShownInv'
  <2>1. /\ batch # None /\ batch.phase = "items" /\ batch'.phase = "items"
        /\ UNCHANGED <<file, snapshot, clock>>
    BY <1>4 DEF Worked, InBatch
  <2>2. CASE batch'.latest = batch.latest /\ NoNewRun(batch.queue, batch'.queue)
    BY <2>1, <2>2, NoNewRunShown DEF ShownInv
  <2>3. CASE /\ batch'.latest # None /\ batch'.latest.at = clock
             /\ Before(batch.queue, clock) => Before(batch'.queue, clock)
    BY <2>1, <2>3 DEF ShownInv
  <2> QED  BY <1>4, <2>2, <2>3, WorkedRuns
<1>5. CASE Turned
  <2>1. /\ batch # None /\ batch'.queue = batch.queue /\ batch'.latest = batch.latest
        /\ UNCHANGED <<file, clock>>
    BY <1>5 DEF Turned
  <2>2. CASE batch.latest # None /\ batch'.phase = "save"
    <3>1. snapshot' = batch.latest /\ batch.latest \in Snapshot
      BY <1>5, <2>1, <2>2, BatchTyped DEF Turned
    <3>2. Shown(Load(file), snapshot') /\ Shown(batch.queue, snapshot')
      BY <2>1, <2>2, <3>1, BeforeShown DEF ShownInv
    <3> QED  BY <2>1, <2>2, <3>2 DEF ShownInv
  <2>3. CASE batch.latest = None
    <3>1. snapshot' = snapshot
      BY <1>5, <2>3 DEF Turned
    <3> QED  BY <2>1, <2>3, <3>1 DEF ShownInv
  <2>4. CASE batch'.phase # "save"
    <3>1. snapshot' = snapshot
      BY <1>5, <2>4 DEF Turned
    <3> QED  BY <2>1, <2>4, <3>1 DEF ShownInv
  <2> QED  BY <2>2, <2>3, <2>4
<1>6. CASE Saved
  <2>1. batch.queue \in Queues /\ batch # None /\ batch.phase = "save"
    BY <1>6, BatchTyped DEF Saved, InBatch
  <2>2. Load(file') = batch.queue
    BY <1>6, <2>1, LoadFile DEF Saved
  <2> QED  BY <1>6, <2>1, <2>2 DEF Saved, ShownInv
<1>7. CASE Dropped
  <2>1. file' = file \/ Load(file') = <<>>
    BY <1>7 DEF Dropped, Load
  <2>2. Shown(Load(file'), snapshot) /\ Before(Load(file'), clock)
    BY <2>1 DEF ShownInv, Shown, Before
  <2>3. Shown(Load(file'), snapshot')
    BY <1>7, <2>2 DEF Dropped, Shown
  <2> QED  BY <1>7, <2>2, <2>3 DEF Dropped, ShownInv
<1>8. CASE Overwritten
  <2>1. snapshot' \in Snapshot /\ snapshot'.at = clock
    BY <1>8 DEF Overwritten, Snapshot, TypeOK
  <2>2. Shown(Load(file), snapshot')
    BY <2>1, BeforeShown DEF ShownInv
  <2> QED  BY <1>8, <2>2 DEF Overwritten, ShownInv
<1>9. CASE Passed
  <2>1. Before(Load(file), clock')
    BY <1>1, <1>9, BeforeLater DEF Passed, ShownInv
  <2>2. batch # None => Before(batch.queue, clock')
    BY <1>1, <1>9, BeforeLater DEF Passed, ShownInv
  <2> QED  BY <1>9, <2>1, <2>2 DEF Passed, ShownInv
<1> QED  BY <1>2, <1>3, <1>4, <1>5, <1>6, <1>7, <1>8, <1>9, AnyStep

(* A candidate the file calls processed has been shown, wherever a batch    *)
(* was cut short.                                                           *)
THEOREM RunsAreShown == Spec => []ProcessedIsShown
<1>1. Init => TypeOK /\ ShownInv
  BY InitTyped, InitShown
<1>2. TypeOK /\ ShownInv /\ [Next]_vars => (TypeOK /\ ShownInv)'
  BY AnyStep, NextShown
<1>3. ShownInv => ProcessedIsShown
  BY DEF ShownInv, Shown, IsRun, ProcessedIsShown, Items
<1> QED  BY <1>1, <1>2, <1>3, PTL DEF Spec

-----------------------------------------------------------------------------
(* What a batch answers is what it has done.                                *)

(* The matched positions a batch has been through.                          *)
Through(old, b) == Matched(old, b.counts.window) \ b.todo

Are(queue, positions, status) == {i \in positions : queue[i].status = status}

Archived(queue, positions) == {i \in positions : queue[i].kind \in ArchiveKind}

(* A batch has finished what it has been through, touched nothing else, and *)
(* counts just that.                                                        *)
Counted(old, b) ==
  /\ b.todo \subseteq Matched(old, b.counts.window)
  /\ b.phase # "items" => b.todo = {}
  /\ \A i \in Through(old, b) : b.queue[i].status \in {"processed", "failed"}
  /\ \A i \in 1..Len(old) : i \notin Through(old, b) => b.queue[i] = old[i]
  /\ b.counts.totalMatched = Cardinality(Matched(old, b.counts.window))
  /\ b.counts.processedCount = Cardinality(Are(b.queue, Through(old, b), "processed"))
  /\ b.counts.failedCount = Cardinality(Are(b.queue, Through(old, b), "failed"))
  /\ b.counts.requestOnlyCount = Cardinality(Archived(b.queue, Through(old, b)))

CountInv == batch # None => Counted(Load(file), batch)

(* What doing the i-th item does to the counts.                             *)
CountedItem(i, status) ==
  /\ batch'.queue = DoneAt(batch.queue, i, status)
  /\ batch'.counts.window = batch.counts.window
  /\ batch'.counts.totalMatched = batch.counts.totalMatched
  /\ batch'.counts.processedCount =
       batch.counts.processedCount + (IF status = "processed" THEN 1 ELSE 0)
  /\ batch'.counts.failedCount =
       batch.counts.failedCount + (IF status = "failed" THEN 1 ELSE 0)
  /\ batch'.counts.requestOnlyCount =
       batch.counts.requestOnlyCount + (IF batch.queue[i].kind \in ArchiveKind THEN 1 ELSE 0)

LEMMA ItemCounts ==
  ASSUME TypeOK, InBatch("items"), NEW i \in batch.todo, NEW status \in ItemStatus,
         NEW latest \in Snapshot \cup {None}, NEW processed \in Nat, NEW failed \in Nat,
         NEW requestOnly \in Nat,
         ItemDone(i, status, latest, processed, failed, requestOnly)
  PROVE  /\ batch'.queue = DoneAt(batch.queue, i, status)
         /\ batch'.counts.window = batch.counts.window
         /\ batch'.counts.totalMatched = batch.counts.totalMatched
         /\ batch'.counts.processedCount = batch.counts.processedCount + processed
         /\ batch'.counts.failedCount = batch.counts.failedCount + failed
         /\ batch'.counts.requestOnlyCount = batch.counts.requestOnlyCount + requestOnly
         /\ batch.counts \in Answer
<1>1. /\ batch'.queue = DoneAt(batch.queue, i, status)
      /\ batch'.counts = CountsPlus(batch.counts, processed, failed, requestOnly)
  BY DoneEffect
<1>2. batch.counts \in Answer
  BY BatchTyped DEF InBatch
<1> QED  BY <1>1, <1>2, CountsAdd

LEMMA WorkCounts ==
  ASSUME TypeOK, NEW i \in 1..MaxItems,
         \/ ArchiveItem(i)
         \/ \E completed \in BOOLEAN : RunCandidate(i, completed)
         \/ ReadCandidateFails(i)
  PROVE  \E status \in {"processed", "failed"} : CountedItem(i, status)
<1>1. InBatch("items") /\ i \in batch.todo
  BY DEF ArchiveItem, RunCandidate, ReadCandidateFails, Doing
<1>2. /\ batch.counts \in Answer /\ batch.latest \in Snapshot \cup {None}
      /\ batch.queue \in Queues /\ i \in 1..Len(batch.queue)
  BY <1>1, BatchTyped DEF InBatch
<1> DEFINE shown == [at |-> clock, shown |-> batch.queue[i].id]
<1>3. shown \in Snapshot
  BY <1>2, QueueItems DEF Snapshot, Item, TypeOK
<1> HIDE DEF shown
<1>5. CASE ArchiveItem(i)
  <2>1. ItemDone(i, "processed", batch.latest, 1, 0, 1) /\ batch.queue[i].kind \in ArchiveKind
    BY <1>5 DEF ArchiveItem, Doing
  <2> QED  BY <1>1, <1>2, <2>1, ItemCounts DEF CountedItem, ItemStatus
<1>6. CASE RunCandidate(i, TRUE)
  <2>1. ItemDone(i, "processed", shown, 1, 0, 0) /\ batch.queue[i].kind \in CandidateKind
    BY <1>6 DEF RunCandidate, Doing, shown
  <2>2. batch.queue[i].kind \notin ArchiveKind
    BY <2>1 DEF CandidateKind, ArchiveKind
  <2> QED  BY <1>1, <1>3, <2>1, <2>2, ItemCounts DEF CountedItem, ItemStatus
<1>7. CASE RunCandidate(i, FALSE)
  <2>1. ItemDone(i, "failed", shown, 0, 1, 0) /\ batch.queue[i].kind \in CandidateKind
    BY <1>7 DEF RunCandidate, Doing, shown
  <2>2. batch.queue[i].kind \notin ArchiveKind
    BY <2>1 DEF CandidateKind, ArchiveKind
  <2> QED  BY <1>1, <1>3, <2>1, <2>2, ItemCounts DEF CountedItem, ItemStatus
<1>8. CASE ReadCandidateFails(i)
  <2>1. /\ ItemDone(i, "failed", batch.latest, 0, 1, 0)
        /\ batch.queue[i].kind \in {"candidate_graph_refresh"}
    BY <1>8 DEF ReadCandidateFails, Doing
  <2>2. batch.queue[i].kind \notin ArchiveKind
    BY <2>1 DEF ArchiveKind
  <2> QED  BY <1>1, <1>2, <2>1, <2>2, ItemCounts DEF CountedItem, ItemStatus
<1> QED  BY <1>5, <1>6, <1>7, <1>8

(* One more position in a set that is counted.                              *)
LEMMA OneMore ==
  ASSUME NEW old, IsFiniteSet(old), NEW i, i \notin old
  PROVE  Cardinality(old \cup {i}) = Cardinality(old) + 1 /\ Cardinality(old) \in Nat
BY FS_CardinalityType, FS_AddElement

LEMMA WorkKeepsCount ==
  ASSUME TypeOK, BatchInv, CountInv, NEW i \in 1..MaxItems, Worked(i),
         NEW status \in {"processed", "failed"}, CountedItem(i, status)
  PROVE  CountInv'
<1> DEFINE old == Load(file)
           matched == Matched(old, batch.counts.window)
           before == matched \ batch.todo
           after == matched \ batch'.todo
           was == batch.queue
           now == batch'.queue
<1>1. /\ batch # None /\ i \in batch.todo /\ file' = file
      /\ batch.phase = "items" /\ batch'.phase = "items"
      /\ batch'.todo = batch.todo \ {i}
  BY DEF Worked, InBatch
<1>2. /\ was \in Queues /\ i \in 1..Len(was) /\ was[i] \in Item /\ status \in ItemStatus
  BY <1>1, BatchTyped, QueueItems DEF ItemStatus
<1>3. /\ Counted(old, batch) /\ old \in Queues /\ Len(was) = Len(old)
  BY <1>1, LoadTyped DEF CountInv, BatchInv, Copied
<1>4. /\ matched \subseteq 1..Len(old) /\ IsFiniteSet(matched)
  <2>1. matched \subseteq 1..Len(old) /\ Len(old) \in Nat
    BY <1>3, MatchedTyped, QueueItems
  <2>2. IsFiniteSet(1..Len(old))
    BY <2>1, FS_Interval
  <2> QED  BY <2>1, <2>2, FS_Subset
<1>5. batch.todo \subseteq matched
  BY <1>3 DEF Counted
<1> HIDE DEF matched
<1>6. after = before \cup {i} /\ i \notin before /\ before \subseteq matched
  BY <1>1, <1>5
<1>7. /\ now[i].status = status /\ now[i].kind = was[i].kind
      /\ \A j \in 1..Len(old) : j # i => now[j] = was[j]
  <2>1. now = DoneAt(was, i, status)
    BY DEF CountedItem
  <2>2. now[i] = Done(was[i], status) /\ \A j \in 1..Len(was) : j # i => now[j] = was[j]
    BY <1>2, <2>1, DoneAtTyped
  <2> QED  BY <1>2, <1>3, <2>2, DoneTyped
<1>8. \A j \in before : j # i /\ now[j] = was[j]
  BY <1>4, <1>6, <1>7
<1> HIDE DEF before, after, was, now
<1>9. /\ Are(now, after, "processed") =
           IF status = "processed" THEN Are(was, before, "processed") \cup {i}
                                   ELSE Are(was, before, "processed")
      /\ Are(now, after, "failed") =
           IF status = "failed" THEN Are(was, before, "failed") \cup {i}
                                ELSE Are(was, before, "failed")
      /\ Archived(now, after) =
           IF was[i].kind \in ArchiveKind THEN Archived(was, before) \cup {i}
                                          ELSE Archived(was, before)
  BY <1>6, <1>7, <1>8 DEF Are, Archived
<1>10. /\ \A st : IsFiniteSet(Are(was, before, st)) /\ i \notin Are(was, before, st)
       /\ IsFiniteSet(Archived(was, before)) /\ i \notin Archived(was, before)
  <2>1. /\ \A st : Are(was, before, st) \subseteq matched
        /\ Archived(was, before) \subseteq matched
    BY <1>6 DEF Are, Archived
  <2>2. /\ \A st : i \notin Are(was, before, st)
        /\ i \notin Archived(was, before)
    BY <1>6 DEF Are, Archived
  <2> QED  BY <1>4, <2>1, <2>2, FS_Subset
<1>11. /\ Cardinality(Are(now, after, "processed")) =
            Cardinality(Are(was, before, "processed")) + (IF status = "processed" THEN 1 ELSE 0)
       /\ Cardinality(Are(now, after, "failed")) =
            Cardinality(Are(was, before, "failed")) + (IF status = "failed" THEN 1 ELSE 0)
       /\ Cardinality(Archived(now, after)) =
            Cardinality(Archived(was, before)) + (IF was[i].kind \in ArchiveKind THEN 1 ELSE 0)
  <2>1. /\ \A st : LET S == Are(was, before, st)
                   IN  Cardinality(S \cup {i}) = Cardinality(S) + 1 /\ Cardinality(S) \in Nat
        /\ LET S == Archived(was, before)
           IN  Cardinality(S \cup {i}) = Cardinality(S) + 1 /\ Cardinality(S) \in Nat
    BY <1>10, OneMore
  <2>2. CASE status = "processed"
    BY <1>9, <2>1, <2>2
  <2>3. CASE status = "failed"
    BY <1>9, <2>1, <2>3
  <2> QED  BY <2>2, <2>3
<1>12. Counted(old, batch')
  <2>1. batch'.counts.window = batch.counts.window
    BY DEF CountedItem
  <2>2. Through(old, batch) = before /\ Through(old, batch') = after
    BY <2>1 DEF Through, before, after, matched
  <2>3. batch'.todo \subseteq matched /\ matched = Matched(old, batch'.counts.window)
    BY <1>1, <1>5, <2>1 DEF matched
  <2>4. \A j \in after : now[j].status \in {"processed", "failed"}
    <3>1. \A j \in before : was[j].status \in {"processed", "failed"}
      BY <1>3, <2>2 DEF Counted, was
    <3> QED  BY <1>6, <1>7, <1>8, <3>1
  <2>5. \A j \in 1..Len(old) : j \notin after => now[j] = old[j]
    <3>1. \A j \in 1..Len(old) : j \notin before => was[j] = old[j]
      BY <1>3, <2>2 DEF Counted, was
    <3> QED  BY <1>6, <1>7, <3>1
  <2>6. /\ batch'.counts.totalMatched = Cardinality(matched)
        /\ batch'.counts.processedCount = Cardinality(Are(now, after, "processed"))
        /\ batch'.counts.failedCount = Cardinality(Are(now, after, "failed"))
        /\ batch'.counts.requestOnlyCount = Cardinality(Archived(now, after))
    <3>1. /\ batch.counts.totalMatched = Cardinality(matched)
          /\ batch.counts.processedCount = Cardinality(Are(was, before, "processed"))
          /\ batch.counts.failedCount = Cardinality(Are(was, before, "failed"))
          /\ batch.counts.requestOnlyCount = Cardinality(Archived(was, before))
      BY <1>3, <2>2 DEF Counted, was, matched
    <3> QED  BY <1>11, <3>1 DEF CountedItem, was
  <2> QED  BY <1>1, <2>2, <2>3, <2>4, <2>5, <2>6 DEF Counted, now
<1> QED  BY <1>1, <1>12 DEF CountInv, old

LEMMA StartCounts ==
  ASSUME TypeOK, NEW window, StartBatch(window)
  PROVE  CountInv'
<1> DEFINE old == Load(file)
           matched == Matched(old, window)
<1>1. /\ batch' = [phase |-> "items", queue |-> old, todo |-> matched, latest |-> None,
                   counts |-> [window |-> window, totalMatched |-> Cardinality(matched),
                               processedCount |-> 0, failedCount |-> 0,
                               requestOnlyCount |-> 0, snapshotUpdated |-> FALSE]]
      /\ file' = file
  BY DEF StartBatch
<1> HIDE DEF old, matched
<1>2. /\ batch'.phase = "items" /\ batch'.queue = old /\ batch'.todo = matched
      /\ batch'.counts.window = window
      /\ batch'.counts.totalMatched = Cardinality(matched)
      /\ batch'.counts.processedCount = 0 /\ batch'.counts.failedCount = 0
      /\ batch'.counts.requestOnlyCount = 0
  BY <1>1
<1>3. Through(old, batch') = {} /\ Matched(old, batch'.counts.window) = matched
  BY <1>2 DEF Through, matched
<1>4. /\ Are(old, {}, "processed") = {} /\ Are(old, {}, "failed") = {} /\ Archived(old, {}) = {}
  BY DEF Are, Archived
<1>5. Counted(old, batch')
  BY <1>2, <1>3, <1>4, FS_EmptySet DEF Counted
<1> QED  BY <1>1, <1>5 DEF CountInv, old

LEMMA TurnCounts ==
  ASSUME TypeOK, CountInv, EndItems \/ WriteSnapshot
  PROVE  CountInv'
<1>1. batch # None /\ batch \in Batch /\ batch.counts \in Answer /\ Turned
  BY BatchTyped, TurnStep DEF EndItems, WriteSnapshot, InBatch
<1>2. file' = file /\ batch'.queue = batch.queue /\ batch'.todo = batch.todo
  BY <1>1 DEF Turned
<1>3. batch.todo = {}
  BY <1>1 DEF EndItems, WriteSnapshot, InBatch, CountInv, Counted
<1>4. /\ batch'.counts.window = batch.counts.window
      /\ batch'.counts.totalMatched = batch.counts.totalMatched
      /\ batch'.counts.processedCount = batch.counts.processedCount
      /\ batch'.counts.failedCount = batch.counts.failedCount
      /\ batch'.counts.requestOnlyCount = batch.counts.requestOnlyCount
  <2>1. \/ batch'.counts = batch.counts
        \/ batch'.counts = [batch.counts EXCEPT !.snapshotUpdated = batch.latest # None]
    BY <1>1 DEF EndItems, WriteSnapshot, Leave, PhaseAfter, Batch
  <2> QED  BY <1>1, <2>1 DEF Answer
<1>5. Counted(Load(file), batch)
  BY <1>1 DEF CountInv
<1>6. Through(Load(file), batch') = Through(Load(file), batch)
  BY <1>2, <1>4 DEF Through
<1>7. Counted(Load(file), batch')
  BY <1>2, <1>3, <1>4, <1>5, <1>6 DEF Counted
<1> QED  BY <1>2, <1>7 DEF CountInv

LEMMA NextCounts == QueueInv /\ CountInv /\ [Next]_vars => CountInv'
<1> SUFFICES ASSUME QueueInv, CountInv, [Next]_vars PROVE CountInv'
  OBVIOUS
<1>1. TypeOK /\ BatchInv
  BY DEF QueueInv
<1>2. ASSUME NEW i \in 1..MaxItems,
             \/ ArchiveItem(i)
             \/ \E completed \in BOOLEAN : RunCandidate(i, completed)
             \/ ReadCandidateFails(i)
      PROVE  CountInv'
  BY <1>1, <1>2, WorkStep, WorkCounts, WorkKeepsCount
<1>3. CASE \E window \in Window : StartBatch(window)
  BY <1>1, <1>3, StartCounts
<1>4. CASE EndItems \/ WriteSnapshot
  BY <1>1, <1>4, TurnCounts
<1>5. ASSUME batch' = None
      PROVE  CountInv'
  BY <1>5 DEF CountInv
<1>6. ASSUME UNCHANGED <<file, batch>>
      PROVE  CountInv'
  BY <1>6 DEF CountInv
<1>7. CASE Enqueue
  BY <1>1, <1>5, <1>7, EnqueueStep DEF Added, AskedAgain
<1>8. CASE SaveQueue
  BY <1>1, <1>5, <1>8, SaveStep DEF Saved
<1>9. CASE BatchAborts \/ QueueFileTorn \/ SnapshotTorn
  BY <1>5, <1>9 DEF BatchAborts, QueueFileTorn, SnapshotTorn
<1>10. CASE OtherRunShown \/ Tick \/ UNCHANGED vars
  BY <1>6, <1>10 DEF OtherRunShown, Tick, vars
<1> QED  BY <1>2, <1>3, <1>4, <1>7, <1>8, <1>9, <1>10 DEF Next, BatchStep

(* Counting positions is counting items, since ids tell items apart.        *)
LEMMA PositionsCount ==
  ASSUME NEW queue \in Queues, Ordered(queue), NEW S \in SUBSET (1..Len(queue))
  PROVE  Cardinality({queue[i] : i \in S}) = Cardinality(S)
<1> DEFINE T == {queue[i] : i \in S}
           f == [i \in S |-> queue[i]]
<1>1. Len(queue) \in Nat
  BY QueueItems
<1>2. IsFiniteSet(S)
  <2>1. IsFiniteSet(1..Len(queue))
    BY <1>1, FS_Interval
  <2> QED  BY <2>1, FS_Subset
<1>3. \A i, j \in S : f[i] = f[j] => i = j
  BY IdsDiffer
<1>4. f \in Bijection(S, T)
  <2>1. f \in [S -> T] /\ \A t \in T : \E i \in S : f[i] = t
    OBVIOUS
  <2> QED  BY <1>3, <2>1 DEF Bijection, Injection, Surjection, IsInjective
<1>5. ExistsBijection(S, T)
  BY <1>4 DEF ExistsBijection
<1> QED  BY <1>2, <1>5, FS_Bijection

(* The item an item of the saved file was before.                           *)
Was(item) == CHOOSE old \in Items(file) : old.id = item.id

AnswerIsTrue ==
  LET done == {item \in Items(file') :
                 Was(item).status = "pending" /\ item.created \in Asked(answer'.window)}
      Have(status) == {item \in done : item.status = status}
  IN  /\ answer'.totalMatched = Cardinality(done)
      /\ answer'.processedCount = Cardinality(Have("processed"))
      /\ answer'.failedCount = Cardinality(Have("failed"))
      /\ answer'.requestOnlyCount = Cardinality({item \in done : item.kind \in ArchiveKind})
      /\ Cardinality(Have("pending")) = 0
      /\ \A item \in Items(file') \ done : item = Was(item)

(* The comparisons with the two ends pick the times asked for.              *)
LEMMA InWindowIsAsked ==
  ASSUME NEW item \in Item, NEW window \in Window
  PROVE  InWindow(item, window) <=> item.created \in Asked(window)
<1>1. item.created \in 0..MaxTime
  BY DEF Item, Time
<1>2. /\ window.start \in 0..MaxTime \cup {NoBound} /\ window.end \in 0..MaxTime \cup {NoBound}
  BY DEF Window, Time
<1>3. MaxTime \in Nat /\ NoBound \notin Nat
  BY QueueAssumption
<1> QED  BY <1>1, <1>2, <1>3 DEF InWindow, Asked

LEMMA SaveAnswers ==
  ASSUME QueueInv, CountInv, SaveQueue
  PROVE  AnswerIsTrue
<1> DEFINE old == Load(file)
           new == batch.queue
           window == batch.counts.window
           matched == Matched(old, window)
           done == {item \in Items(file') :
                      Was(item).status = "pending" /\ item.created \in Asked(window)}
           At(S) == {new[i] : i \in S}
<1>1. /\ batch # None /\ batch.phase = "save" /\ file' = new /\ answer' = batch.counts
      /\ TypeOK /\ Ordered(old) /\ old \in Queues
  BY LoadTyped DEF SaveQueue, InBatch, Leave, PhaseAfter, QueueInv, FileInv
<1>2. new \in Queues /\ Len(old) \in Nat
  BY <1>1, BatchTyped, QueueItems
<1>3. Load(file') = new
  BY <1>1, <1>2, LoadFile
<1>4. Copied(old, new, batch.todo) /\ Counted(old, batch) /\ batch.todo = {}
  BY <1>1 DEF QueueInv, BatchInv, CountInv, Counted
<1>5. Through(old, batch) = matched
  BY <1>4 DEF Through
<1>6. /\ Len(new) = Len(old) /\ \A i \in 1..Len(old) : new[i].id = old[i].id
                                                     /\ new[i].created = old[i].created
  BY <1>4 DEF Copied
<1>7. Ordered(new)
  BY <1>1, <1>6 DEF Ordered
<1>8. /\ Items(file) = {old[i] : i \in 1..Len(old)}
      /\ Items(file') = {new[i] : i \in 1..Len(new)}
  BY <1>3 DEF Items
<1> HIDE DEF old, new, window, matched, done
<1>9. ASSUME NEW i \in 1..Len(old)
      PROVE  Was(new[i]) = old[i]
  <2>1. old[i] \in Items(file) /\ old[i].id = new[i].id
    BY <1>6, <1>8
  <2>2. \A item \in Items(file) : item.id = new[i].id => item = old[i]
    <3>1. \A j \in 1..Len(old) : old[j].id = old[i].id => j = i
      BY <1>1, IdsDiffer
    <3> QED  BY <1>6, <1>8, <3>1
  <2> QED  BY <2>1, <2>2 DEF Was
<1>10. matched = {i \in 1..Len(old) : old[i].status = "pending" /\ InWindow(old[i], window)}
  BY DEF matched, Matched
<1>11. done = At(matched)
  <2>1. \A i \in 1..Len(old) : old[i] \in Item
    BY <1>1, QueueItems DEF old
  <2>2. window \in Window
    BY <1>1 DEF TypeOK, Batch, Answer, window
  <2>3. \A i \in 1..Len(old) : new[i].created \in Asked(window) <=> InWindow(old[i], window)
    BY <1>6, <2>1, <2>2, InWindowIsAsked
  <2> QED  BY <1>6, <1>8, <1>9, <1>10, <2>3 DEF done
<1>12. matched \subseteq 1..Len(new)
  BY <1>6, <1>10
<1>13. \A S \in SUBSET (1..Len(new)) : Cardinality(At(S)) = Cardinality(S)
  BY <1>2, <1>7, PositionsCount
<1>14. Cardinality(done) = Cardinality(matched)
  BY <1>11, <1>12, <1>13
<1>15. ASSUME NEW status
       PROVE  Cardinality({item \in done : item.status = status})
                = Cardinality(Are(new, matched, status))
  <2>1. {item \in done : item.status = status} = At(Are(new, matched, status))
    BY <1>11 DEF Are
  <2>2. Are(new, matched, status) \in SUBSET (1..Len(new))
    BY <1>12 DEF Are
  <2> QED  BY <1>13, <2>1, <2>2
<1>16. Cardinality({item \in done : item.kind \in ArchiveKind}) = Cardinality(Archived(new, matched))
  <2>1. {item \in done : item.kind \in ArchiveKind} = At(Archived(new, matched))
    BY <1>11 DEF Archived
  <2>2. Archived(new, matched) \in SUBSET (1..Len(new))
    BY <1>12 DEF Archived
  <2> QED  BY <1>13, <2>1, <2>2
<1>17. Cardinality({item \in done : item.status = "pending"}) = 0
  <2>1. \A i \in matched : new[i].status # "pending"
    BY <1>4, <1>5 DEF Counted, new
  <2>2. {item \in done : item.status = "pending"} = {}
    BY <1>11, <2>1
  <2> QED  BY <2>2, FS_EmptySet
<1>18. \A item \in Items(file') \ done : item = Was(item)
  <2>1. \A i \in 1..Len(old) : i \notin matched => new[i] = old[i]
    BY <1>4, <1>5 DEF Counted, new
  <2> QED  BY <1>6, <1>8, <1>9, <1>11, <2>1
<1>19. /\ answer'.window = window
       /\ answer'.totalMatched = Cardinality(matched)
       /\ answer'.processedCount = Cardinality(Are(new, matched, "processed"))
       /\ answer'.failedCount = Cardinality(Are(new, matched, "failed"))
       /\ answer'.requestOnlyCount = Cardinality(Archived(new, matched))
  BY <1>1, <1>4, <1>5 DEF Counted, new, window, matched
<1>20. done = {item \in Items(file') :
                 Was(item).status = "pending" /\ item.created \in Asked(answer'.window)}
  BY <1>19 DEF done
<1> QED  BY <1>14, <1>15, <1>16, <1>17, <1>18, <1>19, <1>20 DEF AnswerIsTrue

LEMMA OnlySavesAnswer ==
  ASSUME TypeOK, [Next]_vars, answer = None, answer' # None
  PROVE  SaveQueue
<1>1. CASE Enqueue
  BY <1>1 DEF Enqueue, EnqueueOperatorRequest, EnqueueCandidateIntake,
       EnqueueCandidateGraphRefresh, EnqueueSearchQuery, AddItem
<1>2. CASE BatchStep
  BY <1>2 DEF BatchStep, ArchiveItem, RunCandidate, ReadCandidateFails, EndItems,
       WriteSnapshot, Leave, PhaseAfter
<1> QED
  BY <1>1, <1>2 DEF Next, StartBatch, BatchAborts, QueueFileTorn, SnapshotTorn,
       OtherRunShown, Tick, vars

(* The four counts a batch answers with are those of the file it has just   *)
(* saved: of the items that were pending in its window each is processed or *)
(* failed and counted once, and no other item has changed.                  *)
THEOREM AnswersAreTrue == Spec => AnswerMatchesFile
<1>1. Init => CountInv
  BY DEF Init, CountInv
<1>2. QueueInv /\ CountInv /\ [Next]_vars => [answer = None /\ answer' # None => AnswerIsTrue]_vars
  BY OnlySavesAnswer, SaveAnswers DEF QueueInv
<1>3. Spec => [][answer = None /\ answer' # None => AnswerIsTrue]_vars
  BY <1>1, <1>2, NextCounts, QueueHolds, PTL DEF Spec
<1>4. AnswerMatchesFile <=> [][answer = None /\ answer' # None => AnswerIsTrue]_vars
  BY DEF AnswerMatchesFile, AnswerIsTrue, Was
<1> QED  BY <1>3, <1>4
=============================================================================
