--------------------------- MODULE DeferredQueue ---------------------------
(***************************************************************************)
(* The deferred queue of src/server/deferred-queue.ts: requests, queries   *)
(* and candidates are saved to a file, newest first, and a batch works off *)
(* the pending ones of a time window.  Every operation loads the whole     *)
(* file and saves it whole.                                                *)
(*                                                                         *)
(* An enqueue is one synchronous function and so one action.  A batch      *)
(* awaits, but what it awaits is a spawnSync of lark-cli or the            *)
(* deterministic client, so no other handler of the server runs before it  *)
(* ends; it can be cut short after any of its steps.  A pipeline run is    *)
(* one of the results CandidatePipeline can return.                        *)
(***************************************************************************)
EXTENDS Naturals, Sequences, FiniteSets

CONSTANTS
  MaxItems,     \* entries the file keeps (200 in the code)
  Queries,      \* texts of search queries
  MaxSubmitted, \* bound on the items ever submitted
  MaxTime,      \* bound on the clock
  Absent, Torn, \* no file; a file cut short by a crash
  NoBound,      \* a window's missing or unparsable start or end
  None

ASSUME QueueAssumption ==
  /\ MaxItems \in Nat \ {0}
  /\ MaxSubmitted \in Nat
  /\ MaxTime \in Nat
  /\ NoBound \notin Nat

VARIABLES
  file,      \* the queue file
  batch,     \* the batch under way, its copy of the queue included
  snapshot,  \* the runtime dashboard's file
  answer,    \* the answer of the last batch, if it gave one
  clock,     \* the server's clock
  submitted  \* items submitted so far; each gets an id of its own

vars == <<file, batch, snapshot, answer, clock, submitted>>

Time == 0..MaxTime

ArchiveKind == {"operator_request", "search_query"}

CandidateKind == {"candidate_intake", "candidate_graph_refresh"}

ItemStatus == {"pending", "processed", "failed"}

Item ==
  [id : 1..MaxSubmitted, kind : ArchiveKind \cup CandidateKind,
   query : Queries \cup {None}, created : Time, status : ItemStatus,
   processedAt : Time \cup {None}]

Window == [start : Time \cup {NoBound}, end : Time \cup {NoBound}]

Snapshot == [at : Time, shown : 1..MaxSubmitted \cup {None}]

Answer ==
  [window : Window, totalMatched : Nat, processedCount : Nat, failedCount : Nat,
   requestOnlyCount : Nat, snapshotUpdated : BOOLEAN]

(* A batch: where it is, its copy of the queue, the matched positions still *)
(* to do, the snapshot it will write and the counts it will answer with.    *)
Batch ==
  [phase : {"items", "snapshot", "save"}, queue : Seq(Item), todo : SUBSET (1..MaxItems),
   latest : Snapshot \cup {None}, counts : Answer]

ASSUME ValueAssumption ==
  /\ None \notin Batch \cup Snapshot \cup Answer
  /\ {Absent, Torn} \cap (Seq(Item) \cup Snapshot) = {}

(* The file, the batch and the dashboard, in every state; the file holds    *)
(* at most MaxItems items.                                                  *)
TypeOK ==
  /\ file \in Seq(Item) \cup {Absent, Torn}
  /\ file \notin {Absent, Torn} => Len(file) <= MaxItems
  /\ batch \in Batch \cup {None}
  /\ batch # None => Len(batch.queue) <= MaxItems /\ batch.todo \subseteq 1..Len(batch.queue)
  /\ snapshot \in Snapshot \cup {Absent, Torn}
  /\ answer \in Answer \cup {None}
  /\ clock \in Time
  /\ submitted \in 0..MaxSubmitted

Init ==
  /\ file = Absent
  /\ batch = None
  /\ snapshot = Absent
  /\ answer = None
  /\ clock = 0
  /\ submitted = 0

-----------------------------------------------------------------------------
(* The file.                                                                *)

(* loadQueueFile: a file that is missing or does not parse is an empty queue. *)
Load(f) == IF f \in {Absent, Torn} THEN <<>> ELSE f

(* A queue that only grows. *)
NoTrim(queue) == queue

(* trimQueue: the oldest go, pending or not. *)
Trim(queue) == IF Len(queue) <= MaxItems THEN queue ELSE SubSeq(queue, 1, MaxItems)

(* Handlers let in between two steps of a batch. *)
HandlersInterleave(b) == TRUE

(* No handler runs while a batch does. *)
HandlersRun(b) == b = None

-----------------------------------------------------------------------------
(* Enqueueing.                                                              *)

NewItem(kind, query) ==
  [id |-> submitted + 1, kind |-> kind, query |-> query, created |-> clock,
   status |-> "pending", processedAt |-> None]

AddItem(kind, query) ==
  /\ HandlersRun(batch)
  /\ submitted < MaxSubmitted
  /\ submitted' = submitted + 1
  /\ file' = Trim(<<NewItem(kind, query)>> \o Load(file))
  /\ UNCHANGED <<batch, snapshot, answer, clock>>

EnqueueOperatorRequest == AddItem("operator_request", None)

EnqueueCandidateIntake == AddItem("candidate_intake", None)

EnqueueCandidateGraphRefresh == AddItem("candidate_graph_refresh", None)

(* The query taken up again wherever it stands in the queue. *)
RepeatedAnywhere(queue, query) ==
  {i \in 1..Len(queue) : queue[i].kind = "search_query" /\ queue[i].query = query
     /\ \A j \in 1..(i - 1) : queue[j].query # query}

(* The position of the item a query repeats: the newest one, if it asks the *)
(* same.                                                                    *)
Repeated(queue, query) ==
  {i \in 1..Len(queue) :
     i = 1 /\ queue[1].kind = "search_query" /\ queue[1].query = query}

(* A repeated query makes that item pending and new again. *)
EnqueueSearchQuery(query) ==
  LET queue == Load(file)
  IN  IF Repeated(queue, query) = {}
        THEN AddItem("search_query", query)
        ELSE /\ HandlersRun(batch)
             /\ \E i \in Repeated(queue, query) :
                  file' = [queue EXCEPT ![i].created = clock, ![i].status = "pending",
                                        ![i].processedAt = None]
             /\ UNCHANGED <<batch, snapshot, answer, clock, submitted>>

-----------------------------------------------------------------------------
(* A batch.                                                                 *)

(* A window whose end is not in it. *)
InWindowBefore(item, window) ==
  /\ window.start # NoBound => item.created >= window.start
  /\ window.end # NoBound => item.created < window.end

InWindow(item, window) ==
  /\ window.start # NoBound => item.created >= window.start
  /\ window.end # NoBound => item.created <= window.end

(* What is done matched again. *)
MatchedAnyStatus(queue, window) ==
  {i \in 1..Len(queue) : InWindow(queue[i], window)}

(* The positions of the pending items of the window. *)
Matched(queue, window) ==
  {i \in 1..Len(queue) : queue[i].status = "pending" /\ InWindow(queue[i], window)}

StartBatch(window) ==
  LET matched == Matched(Load(file), window)
  IN  /\ HandlersRun(batch)
      /\ batch' = [phase |-> "items", queue |-> Load(file), todo |-> matched,
                   latest |-> None,
                   counts |-> [window |-> window, totalMatched |-> Cardinality(matched),
                               processedCount |-> 0, failedCount |-> 0,
                               requestOnlyCount |-> 0, snapshotUpdated |-> FALSE]]
      /\ answer' = None
      /\ UNCHANGED <<file, snapshot, clock, submitted>>

InBatch(phase) == batch # None /\ batch.phase = phase

(* The item the loop is at: the newest that is left. *)
Doing(i, kinds) ==
  /\ InBatch("items")
  /\ i \in batch.todo /\ \A j \in batch.todo : i <= j
  /\ batch.queue[i].kind \in kinds

(* The batch goes on with its next item, this one being done. *)
ItemDone(i, status, latest, processed, failed, requestOnly) ==
  batch' = [batch EXCEPT
              !.queue[i].status = status,
              !.queue[i].processedAt = clock,
              !.todo = batch.todo \ {i},
              !.latest = latest,
              !.counts.processedCount = @ + processed,
              !.counts.failedCount = @ + failed,
              !.counts.requestOnlyCount = @ + requestOnly]

ArchiveItem(i) ==
  /\ Doing(i, ArchiveKind)
  /\ ItemDone(i, "processed", batch.latest, 1, 0, 1)
  /\ UNCHANGED <<file, snapshot, answer, clock, submitted>>

(* The pipeline ran; its result will be shown, complete or not. *)
RunCandidate(i, completed) ==
  /\ Doing(i, CandidateKind)
  /\ LET shown == [at |-> clock, shown |-> batch.queue[i].id]
     IN  IF completed
           THEN ItemDone(i, "processed", shown, 1, 0, 0)
           ELSE ItemDone(i, "failed", shown, 0, 1, 0)
  /\ UNCHANGED <<file, snapshot, answer, clock, submitted>>

(* A failure that leaves the count to the end of the loop, where it is      *)
(* forgotten.                                                               *)
ReadCandidateFailsUncounted(i) ==
  /\ Doing(i, {"candidate_graph_refresh"})
  /\ ItemDone(i, "failed", batch.latest, 0, 0, 0)
  /\ UNCHANGED <<file, snapshot, answer, clock, submitted>>

(* The link has expired or the Base cannot be read. *)
ReadCandidateFails(i) ==
  /\ Doing(i, {"candidate_graph_refresh"})
  /\ ItemDone(i, "failed", batch.latest, 0, 1, 0)
  /\ UNCHANGED <<file, snapshot, answer, clock, submitted>>

(* The queue saved before the snapshot is written. *)
PhaseAfterSaveFirst(phase) ==
  CASE phase = "items" -> "save" [] phase = "save" -> "snapshot" [] phase = "snapshot" -> "end"

PhaseAfter(phase) ==
  CASE phase = "items" -> "snapshot" [] phase = "snapshot" -> "save" [] phase = "save" -> "end"

(* The batch leaves its phase, and answers after the last. *)
Leave(phase, counts) ==
  IF PhaseAfter(phase) = "end"
    THEN batch' = None /\ answer' = counts
    ELSE /\ batch' = [batch EXCEPT !.phase = PhaseAfter(phase), !.counts = counts]
         /\ UNCHANGED answer

EndItems ==
  /\ InBatch("items")
  /\ batch.todo = {}
  /\ Leave("items", batch.counts)
  /\ UNCHANGED <<file, snapshot, clock, submitted>>

(* Nothing is written when no pipeline ran. *)
WriteSnapshot ==
  /\ InBatch("snapshot")
  /\ snapshot' = IF batch.latest = None THEN snapshot ELSE batch.latest
  /\ Leave("snapshot", [batch.counts EXCEPT !.snapshotUpdated = batch.latest # None])
  /\ UNCHANGED <<file, clock, submitted>>

SaveQueue ==
  /\ InBatch("save")
  /\ file' = batch.queue
  /\ Leave("save", batch.counts)
  /\ UNCHANGED <<snapshot, clock, submitted>>

-----------------------------------------------------------------------------
(* The rest of the world.                                                   *)

(* The process dies, or a write of the batch throws: its copy is gone. *)
BatchAborts ==
  /\ batch # None
  /\ batch' = None
  /\ UNCHANGED <<file, snapshot, answer, clock, submitted>>

(* The process dies in writeFileSync, which truncates the file first. *)
QueueFileTorn ==
  /\ batch = None \/ InBatch("save")
  /\ file' = Torn
  /\ batch' = None
  /\ UNCHANGED <<snapshot, answer, clock, submitted>>

SnapshotTorn ==
  /\ batch = None \/ (InBatch("snapshot") /\ batch.latest # None)
  /\ snapshot' = Torn
  /\ batch' = None
  /\ UNCHANGED <<file, answer, clock, submitted>>

(* A dry run, a preview or a script shows a run of its own. *)
OtherRunShown ==
  /\ HandlersRun(batch)
  /\ snapshot' = [at |-> clock, shown |-> None]
  /\ UNCHANGED <<file, batch, answer, clock, submitted>>

Tick ==
  /\ clock < MaxTime
  /\ clock' = clock + 1
  /\ UNCHANGED <<file, batch, snapshot, answer, submitted>>

Enqueue ==
  \/ EnqueueOperatorRequest
  \/ EnqueueCandidateIntake
  \/ EnqueueCandidateGraphRefresh
  \/ \E query \in Queries : EnqueueSearchQuery(query)

BatchStep ==
  \/ \E i \in 1..MaxItems :
       \/ ArchiveItem(i)
       \/ \E completed \in BOOLEAN : RunCandidate(i, completed)
       \/ ReadCandidateFails(i)
  \/ EndItems
  \/ WriteSnapshot
  \/ SaveQueue

Next ==
  \/ Enqueue
  \/ \E window \in Window : StartBatch(window)
  \/ BatchStep
  \/ BatchAborts
  \/ QueueFileTorn
  \/ SnapshotTorn
  \/ OtherRunShown
  \/ Tick

Spec == Init /\ [][Next]_vars

-----------------------------------------------------------------------------
(* Properties.                                                              *)

Items(f) == {Load(f)[i] : i \in 1..Len(Load(f))}

(* The queue is in the order of its times, the newest first, also after a   *)
(* query was taken up again: trimming by position drops the oldest, and the *)
(* list that is sorted by time shows what the file holds.                   *)
NewestFirst ==
  \A i, j \in 1..Len(Load(file)) :
    i < j => Load(file)[i].created >= Load(file)[j].created

(* What was queued is lost only to a crash inside the write or because      *)
(* MaxItems others stand before it: no enqueue and no batch, which saves a  *)
(* copy it took long before, writes over an item.                           *)
QueueKeeps ==
  [][file' # Torn =>
       \A item \in Items(file) :
         \/ \E kept \in Items(file') : kept.id = item.id
         \/ /\ Len(file') = MaxItems
            /\ \A kept \in Items(file') : kept.created >= item.created]_vars

(* A candidate the file calls processed has been shown: the dashboard holds *)
(* its run or one made since, unless a crash tore the dashboard's own file. *)
(* A batch cut short after any step never leaves a candidate marked done    *)
(* whose run nobody can see.                                                *)
ProcessedIsShown ==
  \A item \in Items(file) :
    item.kind \in CandidateKind /\ item.status = "processed" =>
      \/ snapshot = Torn
      \/ snapshot # Absent /\ snapshot.at >= item.processedAt

(* An item that is done stays as it is, batch after batch, whatever batches *)
(* were cut short before; only the same query asked again reopens one.      *)
FinishedStays ==
  [][\A item \in Items(file), now \in Items(file') :
       item.id = now.id /\ item.status # "pending" =>
         \/ now = item
         \/ now.kind = "search_query" /\ now.status = "pending"]_vars

(* The times a window asks for: both its ends are among them, and an end    *)
(* that is missing leaves that side open.                                   *)
Asked(window) ==
  (IF window.start = NoBound THEN 0 ELSE window.start)..
  (IF window.end = NoBound THEN MaxTime ELSE window.end)

(* The answer of a batch is true of the file: the items of the times asked  *)
(* for, the ends included, that were pending are the ones it counts, each   *)
(* is now as it was counted, and nothing else has changed.                  *)
AnswerMatchesFile ==
  [][answer = None /\ answer' # None =>
       LET was(item) == CHOOSE old \in Items(file) : old.id = item.id
           done == {item \in Items(file') :
                      was(item).status = "pending" /\ item.created \in Asked(answer'.window)}
           Are(S, status) == Cardinality({item \in S : item.status = status})
       IN  /\ answer'.totalMatched = Cardinality(done)
           /\ answer'.processedCount = Are(done, "processed")
           /\ answer'.failedCount = Are(done, "failed")
           /\ answer'.requestOnlyCount = Cardinality({item \in done : item.kind \in ArchiveKind})
           /\ Are(done, "pending") = 0
           /\ \A item \in Items(file') \ done : item = was(item)]_vars
=============================================================================
