-------------------------- MODULE BaseSetup_proofs --------------------------
(***************************************************************************)
(* Proofs about BaseSetup for any number of terminals, tables, rows to     *)
(* import, record ids and late requests, and any limit of a read.          *)
(***************************************************************************)
EXTENDS BaseSetup, FiniteSetTheorems, WellFoundedInduction, TLAPS

-----------------------------------------------------------------------------
(* The invariant about the two demo rows.                                   *)

Demo == {DemoJob, DemoCandidate}

Own(r) == r.key \notin Demo

PendingSeeds == {q \in late : q.op = "upsert" /\ ~Own(q.row)}

(* A seed adds a row, it never writes over one.                             *)
SeedForm == \A q \in PendingSeeds : q.row.id = NoId

(* The set-up plan of t has given table n its fields.                       *)
PastFields(t, n) ==
  \/ boot[t].phase \in {"job", "candidate"}
  \/ /\ boot[t].phase = "setup"
     /\ \E p \in DOMAIN TableOrder : TableOrder[p] = n /\ 2 * p < boot[t].next

LinkHolds(id) == id # NoId => \E j \in rows : j.id = id /\ j.key = DemoJob

AllSetUp == \A n \in TableNames : HasFields(n)

(* A script begins at the beginning; the set-up it has behind it, and the   *)
(* job it will link to, stay as it left them.                               *)
ScriptSafe(t) ==
  /\ boot[t].phase = "idle" => boot[t].next = 1
  /\ \A n \in TableNames : PastFields(t, n) => HasFields(n)
  /\ boot[t].phase = "candidate" => LinkHolds(boot[t].job)

SeedSafe(row) == AllSetUp /\ LinkHolds(row.job)

(* So it is for the seeds that are still under way.                         *)
LateSafe == \A q \in PendingSeeds : SeedSafe(q.row)

SeedInv == LateSafe /\ \A t \in Terminals : ScriptSafe(t)

-----------------------------------------------------------------------------
(* The invariants about the rows of the data.                               *)

Data == DOMAIN ImportRows

TableOf(i) == ImportRows[i].table
KeyOf(i) == ImportRows[i].key
ContentOf(i) == ImportRows[i].content

(* Two rows of the data that are written under the same key.                *)
Same(i, j) == TableOf(i) = TableOf(j) /\ KeyOf(i) = KeyOf(j)

(* What the Base has under the key of a row of the data.                    *)
Found(i) == {r \in rows : r.table = TableOf(i) /\ r.key = KeyOf(i)}

Entry(i) == imp.index[TableOf(i)][KeyOf(i)]

(* A record id belongs to one row.                                          *)
IdsInv ==
  /\ IsFiniteSet(rows)
  /\ \A r \in rows : r.id # NoId
  /\ \A r, q \in rows : r.id = q.id => r = q

PendingOwn == {q \in late : q.op = "upsert" /\ Own(q.row)}

(* Rows of the data have no link; an update is of a row that is there.      *)
OwnForm ==
  /\ \A r \in rows : Own(r) => r.job = NoId
  /\ \A q \in PendingOwn :
       /\ q.row.job = NoId
       /\ q.row.id # NoId =>
            \E r \in rows : r.id = q.row.id /\ r.table = q.row.table /\ r.key = q.row.key

(* The index names rows that are there.                                     *)
IndexInv ==
  \A n \in TableNames, k \in Keys :
    imp.index[n][k] # NoId =>
      \E r \in rows : r.id = imp.index[n][k] /\ r.table = n /\ r.key = k

RowsInv == IdsInv /\ OwnForm /\ IndexInv

(* The import has read a table, and has read the table of a row.            *)
Reading == imp.phase = "rows" \/ (imp.phase = "index" /\ imp.next > 1)

Known(n) ==
  \/ imp.phase = "rows"
  \/ /\ imp.phase = "index"
     /\ \E p \in DOMAIN TableOrder : TableOrder[p] = n /\ p < imp.next

Ahead(i) == imp.phase = "rows" => imp.next <= i

(* A row that the data has once, and the index does not have, is not there  *)
(* before the import writes it.                                             *)
OnceInv ==
  ~blind =>
    /\ Reading => PendingOwn = {}
    /\ \A p, q \in PendingOwn : p = q
    /\ \A i \in Data : OnceInData(ImportRows[i]) =>
         /\ \A r, q \in Found(i) : r = q
         /\ Known(TableOf(i)) /\ Entry(i) = NoId /\ Ahead(i) => Found(i) = {}
         /\ \A q \in PendingOwn :
              q.row.table = TableOf(i) /\ q.row.key = KeyOf(i) /\ q.row.id = NoId =>
                Found(i) = {}

-----------------------------------------------------------------------------
(* F is what the Base has under the key of i: the newest row of it has the  *)
(* content of l, and each row of the data in S has an older one.            *)
Stack(F, i, top, l, S) ==
  /\ top \in F /\ \A q \in F : q.id <= top.id
  /\ l \in Data /\ Same(i, l) /\ top.content = ContentOf(l)
  /\ \A j \in S : Same(i, j) => \E q \in F : q # top /\ q.content = ContentOf(j)

LastOf(i, l) == \A j \in Data : Same(i, j) => j <= l
Replaced == {j \in Data : \E k \in Data : Same(j, k) /\ j < k}

(* Of the rows before m under the key of i, l is the last.                  *)
LastBefore(i, l, m) == l < m /\ \A j \in Data : Same(i, j) /\ j < m => j <= l
NoneBefore(i, m) == \A j \in Data : Same(i, j) => m <= j

(* A key between two imports: no row, or one for each of the data.          *)
Whole(F, i) ==
  \E top \in F, l \in Data : LastOf(i, l) /\ Stack(F, i, top, l, Replaced)

Settled(F, i) == F = {} \/ Whole(F, i)

(* A key which the import found without a row: those it has added.          *)
Added(F, i, m) ==
  \/ NoneBefore(i, m) /\ F = {}
  \/ \E top \in F, l \in Data : LastBefore(i, l, m) /\ Stack(F, i, top, l, 1..(l - 1))

Below(i) == \A q \in Found(i), f \in FreeIds : q.id < f

(* A key which it found with rows: the newest, with id, is written over.    *)
Updated(F, i, id, m) ==
  \E top \in F, l \in Data :
    /\ top.id = id
    /\ LastBefore(i, l, m) \/ (NoneBefore(i, m) /\ LastOf(i, l))
    /\ Stack(F, i, top, l, Replaced)

(* With every row read, an empty entry is of a key that no row has, and any *)
(* other is of the newest row with the key.                                 *)
EntryIs(i, entry) ==
  IF entry = NoId THEN Found(i) = {}
  ELSE \E top \in Found(i) : top.id = entry /\ \A q \in Found(i) : q.id <= top.id

FactsAt(i) ==
  /\ imp.phase # "rows" => Settled(Found(i), i)
  /\ imp.phase = "index" /\ Known(TableOf(i)) => EntryIs(i, Entry(i))
  /\ imp.phase = "rows" =>
       IF Entry(i) = NoId THEN Added(Found(i), i, imp.next) /\ Below(i)
       ELSE Updated(Found(i), i, Entry(i), imp.next)

FactsInv ==
  ~blind /\ ~interrupted => PendingOwn = {} /\ \A i \in Data : FactsAt(i)

-----------------------------------------------------------------------------
(* Numbers and sequences.                                                   *)

Less == {pair \in Nat \X Nat : pair[1] < pair[2]}

LEMMA LessIsWellFounded == IsWellFoundedOn(Less, Nat)
BY NatLessThanWellFounded DEF OpToRel, Less

LEMMA LeastOf ==
  ASSUME NEW S, S \subseteq Nat, S # {}
  PROVE  \E m \in S : \A x \in S : m <= x
<1>1. PICK m \in S : \A x \in S : ~(<<x, m>> \in Less)
  BY LessIsWellFounded, WFMin
<1>2. ASSUME NEW x \in S PROVE m <= x
  <2>1. x \in Nat /\ m \in Nat
    OBVIOUS
  <2>2. x < m => <<x, m>> \in Less
    BY <2>1 DEF Less
  <2>. QED
    BY <1>1, <2>1, <2>2
<1>. QED
  BY <1>2

LEMMA GreatestOf ==
  ASSUME NEW n \in Nat, NEW S, S \subseteq 0..n, S # {}
  PROVE  \E m \in S : \A x \in S : x <= m
<1> DEFINE T == {n - x : x \in S}
<1>1. T \subseteq Nat /\ T # {}
  <2>1. ASSUME NEW x \in S PROVE n - x \in Nat
    OBVIOUS
  <2>. QED
    BY <2>1
<1>2. PICK d \in T : \A y \in T : d <= y
  <2> HIDE DEF T
  <2>. QED
    BY <1>1, LeastOf
<1>3. PICK m \in S : d = n - m
  BY <1>2
<1>4. ASSUME NEW x \in S PROVE x <= m
  <2>1. n - x \in T
    OBVIOUS
  <2>2. d <= n - x
    BY <1>2, <2>1
  <2>. QED
    BY <1>3, <2>2
<1>. QED
  BY <1>4

LEMMA OrderTypes ==
  /\ Len(TableOrder) \in Nat /\ Len(TableOrder) > 0
  /\ DOMAIN TableOrder = 1..Len(TableOrder)
  /\ \A p \in DOMAIN TableOrder : TableOrder[p] \in TableNames
  /\ \A n \in TableNames : \E p \in DOMAIN TableOrder : TableOrder[p] = n
<1>1. Len(TableOrder) \in Nat /\ DOMAIN TableOrder = 1..Len(TableOrder)
  BY BaseAssumption
<1>. QED
  BY <1>1, BaseAssumption DEF TableNames

LEMMA DataTypes ==
  /\ Len(ImportRows) \in Nat /\ Len(ImportRows) > 0 /\ Data = 1..Len(ImportRows)
  /\ \A i \in Data :
       /\ TableOf(i) \in TableNames /\ KeyOf(i) \in Keys /\ KeyOf(i) \notin Demo
       /\ ContentOf(i) \in Contents \cup {NoContent}
<1> DEFINE Rows == [table : TableNames, key : Keys \ {DemoJob, DemoCandidate},
                    content : Contents \cup {NoContent}]
<1>1. ImportRows \in Seq(Rows) /\ Len(ImportRows) > 0
  BY SetupAssumption
<1>2. /\ Len(ImportRows) \in Nat /\ Data = 1..Len(ImportRows)
      /\ \A i \in Data : ImportRows[i] \in Rows
  <2> HIDE DEF Rows
  <2>. QED
    BY <1>1 DEF Data
<1>. QED
  BY <1>1, <1>2 DEF TableOf, KeyOf, ContentOf, Demo

-----------------------------------------------------------------------------
(* Record ids.                                                              *)

LEMMA IdTypes ==
  MaxIds \in Nat /\ Ids \subseteq Nat /\ NoId \notin Ids /\ Ids \cup {NoId} = 0..MaxIds
BY BaseAssumption DEF Ids, NoId

LEMMA NewIdIsFree ==
  ASSUME FreeIds # {}
  PROVE  /\ NewId \in FreeIds /\ NewId \in Ids /\ NewId # NoId
         /\ \A r \in rows : r.id # NewId /\ r.job # NewId
         /\ \A f \in FreeIds : NewId <= f
<1>1. FreeIds \subseteq Ids /\ Ids \subseteq Nat /\ NoId \notin Ids
  BY IdTypes DEF FreeIds
<1>2. \E i \in FreeIds : \A j \in FreeIds : i <= j
  BY <1>1, LeastOf
<1>3. NewId \in FreeIds /\ \A f \in FreeIds : NewId <= f
  BY <1>2 DEF NewId
<1>. QED
  BY <1>1, <1>3 DEF FreeIds

(* The index takes the row with the highest id among those shown.           *)
Read(shown, key) == {r \in shown : r.key = key}

LEMMA ListingsShow ==
  ASSUME NEW n, NEW limit, NEW shown \in Listings(n, limit)
  PROVE  shown \subseteq RowsOf(n)
BY DEF Listings, FirstRows

LEMMA LastWithIs ==
  ASSUME rows \subseteq Row, NEW shown, shown \subseteq rows, NEW key
  PROVE  /\ Read(shown, key) = {} => LastWith(shown, key) = NoId
         /\ Read(shown, key) # {} =>
              \E r \in Read(shown, key) : /\ LastWith(shown, key) = r.id
                                          /\ \A q \in Read(shown, key) : q.id <= r.id
<1> DEFINE found == Read(shown, key)
           ids == {r.id : r \in found}
<1>1. LastWith(shown, key) = IF found = {} THEN NoId
                             ELSE (CHOOSE r \in found : \A q \in found : q.id <= r.id).id
  BY DEF LastWith, Read
<1>2. found \subseteq rows
  BY DEF Read
<1>3. ASSUME found # {}
      PROVE  \E r \in found : \A q \in found : q.id <= r.id
  <2>1. ids \subseteq 0..MaxIds /\ ids # {}
    BY <1>2, <1>3, IdTypes DEF Row
  <2>2. PICK m \in ids : \A x \in ids : x <= m
    <3> HIDE DEF ids
    <3>. QED
      BY <2>1, IdTypes, GreatestOf
  <2>. QED
    BY <2>2
<1> HIDE DEF found
<1>4. found # {} =>
        \E r \in found : LastWith(shown, key) = r.id /\ \A q \in found : q.id <= r.id
  BY <1>1, <1>3
<1>. QED
  BY <1>1, <1>4 DEF found

LEMMA LastWithType ==
  ASSUME rows \subseteq Row, NEW shown, shown \subseteq rows, NEW key
  PROVE  LastWith(shown, key) \in Ids \cup {NoId}
<1>1. Read(shown, key) \subseteq rows
  BY DEF Read
<1>. QED
  BY <1>1, LastWithIs DEF Row

-----------------------------------------------------------------------------
(* What the Base does with a request it takes.                              *)

Put(row, id) == rows' = {r \in rows : r.id # id} \cup {[row EXCEPT !.id = id]}

LEMMA UpsertServed ==
  ASSUME NEW q, q.op = "upsert", q.row \in Row, Accepted(q), Serve(q)
  PROVE  /\ tables' = tables /\ HasFields(q.row.table)
         /\ \E id \in Ids :
              /\ Put(q.row, id)
              /\ IF q.row.id = NoId
                 THEN FreeIds # {} /\ id = NewId
                 ELSE id = q.row.id /\ \E r \in rows : r.id = id /\ r.table = q.row.table
<1>1. /\ tables' = tables /\ HasFields(q.row.table)
      /\ Put(q.row, IF q.row.id = NoId THEN NewId ELSE q.row.id)
      /\ q.row.id = NoId => FreeIds # {}
      /\ q.row.id # NoId => \E r \in rows : r.id = q.row.id /\ r.table = q.row.table
  BY DEF Accepted, Serve, Put, RowsOf
<1>2. CASE q.row.id = NoId
  BY <1>1, <1>2, NewIdIsFree
<1>3. CASE q.row.id # NoId
  <2>1. q.row.id \in Ids
    BY <1>3 DEF Row
  <2>. QED
    BY <1>1, <1>3, <2>1
<1>. QED
  BY <1>2, <1>3

LEMMA TableServed ==
  ASSUME NEW q, q.op # "upsert", Accepted(q), Serve(q)
  PROVE  /\ rows' = rows /\ tables' = [tables EXCEPT ![q.table] = TableAfter(q)]
         /\ TableAfter(q) \in TableState
         /\ HasFields(q.table) \/ q.op = "fields" => TableAfter(q) \in {"complete", "several"}
<1>1. q.op \in {"create", "fields", "create_with_fields"}
  BY DEF Accepted
<1>. QED
  BY <1>1 DEF Serve, TableAfter, TableState, HasFields

LEMMA RequestTypes ==
  ASSUME NEW q \in Request
  PROVE  IF q.op = "upsert" THEN q.row \in Row
         ELSE q.op \in {"create", "fields", "create_with_fields"} /\ q.table \in TableNames
BY DEF Request

LEMMA ServedTyped ==
  ASSUME BaseType, NEW q \in Request, Accepted(q), Serve(q)
  PROVE  /\ tables' \in [TableNames -> TableState]
         /\ rows' \subseteq Row
<1>1. CASE q.op = "upsert"
  <2>1. q.row \in Row
    BY <1>1, RequestTypes
  <2>2. PICK id \in Ids : Put(q.row, id) /\ tables' = tables
    BY <1>1, <2>1, UpsertServed
  <2>3. [q.row EXCEPT !.id = id] \in Row
    BY <2>1 DEF Row
  <2>. QED
    BY <2>2, <2>3 DEF BaseType, Put
<1>2. CASE q.op # "upsert"
  BY <1>2, TableServed DEF BaseType
<1>. QED
  BY <1>1, <1>2

LEMMA CallTyped ==
  ASSUME BaseType, NEW q \in Request, CallSucceeds(q) \/ CallFails(q)
  PROVE  BaseType'
<1>1. CASE CallSucceeds(q)
  BY <1>1, ServedTyped DEF CallSucceeds, BaseType
<1>2. CASE CallFails(q)
  BY <1>2 DEF CallFails, BaseType, baseVars
<1>. QED
  BY <1>1, <1>2

LEMMA LateTyped ==
  ASSUME BaseType, LateArrives
  PROVE  BaseType'
<1>1. PICK q \in late : /\ late' = late \ {q}
                        /\ (Accepted(q) /\ Serve(q)) \/ UNCHANGED <<tables, rows>>
  BY DEF LateArrives
<1>2. q \in Request
  BY DEF BaseType
<1>. QED
  BY <1>1, <1>2, ServedTyped DEF BaseType

-----------------------------------------------------------------------------
(* What the scripts send.                                                   *)

LEMMA SetupCommandType ==
  ASSUME NEW i \in Steps
  PROVE  /\ SetupCommand(i) \in Request /\ (i + 1) \div 2 \in DOMAIN TableOrder
         /\ SetupCommand(i).op \in {"create", "fields"}
         /\ SetupCommand(i).table = TableOrder[(i + 1) \div 2]
<1>1. (i + 1) \div 2 \in 1..Len(TableOrder)
  BY OrderTypes DEF Steps
<1>2. TableOrder[(i + 1) \div 2] \in TableNames
  BY <1>1, OrderTypes
<1>. QED
  BY <1>1, <1>2, OrderTypes DEF SetupCommand, Request

LEMMA SeedTypes ==
  /\ JobSeed \in Request /\ JobSeed.op = "upsert"
  /\ JobSeed.row = [table |-> JobTable, id |-> NoId, key |-> DemoJob,
                    content |-> NoContent, job |-> NoId]
  /\ \A job \in Ids \cup {NoId} :
       /\ CandidateSeed(job) \in Request /\ CandidateSeed(job).op = "upsert"
       /\ CandidateSeed(job).row = [table |-> CandidateTable, id |-> NoId,
                                    key |-> DemoCandidate, content |-> NoContent, job |-> job]
<1>1. /\ JobTable \in TableNames /\ CandidateTable \in TableNames
      /\ DemoJob \in Keys /\ DemoCandidate \in Keys
  BY SetupAssumption
<1>2. [table |-> JobTable, id |-> NoId, key |-> DemoJob,
       content |-> NoContent, job |-> NoId] \in Row
  BY <1>1 DEF Row
<1>3. ASSUME NEW job \in Ids \cup {NoId}
      PROVE  [table |-> CandidateTable, id |-> NoId, key |-> DemoCandidate,
              content |-> NoContent, job |-> job] \in Row
  BY <1>1 DEF Row
<1>. QED
  BY <1>2, <1>3 DEF Request, JobSeed, CandidateSeed

LEMMA RowRequestType ==
  ASSUME ImportType, NEW i \in Data
  PROVE  /\ RowRequest(ImportRows[i]) \in Request /\ RowRequest(ImportRows[i]).op = "upsert"
         /\ Entry(i) \in Ids \cup {NoId}
         /\ RowRequest(ImportRows[i]).row =
              [table |-> TableOf(i), id |-> Entry(i), key |-> KeyOf(i),
               content |-> ContentOf(i), job |-> NoId]
<1>1. /\ TableOf(i) \in TableNames /\ KeyOf(i) \in Keys
      /\ ContentOf(i) \in Contents \cup {NoContent}
  BY DataTypes
<1>2. Entry(i) \in Ids \cup {NoId}
  BY <1>1 DEF Entry, ImportType, Import, Index
<1>3. RowRequest(ImportRows[i]) =
        [op |-> "upsert", row |-> [table |-> TableOf(i), id |-> Entry(i), key |-> KeyOf(i),
                                   content |-> ContentOf(i), job |-> NoId]]
  BY DEF RowRequest, Entry, TableOf, KeyOf, ContentOf
<1>4. [table |-> TableOf(i), id |-> Entry(i), key |-> KeyOf(i),
       content |-> ContentOf(i), job |-> NoId] \in Row
  BY <1>1, <1>2 DEF Row
<1>. QED
  BY <1>2, <1>3, <1>4 DEF Request

LEMMA RowRequestIs ==
  ASSUME ImportType, NEW i \in Data
  PROVE  LET q == RowRequest(ImportRows[i])
         IN /\ q \in Request /\ q.op = "upsert" /\ q.row \in Row
            /\ q.row.table = TableOf(i) /\ q.row.id = Entry(i) /\ q.row.key = KeyOf(i)
            /\ q.row.content = ContentOf(i) /\ q.row.job = NoId
            /\ q.row.key \in Keys /\ q.row.key \notin Demo
<1> DEFINE q == RowRequest(ImportRows[i])
<1>1. /\ q \in Request /\ q.op = "upsert"
      /\ q.row = [table |-> TableOf(i), id |-> Entry(i), key |-> KeyOf(i),
                  content |-> ContentOf(i), job |-> NoId]
  BY RowRequestType, Zenon
<1> HIDE DEF q
<1>2. q.row \in Row
  BY ONLY <1>1, RequestTypes
<1>3. KeyOf(i) \in Keys /\ KeyOf(i) \notin Demo
  BY DataTypes
<1>. QED
  BY ONLY <1>1, <1>2, <1>3 DEF q

-----------------------------------------------------------------------------
(* Types.                                                                   *)

NextFits ==
  /\ imp.phase \in {"list", "create", "index"} => imp.next \in DOMAIN TableOrder
  /\ imp.phase = "rows" => imp.next \in Data
  /\ imp.phase = "idle" => imp.index = EmptyIndex

Typed == TypeOK /\ NextFits

BootOK == boot \in [Terminals -> Bootstrap]

LEMMA NotRunningType == NotRunning \in Bootstrap
BY OrderTypes, IdTypes DEF NotRunning, Bootstrap, Steps

LEMMA BootAt ==
  ASSUME BootOK, NEW t \in Terminals
  PROVE  /\ boot[t] \in Bootstrap
         /\ boot[t].phase \in {"idle", "check", "setup", "job", "candidate"}
         /\ boot[t].kind \in {"dry_run", "bootstrap", "seed"}
         /\ boot[t].next \in Steps /\ boot[t].blocked \in BOOLEAN
         /\ boot[t].job \in Ids \cup {NoId}
BY DEF BootOK, Bootstrap

LEMMA BootSet ==
  ASSUME BootOK, NEW t \in Terminals, NEW b \in Bootstrap
  PROVE  [boot EXCEPT ![t] = b] \in [Terminals -> Bootstrap]
BY DEF BootOK

LEMMA CheckTyped ==
  ASSUME BootOK, NEW t \in Terminals,
         CheckTable(t) \/ (\E kind \in {"dry_run", "bootstrap"} : StartBootstrap(t, kind))
           \/ StartSeed(t) \/ BootCrash(t)
  PROVE  UNCHANGED baseVars /\ BootOK'
<1>1. CASE CheckTable(t)
  <2>1. PICK blocked \in BOOLEAN :
          \/ /\ boot[t].next < Len(TableOrder)
             /\ boot' = [boot EXCEPT ![t].next = @ + 1, ![t].blocked = blocked]
          \/ Ends(t)
          \/ boot' = [boot EXCEPT ![t].phase = "setup", ![t].next = 1]
    <3>1. PICK status, shown : Checked(t, status, shown)
      BY <1>1 DEF CheckTable
    <3>2. (boot[t].blocked \/ Blocks(status, shown)) \in BOOLEAN
      BY DEF Blocks
    <3>. QED
      BY <3>1, <3>2 DEF Checked
  <2>2. CASE /\ boot[t].next < Len(TableOrder)
             /\ boot' = [boot EXCEPT ![t].next = @ + 1, ![t].blocked = blocked]
    <3>1. boot[t].next + 1 \in Steps
      BY <2>2, BootAt, OrderTypes DEF Steps
    <3>2. [boot[t] EXCEPT !.next = boot[t].next + 1, !.blocked = blocked] \in Bootstrap
      BY <3>1, BootAt DEF Bootstrap
    <3>3. boot' = [boot EXCEPT ![t] = [boot[t] EXCEPT !.next = boot[t].next + 1,
                                                      !.blocked = blocked]]
      BY <2>2
    <3>. QED
      BY <1>1, <3>2, <3>3, BootSet DEF CheckTable, BootOK
  <2>3. CASE Ends(t)
    BY <1>1, <2>3, NotRunningType DEF CheckTable, Ends, BootOK
  <2>4. CASE boot' = [boot EXCEPT ![t].phase = "setup", ![t].next = 1]
    <3>1. 1 \in Steps
      BY OrderTypes DEF Steps
    <3>. QED
      BY <1>1, <2>4, <3>1 DEF CheckTable, BootOK, Bootstrap
  <2>. QED
    BY <2>1, <2>2, <2>3, <2>4
<1>2. CASE \E kind \in {"dry_run", "bootstrap"} : StartBootstrap(t, kind)
  BY <1>2 DEF StartBootstrap, BootOK, Bootstrap
<1>3. CASE StartSeed(t)
  BY <1>3 DEF StartSeed, BootOK, Bootstrap
<1>4. CASE BootCrash(t)
  BY <1>4, NotRunningType DEF BootCrash, Ends, BootOK
<1>. QED
  BY <1>1, <1>2, <1>3, <1>4

LEMMA SetupTyped ==
  ASSUME BaseType, BootOK, NEW t \in Terminals, SetupSucceeds(t) \/ SetupFails(t)
  PROVE  BaseType' /\ BootOK'
<1>1. SetupCommand(boot[t].next) \in Request
  BY BootAt, SetupCommandType
<1>2. BaseType'
  BY <1>1, CallTyped DEF SetupSucceeds, SetupFails
<1>3. CASE SetupSucceeds(t)
  <2>1. CASE boot[t].next < 2 * Len(TableOrder)
    <3>1. boot[t].next + 1 \in Steps
      BY <2>1, BootAt, OrderTypes DEF Steps
    <3>. QED
      BY <1>2, <1>3, <2>1, <3>1 DEF SetupSucceeds, NextCommand, BootOK, Bootstrap
  <2>2. CASE ~(boot[t].next < 2 * Len(TableOrder))
    BY <1>2, <1>3, <2>2 DEF SetupSucceeds, NextCommand, BootOK, Bootstrap
  <2>. QED
    BY <2>1, <2>2
<1>4. CASE SetupFails(t)
  BY <1>2, <1>4, NotRunningType DEF SetupFails, Ends, BootOK
<1>. QED
  BY <1>3, <1>4

LEMMA SeedTyped ==
  ASSUME BaseType, BootOK, NEW t \in Terminals, SeedJob(t) \/ SeedCandidate(t)
  PROVE  BaseType' /\ BootOK'
<1>1. CASE SeedJob(t)
  <2>1. BaseType'
    BY <1>1, SeedTypes, CallTyped DEF SeedJob
  <2>2. CASE Ends(t)
    BY <2>1, <2>2, NotRunningType DEF Ends, BootOK
  <2>3. CASE /\ CallSucceeds(JobSeed)
             /\ boot' = [boot EXCEPT ![t].phase = "candidate",
                                     ![t].job = IF boot[t].kind = "seed" THEN NoId ELSE NewId]
    <3>1. NewId \in Ids
      BY <2>3, SeedTypes, NewIdIsFree DEF CallSucceeds, Accepted
    <3> DEFINE job == IF boot[t].kind = "seed" THEN NoId ELSE NewId
    <3>2. [boot[t] EXCEPT !.phase = "candidate", !.job = job] \in Bootstrap
      BY <3>1, BootAt DEF Bootstrap
    <3>3. boot' = [boot EXCEPT ![t] = [boot[t] EXCEPT !.phase = "candidate", !.job = job]]
      BY <2>3
    <3>. QED
      BY <2>1, <3>2, <3>3, BootSet DEF BootOK
  <2>. QED
    BY <1>1, <2>2, <2>3 DEF SeedJob
<1>2. CASE SeedCandidate(t)
  <2>1. CandidateSeed(boot[t].job) \in Request
    BY BootAt, SeedTypes
  <2>2. BaseType'
    BY <1>2, <2>1, CallTyped DEF SeedCandidate
  <2>. QED
    BY <1>2, <2>2, NotRunningType DEF SeedCandidate, Ends, BootOK
<1>. QED
  BY <1>1, <1>2

ImportOK == ImportType /\ NextFits

LEMMA NotImportingType ==
  /\ NotImporting \in Import /\ NotImporting.phase = "idle"
  /\ NotImporting.next = 1 /\ NotImporting.index = EmptyIndex
<1>1. 1 \in 1..Len(TableOrder)
  BY OrderTypes
<1>. QED
  BY <1>1 DEF NotImporting, Import, EmptyIndex, Index

LEMMA ImportAt ==
  ASSUME ImportType
  PROVE  /\ imp.phase \in {"idle", "list", "create", "index", "rows"}
         /\ imp.index \in Index
         /\ blind \in BOOLEAN /\ interrupted \in BOOLEAN
         /\ imp = [phase |-> imp.phase, next |-> imp.next, index |-> imp.index]
BY DEF ImportType, Import

LEMMA AfterTableIs ==
  ASSUME ImportOK, imp.phase \in {"list", "create"}, AfterTable
  PROVE  \/ imp' = [imp EXCEPT !.phase = "list", !.next = imp.next + 1]
            /\ imp.next + 1 \in DOMAIN TableOrder
         \/ imp' = [imp EXCEPT !.phase = "index", !.next = 1] /\ 1 \in DOMAIN TableOrder
BY OrderTypes DEF AfterTable, ImportOK, NextFits

LEMMA IndexTyped ==
  ASSUME rows \subseteq Row, imp.index \in Index, NEW n \in TableNames,
         NEW shown, shown \subseteq RowsOf(n)
  PROVE  /\ IndexWith(n, shown) \in Index
         /\ \A k \in Keys : IndexWith(n, shown)[n][k] = LastWith(shown, k)
         /\ \A m \in TableNames : m # n => IndexWith(n, shown)[m] = imp.index[m]
<1>1. shown \subseteq rows
  BY DEF RowsOf
<1>2. [k \in Keys |-> LastWith(shown, k)] \in [Keys -> Ids \cup {NoId}]
  BY <1>1, LastWithType
<1>. QED
  BY <1>2 DEF Index, IndexWith

(* The read of a table shows some of its rows, or fails.                    *)
LEMMA LoadIndexIs ==
  ASSUME LoadIndex, BaseType, ImportOK
  PROVE  LET n == TableOrder[imp.next]
         IN /\ imp.phase = "index" /\ UNCHANGED <<baseVars, interrupted>>
            /\ n \in TableNames /\ imp.index \in Index /\ rows \subseteq Row
            /\ blind' \in BOOLEAN
            /\ \/ \E shown : /\ shown \subseteq RowsOf(n) /\ AfterIndex(IndexWith(n, shown))
                             /\ blind' = (blind \/ Misses(n, shown))
               \/ AfterIndex(imp.index) /\ blind' = TRUE
<1> DEFINE n == TableOrder[imp.next]
<1>1. /\ imp.phase = "index" /\ UNCHANGED <<baseVars, interrupted>>
      /\ \/ \E shown \in Listings(n, ReadLimit) :
              AfterIndex(IndexWith(n, shown)) /\ blind' = (blind \/ Misses(n, shown))
         \/ AfterIndex(imp.index) /\ blind' = TRUE
  BY DEF LoadIndex
<1>2. n \in TableNames /\ imp.index \in Index /\ rows \subseteq Row /\ blind \in BOOLEAN
  BY <1>1, OrderTypes, ImportAt DEF ImportOK, NextFits, BaseType
<1>3. \A shown : Misses(n, shown) \in BOOLEAN
  BY DEF Misses
<1> HIDE DEF n
<1>4. blind' \in BOOLEAN
  BY <1>1, <1>2, <1>3
<1>. QED
  BY <1>1, <1>2, <1>4, ListingsShow DEF n

LEMMA AfterIndexIs ==
  ASSUME ImportOK, imp.phase = "index", NEW index \in Index, AfterIndex(index)
  PROVE  /\ \/ /\ imp' = [imp EXCEPT !.next = imp.next + 1, !.index = index]
               /\ imp.next + 1 \in DOMAIN TableOrder
            \/ /\ imp' = [imp EXCEPT !.phase = "rows", !.next = 1, !.index = index]
               /\ imp.next = Len(TableOrder) /\ 1 \in Data
         /\ imp' \in Import /\ NextFits'
<1>1. imp.next \in 1..Len(TableOrder) /\ DOMAIN TableOrder = 1..Len(TableOrder)
  BY OrderTypes DEF ImportOK, NextFits
<1>2. CASE imp.next < Len(TableOrder)
  <2>1. imp.next + 1 \in 1..Len(TableOrder)
    BY <1>1, <1>2, OrderTypes
  <2>2. imp' = [imp EXCEPT !.next = imp.next + 1, !.index = index]
    BY <1>2 DEF AfterIndex
  <2>3. imp' \in Import /\ imp'.phase = "index" /\ imp'.next = imp.next + 1
    BY <2>1, <2>2 DEF ImportOK, ImportType, Import
  <2>. QED
    BY <1>1, <2>1, <2>2, <2>3 DEF NextFits
<1>3. CASE ~(imp.next < Len(TableOrder))
  <2>1. imp.next = Len(TableOrder) /\ 1 \in Data /\ 1 \in 1..Len(TableOrder)
    BY <1>1, <1>3, OrderTypes, DataTypes
  <2>2. imp' = [imp EXCEPT !.phase = "rows", !.next = 1, !.index = index]
    BY <1>3 DEF AfterIndex
  <2>3. imp' \in Import /\ imp'.phase = "rows" /\ imp'.next = 1
    BY <2>1, <2>2 DEF ImportOK, ImportType, Import
  <2>. QED
    BY <2>1, <2>2, <2>3 DEF NextFits
<1>. QED
  BY <1>2, <1>3

LEMMA AfterRowIs ==
  ASSUME ImportOK, imp.phase = "rows", AfterRow
  PROVE  \/ imp' = [imp EXCEPT !.next = imp.next + 1] /\ imp.next + 1 \in Data
         \/ imp' = NotImporting /\ imp.next = Len(ImportRows)
BY DataTypes DEF AfterRow, ImportOK, NextFits

LEMMA ImportIdle ==
  ASSUME imp' = NotImporting
  PROVE  imp' \in Import /\ NextFits'
BY NotImportingType DEF NextFits

LEMMA AfterTableTyped ==
  ASSUME ImportOK, imp.phase \in {"list", "create"}, AfterTable
  PROVE  imp' \in Import /\ NextFits'
<1>1. CASE imp' = [imp EXCEPT !.phase = "list", !.next = imp.next + 1]
           /\ imp.next + 1 \in DOMAIN TableOrder
  <2>1. imp' \in Import /\ imp'.phase = "list" /\ imp'.next = imp.next + 1
    BY <1>1, OrderTypes DEF ImportOK, ImportType, Import
  <2>. QED
    BY <1>1, <2>1 DEF NextFits
<1>2. CASE imp' = [imp EXCEPT !.phase = "index", !.next = 1] /\ 1 \in DOMAIN TableOrder
  <2>1. imp' \in Import /\ imp'.phase = "index" /\ imp'.next = 1
    BY <1>2, OrderTypes DEF ImportOK, ImportType, Import
  <2>. QED
    BY <1>2, <2>1 DEF NextFits
<1>. QED
  BY <1>1, <1>2, AfterTableIs

LEMMA ImportTyped ==
  ASSUME BaseType, ImportOK, StartImport \/ ImportStep \/ ImportCrash
  PROVE  BaseType' /\ ImportOK'
<1>1. CASE StartImport
  <2>1. imp' \in Import /\ imp'.phase = "list" /\ imp'.next = 1
    BY <1>1, NotImportingType DEF StartImport, Import
  <2>. QED
    BY <1>1, <2>1, OrderTypes DEF StartImport, ImportOK, ImportType, NextFits, BaseType, baseVars
<1>2. CASE ListTables
  <2>1. CASE AfterTable
    BY <1>2, <2>1, AfterTableTyped
       DEF ListTables, ImportOK, ImportType, BaseType, baseVars
  <2>2. CASE imp' = [imp EXCEPT !.phase = "create"]
    <3>1. imp' \in Import /\ imp'.phase = "create" /\ imp'.next = imp.next
      BY <2>2 DEF ImportOK, ImportType, Import
    <3>. QED
      BY <1>2, <3>1 DEF ListTables, ImportOK, ImportType, NextFits, BaseType, baseVars
  <2>. QED
    BY <1>2, <2>1, <2>2 DEF ListTables
<1>3. CASE CreateTable
  <2> DEFINE request == [op |-> "create_with_fields", table |-> TableOrder[imp.next]]
  <2>1. imp.phase = "create" /\ UNCHANGED <<blind, interrupted>>
        /\ \/ CallSucceeds(request) /\ AfterTable
           \/ CallFails(request) /\ imp' = NotImporting
    BY <1>3 DEF CreateTable
  <2>2. request \in Request
    BY <2>1, OrderTypes DEF ImportOK, NextFits, Request
  <2> HIDE DEF request
  <2>3. BaseType'
    BY <2>1, <2>2, CallTyped
  <2>. QED
    BY <2>1, <2>3, AfterTableTyped, ImportIdle DEF ImportOK, ImportType
<1>4. CASE LoadIndex
  <2> DEFINE n == TableOrder[imp.next]
  <2>1. /\ imp.phase = "index" /\ UNCHANGED <<baseVars, interrupted>>
        /\ n \in TableNames /\ imp.index \in Index /\ rows \subseteq Row /\ blind' \in BOOLEAN
    BY <1>4, LoadIndexIs
  <2>2. \E index \in Index : AfterIndex(index)
    BY <1>4, <2>1, LoadIndexIs, IndexTyped
  <2> HIDE DEF n
  <2>. QED
    BY <2>1, <2>2, AfterIndexIs DEF ImportOK, ImportType, BaseType, baseVars
<1>5. CASE WriteRow
  <2>1. BaseType'
    BY <1>5, RowRequestType, CallTyped DEF WriteRow, ImportOK, NextFits
  <2>2. imp' \in Import /\ NextFits'
    <3>1. CASE imp' = [imp EXCEPT !.next = imp.next + 1] /\ imp.next + 1 \in Data
      <4>1. imp' \in Import /\ imp'.phase = "rows" /\ imp'.next = imp.next + 1
        BY <1>5, <3>1, DataTypes DEF WriteRow, ImportOK, ImportType, Import
      <4>. QED
        BY <3>1, <4>1 DEF NextFits
    <3>. QED
      BY <1>5, <3>1, AfterRowIs, ImportIdle DEF WriteRow
  <2>. QED
    BY <1>5, <2>1, <2>2 DEF WriteRow, ImportOK, ImportType
<1>6. CASE RowFails
  <2>1. BaseType'
    BY <1>6, RowRequestType, CallTyped DEF RowFails, ImportOK, NextFits
  <2>. QED
    BY <1>6, <2>1, ImportIdle DEF RowFails, ImportOK, ImportType
<1>7. CASE ImportCrash
  BY <1>7, ImportIdle DEF ImportCrash, ImportOK, ImportType, BaseType, baseVars
<1>. QED
  BY <1>1, <1>2, <1>3, <1>4, <1>5, <1>6, <1>7 DEF ImportStep

LEMMA PeopleTyped ==
  ASSUME BaseType, People
  PROVE  BaseType'
<1>1. PICK n \in TableNames : DeleteTable(n) \/ ClearTable(n)
  BY DEF People
<1>. QED
  BY <1>1 DEF DeleteTable, ClearTable, BaseType, TableState

LEMMA InitTyped == Init => Typed
<1> SUFFICES ASSUME Init PROVE Typed
  OBVIOUS
<1>1. BaseType
  BY DEF Init, BaseInit, BaseType, TableState
<1>2. boot \in [Terminals -> Bootstrap]
  BY NotRunningType DEF Init, BootInit
<1>3. ImportType /\ NextFits
  BY NotImportingType DEF Init, ImportInit, ImportType, NextFits
<1>. QED
  BY <1>1, <1>2, <1>3 DEF Typed, TypeOK

LEMMA StepTyped == Typed /\ [Next]_vars => Typed'
<1> SUFFICES ASSUME Typed, [Next]_vars PROVE Typed'
  OBVIOUS
<1>1. BaseType /\ BootOK /\ ImportOK
  BY DEF Typed, TypeOK, BootOK, ImportOK
<1>2. SUFFICES BaseType' /\ BootOK' /\ ImportOK'
  BY DEF Typed, TypeOK, BootOK, ImportOK
<1>3. ASSUME UNCHANGED importVars PROVE ImportOK'
  BY <1>1, <1>3 DEF importVars, ImportOK, ImportType, NextFits
<1>4. ASSUME UNCHANGED boot PROVE BootOK'
  BY <1>1, <1>4 DEF BootOK
<1>5. CASE \E t \in Terminals : Bootstrapping(t)
  <2>1. PICK t \in Terminals : Bootstrapping(t)
    BY <1>5
  <2>2. BaseType' /\ BootOK'
    <3>1. CASE CheckTable(t) \/ (\E kind \in {"dry_run", "bootstrap"} : StartBootstrap(t, kind))
                 \/ StartSeed(t) \/ BootCrash(t)
      BY <1>1, <3>1, CheckTyped DEF baseVars, BaseType
    <3>. QED
      BY <1>1, <2>1, <3>1, SetupTyped, SeedTyped DEF Bootstrapping, BootStep
  <2>. QED
    BY <1>3, <2>1, <2>2 DEF Bootstrapping
<1>6. CASE Importing
  BY <1>1, <1>4, <1>6, ImportTyped DEF Importing
<1>7. CASE People
  BY <1>1, <1>3, <1>4, <1>7, PeopleTyped DEF People
<1>8. CASE LateArrives /\ UNCHANGED <<boot, importVars>>
  BY <1>1, <1>3, <1>4, <1>8, LateTyped
<1>9. CASE UNCHANGED vars
  BY <1>1, <1>3, <1>4, <1>9 DEF vars, baseVars, BaseType
<1>. QED
  BY <1>5, <1>6, <1>7, <1>8, <1>9 DEF Next

LEMMA DemoKeys ==
  DemoJob \in Demo /\ DemoCandidate \in Demo /\ DemoJob # DemoCandidate
BY SetupAssumption DEF Demo

LEMMA JobSeedIs ==
  /\ JobSeed \in Request /\ JobSeed.op = "upsert" /\ JobSeed.row.key = DemoJob
  /\ JobSeed.row.table = JobTable /\ JobSeed.row.id = NoId /\ JobSeed.row.job = NoId
BY SeedTypes

LEMMA CandidateSeedIs ==
  ASSUME NEW job \in Ids \cup {NoId}
  PROVE  /\ CandidateSeed(job) \in Request /\ CandidateSeed(job).op = "upsert"
         /\ CandidateSeed(job).row.key = DemoCandidate
         /\ CandidateSeed(job).row.table = CandidateTable
         /\ CandidateSeed(job).row.id = NoId /\ CandidateSeed(job).row.job = job
<1>1. /\ CandidateSeed(job) \in Request /\ CandidateSeed(job).op = "upsert"
      /\ CandidateSeed(job).row = [table |-> CandidateTable, id |-> NoId,
                                   key |-> DemoCandidate, content |-> NoContent, job |-> job]
  BY SeedTypes, Zenon
<1>. QED
  BY ONLY <1>1

LEMMA AtMostOne ==
  ASSUME NEW S, \A x, y \in S : x = y
  PROVE  Cardinality(S) <= 1
<1>1. CASE S = {}
  BY <1>1, FS_EmptySet
<1>2. CASE S # {}
  <2>1. PICK x \in S : S = {x}
    BY <1>2
  <2>. QED
    BY <2>1, FS_Singleton
<1>. QED
  BY <1>1, <1>2

(* The scripts' state stays well typed, whatever is run, fails or comes     *)
(* through late.                                                            *)
THEOREM SetupTyping == Spec => []TypeOK
<1>1. Typed => TypeOK
  BY DEF Typed
<1>. QED
  BY <1>1, InitTyped, StepTyped, PTL DEF Spec

-----------------------------------------------------------------------------
(* No row goes while a script runs: one that is written over keeps its id,  *)
(* its table and its key.                                                   *)

Alike(r, q) == r.id = q.id /\ r.table = q.table /\ r.key = q.key

Stay == \A r \in rows : \E q \in rows' : Alike(q, r)

Fits(row) == row.id # NoId => \E r \in rows : Alike(r, row)

LEMMA ServedKeepsRows ==
  ASSUME IdsInv, \A r \in rows : Own(r) => r.job = NoId,
         NEW q \in Request, Accepted(q), Serve(q),
         q.op = "upsert" => Fits(q.row) /\ (Own(q.row) => q.row.job = NoId)
  PROVE  Stay /\ IdsInv' /\ \A r \in rows' : Own(r) => r.job = NoId
<1>1. CASE q.op # "upsert"
  <2>1. rows' = rows
    BY <1>1, TableServed
  <2>. QED
    BY <2>1 DEF Stay, Alike, IdsInv
<1>2. CASE q.op = "upsert"
  <2>1. q.row \in Row
    BY <1>2, RequestTypes
  <2>2. PICK id \in Ids :
          /\ Put(q.row, id)
          /\ IF q.row.id = NoId THEN FreeIds # {} /\ id = NewId ELSE id = q.row.id
    BY <1>2, <2>1, UpsertServed
  <2> DEFINE new == [q.row EXCEPT !.id = id]
  <2>3. /\ new.id = id /\ new.table = q.row.table /\ new.key = q.row.key
        /\ new.job = q.row.job
    BY <2>1 DEF Row
  <2>4. rows' = {r \in rows : r.id # id} \cup {new}
    BY <2>2 DEF Put
  <2>5. id # NoId
    BY IdTypes
  <2> HIDE DEF new
  <2>6. IdsInv'
    <3>1. IsFiniteSet({r \in rows : r.id # id})
      BY FS_Subset DEF IdsInv
    <3>2. IsFiniteSet(rows')
      BY <2>4, <3>1, FS_AddElement
    <3>3. \A r \in rows' : r.id # NoId
      BY <2>3, <2>4, <2>5 DEF IdsInv
    <3>4. \A r, p \in rows' : r.id = p.id => r = p
      BY <2>3, <2>4 DEF IdsInv
    <3>. QED
      BY <3>2, <3>3, <3>4 DEF IdsInv
  <2>7. Stay
    <3>1. ASSUME NEW r \in rows PROVE \E p \in rows' : Alike(p, r)
      <4>1. CASE r.id # id
        BY <2>4, <4>1 DEF Alike
      <4>2. CASE r.id = id
        <5>1. q.row.id # NoId /\ q.row.id = id
          BY <2>2, <4>2, NewIdIsFree
        <5>2. PICK p \in rows : Alike(p, q.row)
          BY <1>2, <5>1 DEF Fits
        <5>3. p = r
          BY <4>2, <5>1, <5>2 DEF IdsInv, Alike
        <5>. QED
          BY <2>3, <2>4, <5>1, <5>2, <5>3 DEF Alike
      <4>. QED
        BY <4>1, <4>2
    <3>. QED
      BY <3>1 DEF Stay
  <2>8. \A r \in rows' : Own(r) => r.job = NoId
    BY <1>2, <2>3, <2>4 DEF Own
  <2>. QED
    BY <2>6, <2>7, <2>8
<1>. QED
  BY <1>1, <1>2

LEMMA StayFits ==
  ASSUME Stay, NEW row, Fits(row)
  PROVE  Fits(row)'
<1>1. CASE row.id = NoId
  BY <1>1 DEF Fits
<1>2. CASE row.id # NoId
  <2>1. PICK r \in rows : Alike(r, row)
    BY <1>2 DEF Fits
  <2>2. PICK p \in rows' : Alike(p, r)
    BY DEF Stay
  <2>3. Alike(p, row)
    BY <2>1, <2>2 DEF Alike
  <2>4. \E p2 \in rows' : Alike(p2, row)
    BY <2>2, <2>3
  <2>. QED
    BY <2>4 DEF Fits, Alike
<1>. QED
  BY <1>1, <1>2

LEMMA OwnFormIs ==
  OwnForm <=> /\ \A r \in rows : Own(r) => r.job = NoId
              /\ \A q \in PendingOwn : q.row.job = NoId /\ Fits(q.row)
BY DEF OwnForm, Fits, Alike

LEMMA PendingFits ==
  ASSUME Stay, \A q \in PendingOwn : q.row.job = NoId /\ Fits(q.row)
  PROVE  \A q \in PendingOwn : q.row.job = NoId /\ Fits(q.row)'
BY StayFits

(* The requests which the scripts send.                                     *)
Proper(q) ==
  q.op = "upsert" => Fits(q.row) /\ (Own(q.row) => q.row.job = NoId)

LEMMA RestKeepsRows ==
  ASSUME IdsInv, OwnForm, rows' = rows, PendingOwn' \subseteq PendingOwn
  PROVE  Stay /\ IdsInv' /\ OwnForm'
<1>1. Stay /\ IdsInv'
  BY DEF Stay, Alike, IdsInv
<1>2. OwnForm'
  BY DEF OwnForm
<1>. QED
  BY <1>1, <1>2

LEMMA CallKeepsRows ==
  ASSUME IdsInv, OwnForm, NEW q \in Request, Proper(q), CallSucceeds(q) \/ CallFails(q)
  PROVE  Stay /\ IdsInv' /\ OwnForm'
<1>1. /\ \A r \in rows : Own(r) => r.job = NoId
      /\ \A p \in PendingOwn : p.row.job = NoId /\ Fits(p.row)
  BY OwnFormIs
<1>2. CASE CallSucceeds(q)
  <2>1. /\ Stay /\ IdsInv' /\ \A r \in rows' : Own(r) => r.job = NoId
        /\ PendingOwn' = PendingOwn
    BY <1>1, <1>2, ServedKeepsRows DEF CallSucceeds, Proper, PendingOwn
  <2>2. \A p \in PendingOwn : p.row.job = NoId /\ Fits(p.row)'
    BY <1>1, <2>1, PendingFits
  <2>3. OwnForm'
    BY <2>1, <2>2 DEF OwnForm, Fits, Alike
  <2>. QED
    BY <2>1, <2>3
<1>3. CASE UNCHANGED baseVars
  BY <1>3, RestKeepsRows DEF baseVars, PendingOwn
<1>4. CASE late' = late \cup {q} /\ UNCHANGED <<tables, rows>>
  <2>1. Stay /\ IdsInv'
    BY <1>4 DEF Stay, Alike, IdsInv
  <2>2. PendingOwn' \subseteq PendingOwn \cup {q}
        /\ (q \in PendingOwn' => q.op = "upsert" /\ Own(q.row))
    BY <1>4 DEF PendingOwn
  <2>3. \A p \in PendingOwn' : p.row.job = NoId /\ Fits(p.row)
    BY <1>1, <2>2 DEF Proper
  <2>4. OwnForm'
    BY <1>1, <1>4, <2>3 DEF OwnForm, Fits, Alike
  <2>. QED
    BY <2>1, <2>4
<1>. QED
  BY <1>2, <1>3, <1>4 DEF CallFails

(* What is under way is proper.                                             *)
LEMMA LateIsProper ==
  ASSUME SeedForm, OwnForm, NEW q \in late
  PROVE  Proper(q)
<1>1. SUFFICES ASSUME q.op = "upsert" PROVE Fits(q.row) /\ (Own(q.row) => q.row.job = NoId)
  BY DEF Proper
<1>2. CASE Own(q.row)
  BY <1>1, <1>2, OwnFormIs DEF PendingOwn
<1>3. CASE ~Own(q.row)
  <2>1. q.row.id = NoId
    BY <1>1, <1>3 DEF SeedForm, PendingSeeds
  <2>. QED
    BY <1>3, <2>1 DEF Fits
<1>. QED
  BY <1>2, <1>3

LEMMA LateKeepsRows ==
  ASSUME BaseType, SeedForm, IdsInv, OwnForm, LateArrives
  PROVE  Stay /\ IdsInv' /\ OwnForm'
<1>1. PICK q \in late : /\ late' = late \ {q}
                        /\ (Accepted(q) /\ Serve(q)) \/ UNCHANGED <<tables, rows>>
  BY DEF LateArrives
<1>2. q \in Request /\ Proper(q)
  BY LateIsProper DEF BaseType
<1>3. PendingOwn' \subseteq PendingOwn
  BY <1>1 DEF PendingOwn
<1>4. CASE UNCHANGED <<tables, rows>>
  BY <1>3, <1>4, RestKeepsRows
<1>5. CASE Accepted(q) /\ Serve(q)
  <2>1. /\ \A r \in rows : Own(r) => r.job = NoId
        /\ \A p \in PendingOwn : p.row.job = NoId /\ Fits(p.row)
    BY OwnFormIs
  <2>2. Stay /\ IdsInv' /\ \A r \in rows' : Own(r) => r.job = NoId
    BY <1>2, <1>5, <2>1, ServedKeepsRows DEF Proper
  <2>3. \A p \in PendingOwn : p.row.job = NoId /\ Fits(p.row)'
    BY <2>1, <2>2, PendingFits
  <2>4. OwnForm'
    BY <1>3, <2>2, <2>3 DEF OwnForm, Fits, Alike
  <2>. QED
    BY <2>2, <2>4
<1>. QED
  BY <1>1, <1>4, <1>5

LEMMA StayKeepsIndex ==
  ASSUME IndexInv, Stay, imp'.index = imp.index \/ imp'.index = EmptyIndex
  PROVE  IndexInv'
<1>1. SUFFICES ASSUME NEW n \in TableNames, NEW k \in Keys, imp'.index[n][k] # NoId
      PROVE  \E r \in rows' : r.id = imp'.index[n][k] /\ r.table = n /\ r.key = k
  BY DEF IndexInv
<1>2. CASE imp'.index = EmptyIndex
  BY <1>1, <1>2 DEF EmptyIndex
<1>3. CASE imp'.index = imp.index
  <2>1. PICK r \in rows : r.id = imp.index[n][k] /\ r.table = n /\ r.key = k
    BY <1>1, <1>3 DEF IndexInv
  <2>2. PICK p \in rows' : Alike(p, r)
    BY DEF Stay
  <2>. QED
    BY <1>3, <2>1, <2>2 DEF Alike
<1>. QED
  BY <1>2, <1>3

LEMMA IndexIsOfRows ==
  ASSUME BaseType, ImportOK, IndexInv, LoadIndex
  PROVE  IndexInv'
<1> DEFINE n == TableOrder[imp.next]
<1>1. /\ imp.phase = "index" /\ rows' = rows
      /\ n \in TableNames /\ imp.index \in Index /\ rows \subseteq Row
      /\ \/ \E shown : shown \subseteq RowsOf(n) /\ AfterIndex(IndexWith(n, shown))
         \/ AfterIndex(imp.index)
  BY LoadIndexIs DEF baseVars
<1> HIDE DEF n
<1>2. ASSUME NEW index \in Index, AfterIndex(index) PROVE imp'.index = index
  BY <1>1, <1>2, AfterIndexIs DEF ImportOK, ImportType, Import
<1>3. CASE AfterIndex(imp.index)
  BY <1>1, <1>2, <1>3 DEF IndexInv
<1>4. CASE \E shown : shown \subseteq RowsOf(n) /\ AfterIndex(IndexWith(n, shown))
  <2>1. PICK shown : shown \subseteq RowsOf(n) /\ AfterIndex(IndexWith(n, shown))
    BY <1>4
  <2> DEFINE read == IndexWith(n, shown)
  <2>2. /\ read \in Index /\ \A k \in Keys : read[n][k] = LastWith(shown, k)
        /\ \A m \in TableNames : m # n => read[m] = imp.index[m]
    BY <1>1, <2>1, IndexTyped
  <2> HIDE DEF read
  <2>3. imp'.index = read
    BY <1>2, <2>1, <2>2 DEF read
  <2>4. shown \subseteq rows
    BY <2>1 DEF RowsOf
  <2>5. ASSUME NEW m \in TableNames, NEW k \in Keys, read[m][k] # NoId
        PROVE  \E r \in rows : r.id = read[m][k] /\ r.table = m /\ r.key = k
    <3>1. CASE m # n
      BY <2>2, <2>5, <3>1 DEF IndexInv
    <3>2. CASE m = n
      <4>1. LastWith(shown, k) # NoId
        BY <2>2, <2>5, <3>2
      <4>2. PICK r \in Read(shown, k) : LastWith(shown, k) = r.id
        BY <1>1, <2>4, <4>1, LastWithIs
      <4>3. r \in rows /\ r.table = n /\ r.key = k
        BY <2>1, <4>2 DEF Read, RowsOf
      <4>. QED
        BY <2>2, <3>2, <4>2, <4>3
    <3>. QED
      BY <3>1, <3>2
  <2>. QED
    BY <1>1, <2>3, <2>5 DEF IndexInv
<1>. QED
  BY <1>1, <1>3, <1>4

LEMMA ImportIndex ==
  ASSUME ImportOK, StartImport \/ ListTables \/ CreateTable \/ WriteRow \/ RowFails \/ ImportCrash
  PROVE  imp'.index = imp.index \/ imp'.index = EmptyIndex
<1>1. imp \in Import
  BY DEF ImportOK, ImportType
<1>2. ASSUME imp' = NotImporting PROVE imp'.index = EmptyIndex
  BY <1>2, NotImportingType
<1>3. ASSUME imp.phase \in {"list", "create"}, AfterTable PROVE imp'.index = imp.index
  BY <1>1, <1>3, AfterTableIs DEF Import
<1>4. CASE StartImport
  BY <1>4, NotImportingType DEF StartImport, Import
<1>5. CASE ListTables
  BY <1>1, <1>3, <1>5 DEF ListTables, Import
<1>6. CASE CreateTable
  BY <1>2, <1>3, <1>6 DEF CreateTable
<1>7. CASE WriteRow
  BY <1>1, <1>2, <1>7, AfterRowIs DEF WriteRow, Import
<1>8. CASE RowFails
  BY <1>2, <1>8 DEF RowFails
<1>9. CASE ImportCrash
  BY <1>2, <1>9 DEF ImportCrash
<1>. QED
  BY <1>4, <1>5, <1>6, <1>7, <1>8, <1>9

LEMMA RowRequestProper ==
  ASSUME ImportType, IndexInv, NEW i \in Data
  PROVE  Proper(RowRequest(ImportRows[i])) /\ Own(RowRequest(ImportRows[i]).row)
<1> DEFINE q == RowRequest(ImportRows[i])
<1>1. /\ q.op = "upsert" /\ q.row.table = TableOf(i) /\ q.row.id = Entry(i)
      /\ q.row.key = KeyOf(i) /\ q.row.job = NoId /\ q.row.key \notin Demo
  BY RowRequestIs
<1>2. TableOf(i) \in TableNames /\ KeyOf(i) \in Keys
  BY DataTypes
<1> HIDE DEF q
<1>3. Fits(q.row)
  BY <1>1, <1>2 DEF IndexInv, Entry, Fits, Alike
<1>. QED
  BY <1>1, <1>3 DEF Proper, Own, q

(* What each part of Next may send.                                         *)
LEMMA BootCalls ==
  ASSUME BootOK, NEW t \in Terminals, Bootstrapping(t)
  PROVE  \/ UNCHANGED baseVars
         \/ \E q \in Request : /\ q.op = "upsert" => ~Own(q.row) /\ q.row.id = NoId
                               /\ CallSucceeds(q) \/ CallFails(q)
<1>1. CASE CheckTable(t) \/ (\E kind \in {"dry_run", "bootstrap"} : StartBootstrap(t, kind))
             \/ StartSeed(t) \/ BootCrash(t)
  BY <1>1, CheckTyped
<1>2. CASE SetupSucceeds(t) \/ SetupFails(t)
  <2>1. /\ SetupCommand(boot[t].next) \in Request
        /\ SetupCommand(boot[t].next).op \in {"create", "fields"}
    BY BootAt, SetupCommandType
  <2>. QED
    BY <1>2, <2>1 DEF SetupSucceeds, SetupFails
<1>3. CASE SeedJob(t)
  BY <1>3, JobSeedIs, DemoKeys DEF SeedJob, Own
<1>4. CASE SeedCandidate(t)
  <2>1. /\ CandidateSeed(boot[t].job) \in Request
        /\ CandidateSeed(boot[t].job).row.key = DemoCandidate
        /\ CandidateSeed(boot[t].job).row.id = NoId
    BY BootAt, CandidateSeedIs
  <2>. QED
    BY <1>4, <2>1, DemoKeys DEF SeedCandidate, Own
<1>. QED
  BY <1>1, <1>2, <1>3, <1>4 DEF Bootstrapping, BootStep

LEMMA CreateCalls ==
  ASSUME ImportOK, CreateTable
  PROVE  \E q \in Request : /\ q.op # "upsert"
                            /\ CallSucceeds(q) \/ CallFails(q)
<1> DEFINE request == [op |-> "create_with_fields", table |-> TableOrder[imp.next]]
<1>1. imp.phase = "create" /\ (CallSucceeds(request) \/ CallFails(request))
  BY DEF CreateTable
<1>2. request \in Request /\ request.op # "upsert"
  BY <1>1, OrderTypes DEF ImportOK, NextFits, Request
<1> HIDE DEF request
<1>. QED
  BY <1>1, <1>2

LEMMA CallKeepsForm ==
  ASSUME SeedForm, NEW q \in Request, q.op = "upsert" => Own(q.row) \/ q.row.id = NoId,
         CallSucceeds(q) \/ CallFails(q)
  PROVE  SeedForm'
<1>1. late' = late \/ late' = late \cup {q}
  BY DEF CallSucceeds, CallFails, baseVars
<1>. QED
  BY <1>1 DEF SeedForm, PendingSeeds

LEMMA ImportCalls ==
  ASSUME ImportOK, IndexInv, StartImport \/ ImportStep \/ ImportCrash
  PROVE  \/ UNCHANGED baseVars
         \/ \E q \in Request : /\ q.op = "upsert" => Own(q.row) /\ Proper(q)
                               /\ CallSucceeds(q) \/ CallFails(q)
<1>1. CASE CreateTable
  BY <1>1, CreateCalls
<1>2. CASE WriteRow \/ RowFails
  <2> DEFINE q == RowRequest(ImportRows[imp.next])
  <2>1. imp.next \in Data /\ (CallSucceeds(q) \/ CallFails(q))
    BY <1>2 DEF WriteRow, RowFails, ImportOK, NextFits
  <2>2. q \in Request /\ Proper(q) /\ Own(q.row)
    BY <2>1, RowRequestIs, RowRequestProper DEF ImportOK
  <2> HIDE DEF q
  <2>. QED
    BY <2>1, <2>2
<1>3. CASE UNCHANGED baseVars
  BY <1>3
<1>. QED
  BY <1>1, <1>2, <1>3 DEF StartImport, ImportStep, ListTables, LoadIndex, ImportCrash

LEMMA InitForm == Init => SeedForm
BY DEF Init, BaseInit, SeedForm, PendingSeeds

LEMMA StepKeepsForm == Typed /\ SeedForm /\ RowsInv /\ [Next]_vars => SeedForm'
<1> SUFFICES ASSUME Typed, SeedForm, RowsInv, [Next]_vars PROVE SeedForm'
  OBVIOUS
<1>1. BootOK /\ ImportOK /\ IndexInv
  BY DEF Typed, TypeOK, BootOK, ImportOK, RowsInv
<1>2. CASE \E t \in Terminals : Bootstrapping(t)
  BY <1>1, <1>2, BootCalls, CallKeepsForm DEF baseVars, SeedForm, PendingSeeds
<1>3. CASE Importing
  BY <1>1, <1>3, ImportCalls, CallKeepsForm DEF Importing, baseVars, SeedForm, PendingSeeds
<1>4. CASE late' \subseteq late
  BY <1>4 DEF SeedForm, PendingSeeds
<1>. QED
  BY <1>2, <1>3, <1>4 DEF Next, People, DeleteTable, ClearTable, LateArrives, vars, baseVars

LEMMA BootKeepsRows ==
  ASSUME BootOK, RowsInv, NEW t \in Terminals, Bootstrapping(t)
  PROVE  RowsInv'
<1>1. CASE UNCHANGED baseVars
  BY <1>1, RestKeepsRows, StayKeepsIndex
     DEF RowsInv, Bootstrapping, importVars, baseVars, PendingOwn
<1>2. CASE \E q \in Request : /\ q.op = "upsert" => ~Own(q.row) /\ q.row.id = NoId
                              /\ CallSucceeds(q) \/ CallFails(q)
  <2>1. PICK q \in Request : /\ q.op = "upsert" => ~Own(q.row) /\ q.row.id = NoId
                             /\ CallSucceeds(q) \/ CallFails(q)
    BY <1>2
  <2>2. Proper(q)
    BY <2>1 DEF Proper, Fits
  <2>. QED
    BY <2>1, <2>2, CallKeepsRows, StayKeepsIndex DEF RowsInv, Bootstrapping, importVars
<1>. QED
  BY <1>1, <1>2, BootCalls

LEMMA ImportKeepsRows ==
  ASSUME BaseType, ImportOK, RowsInv, StartImport \/ ImportStep \/ ImportCrash
  PROVE  RowsInv'
<1>1. CASE LoadIndex
  BY <1>1, RestKeepsRows, IndexIsOfRows DEF RowsInv, LoadIndex, baseVars, PendingOwn
<1>2. CASE StartImport \/ ListTables \/ ImportCrash
  BY <1>2, RestKeepsRows, ImportIndex, StayKeepsIndex
     DEF RowsInv, StartImport, ListTables, ImportCrash, baseVars, PendingOwn
<1>3. CASE CreateTable
  <2>1. PICK q \in Request : q.op # "upsert" /\ (CallSucceeds(q) \/ CallFails(q))
    BY <1>3, CreateCalls
  <2>2. Proper(q)
    BY <2>1 DEF Proper
  <2>. QED
    BY <1>3, <2>1, <2>2, CallKeepsRows, ImportIndex, StayKeepsIndex DEF RowsInv
<1>4. CASE WriteRow \/ RowFails
  <2> DEFINE q == RowRequest(ImportRows[imp.next])
  <2>1. imp.next \in Data /\ (CallSucceeds(q) \/ CallFails(q))
    BY <1>4 DEF WriteRow, RowFails, ImportOK, NextFits
  <2>2. q \in Request /\ Proper(q)
    BY <2>1, RowRequestIs, RowRequestProper DEF ImportOK, RowsInv
  <2> HIDE DEF q
  <2>. QED
    BY <1>4, <2>1, <2>2, CallKeepsRows, ImportIndex, StayKeepsIndex DEF RowsInv
<1>. QED
  BY <1>1, <1>2, <1>3, <1>4 DEF ImportStep

LEMMA PeopleKeepRows ==
  ASSUME RowsInv, ImportOK, People
  PROVE  RowsInv'
<1>1. /\ rows' \subseteq rows /\ late' = {} /\ imp' = imp /\ imp.index = EmptyIndex
  BY DEF People, DeleteTable, ClearTable, importVars, ImportOK, NextFits
<1>2. IdsInv'
  BY <1>1, FS_Subset DEF RowsInv, IdsInv
<1>3. OwnForm'
  BY <1>1 DEF RowsInv, OwnForm, PendingOwn
<1>4. IndexInv'
  BY <1>1 DEF IndexInv, EmptyIndex
<1>. QED
  BY <1>2, <1>3, <1>4 DEF RowsInv

LEMMA InitRows == Init => RowsInv
<1> SUFFICES ASSUME Init PROVE RowsInv
  OBVIOUS
<1>1. rows = {} /\ late = {} /\ imp.index = EmptyIndex
  BY NotImportingType DEF Init, BaseInit, ImportInit
<1>. QED
  BY <1>1, FS_EmptySet DEF RowsInv, IdsInv, OwnForm, PendingOwn, IndexInv, EmptyIndex

LEMMA StepKeepsRows == Typed /\ SeedForm /\ RowsInv /\ [Next]_vars => RowsInv'
<1> SUFFICES ASSUME Typed, SeedForm, RowsInv, [Next]_vars PROVE RowsInv'
  OBVIOUS
<1>1. BaseType /\ BootOK /\ ImportOK
  BY DEF Typed, TypeOK, BootOK, ImportOK
<1>2. CASE \E t \in Terminals : Bootstrapping(t)
  BY <1>1, <1>2, BootKeepsRows
<1>3. CASE Importing
  BY <1>1, <1>3, ImportKeepsRows DEF Importing
<1>4. CASE People
  BY <1>1, <1>4, PeopleKeepRows
<1>5. CASE LateArrives /\ UNCHANGED <<boot, importVars>>
  BY <1>1, <1>5, LateKeepsRows, StayKeepsIndex DEF RowsInv, importVars
<1>6. CASE UNCHANGED vars
  BY <1>6, RestKeepsRows, StayKeepsIndex
     DEF vars, baseVars, importVars, RowsInv, PendingOwn
<1>. QED
  BY <1>2, <1>3, <1>4, <1>5, <1>6 DEF Next

-----------------------------------------------------------------------------
(* What a request does to the rows of the data.                             *)

OwnRows == {r \in rows : Own(r)}

(* A row is added, or one is written over.                                  *)
Adds(row, new) ==
  /\ rows' = rows \cup {new}
  /\ new.id \in FreeIds /\ new.id \notin FreeIds' /\ \A f \in FreeIds : new.id <= f
  /\ \A r \in rows : r.id # new.id

Replaces(row, new) ==
  \E old \in rows : /\ Alike(old, row) /\ Alike(new, row)
                    /\ rows' = (rows \ {old}) \cup {new}

LEMMA PutIs ==
  ASSUME RowsInv, NEW q \in Request, q.op = "upsert", Proper(q), Accepted(q), Serve(q)
  PROVE  \E new : /\ new.table = q.row.table /\ new.key = q.row.key
                  /\ new.content = q.row.content /\ new.job = q.row.job
                  /\ IF q.row.id = NoId THEN Adds(q.row, new) ELSE Replaces(q.row, new)
<1>1. q.row \in Row
  BY RequestTypes
<1>2. PICK id \in Ids :
        /\ Put(q.row, id)
        /\ IF q.row.id = NoId THEN FreeIds # {} /\ id = NewId ELSE id = q.row.id
  BY <1>1, UpsertServed
<1> DEFINE new == [q.row EXCEPT !.id = id]
<1>3. /\ new.id = id /\ new.table = q.row.table /\ new.key = q.row.key
      /\ new.job = q.row.job /\ new.content = q.row.content
  BY <1>1 DEF Row
<1>4. rows' = {r \in rows : r.id # id} \cup {new}
  BY <1>2 DEF Put
<1> HIDE DEF new
<1>5. CASE q.row.id = NoId
  <2>1. /\ id \in FreeIds /\ \A f \in FreeIds : id <= f
        /\ \A r \in rows : r.id # id
    BY <1>2, <1>5, NewIdIsFree
  <2>2. rows' = rows \cup {new}
    BY <1>4, <2>1
  <2>3. id \notin FreeIds'
    BY <1>3, <2>2 DEF FreeIds
  <2>. QED
    BY <1>3, <1>5, <2>1, <2>2, <2>3 DEF Adds
<1>6. CASE q.row.id # NoId
  <2>1. PICK old \in rows : Alike(old, q.row)
    BY <1>6 DEF Proper, Fits
  <2>2. {r \in rows : r.id # id} = rows \ {old}
    BY <1>2, <1>6, <2>1 DEF RowsInv, IdsInv, Alike
  <2>. QED
    BY <1>2, <1>3, <1>4, <1>6, <2>1, <2>2 DEF Replaces, Alike
<1>. QED
  BY <1>5, <1>6

LEMMA FreeShrinks ==
  ASSUME RowsInv, NEW q \in Request, q.op = "upsert" => Proper(q) /\ (Own(q.row) \/ q.row.id = NoId),
         Accepted(q), Serve(q)
  PROVE  FreeIds' \subseteq FreeIds
<1>1. CASE q.op # "upsert"
  BY <1>1, TableServed DEF FreeIds
<1>2. CASE q.op = "upsert" /\ q.row.id = NoId
  <2>1. PICK new : rows' = rows \cup {new}
    BY <1>2, PutIs DEF Adds
  <2>. QED
    BY <2>1 DEF FreeIds
<1>3. CASE q.op = "upsert" /\ q.row.id # NoId
  <2>1. PICK new : Replaces(q.row, new)
    BY <1>3, PutIs
  <2>2. PICK old \in rows : /\ Alike(old, q.row) /\ Alike(new, q.row)
                            /\ rows' = (rows \ {old}) \cup {new}
    BY <2>1 DEF Replaces
  <2>3. old.id = new.id /\ old.job = NoId
    BY <1>3, <2>2 DEF Alike, Own, RowsInv, OwnForm
  <2>4. ASSUME NEW r \in rows
        PROVE  /\ \E p \in rows' : p.id = r.id
               /\ r.job = NoId \/ \E p \in rows' : p.job = r.job
    BY <2>2, <2>3
  <2>5. NoId \notin Ids
    BY IdTypes
  <2>. QED
    BY <2>4, <2>5 DEF FreeIds
<1>. QED
  BY <1>1, <1>2, <1>3

(* Steps that leave the rows of the data alone.                             *)
OwnQuiet ==
  OwnRows' = OwnRows /\ PendingOwn' \subseteq PendingOwn /\ FreeIds' \subseteq FreeIds

LEMMA ForeignServed ==
  ASSUME RowsInv, NEW q \in Request, q.op = "upsert" => ~Own(q.row) /\ q.row.id = NoId,
         Accepted(q), Serve(q)
  PROVE  OwnRows' = OwnRows /\ FreeIds' \subseteq FreeIds
<1>1. Proper(q)
  BY DEF Proper, Fits
<1>2. FreeIds' \subseteq FreeIds
  BY <1>1, FreeShrinks
<1>3. CASE q.op # "upsert"
  BY <1>2, <1>3, TableServed DEF OwnRows
<1>4. CASE q.op = "upsert"
  <2>1. PICK new : rows' = rows \cup {new} /\ new.key = q.row.key
    BY <1>1, <1>4, PutIs DEF Adds
  <2>2. ~Own(new)
    BY <1>4, <2>1 DEF Own
  <2>. QED
    BY <1>2, <2>1, <2>2 DEF OwnRows
<1>. QED
  BY <1>3, <1>4

LEMMA ForeignCall ==
  ASSUME RowsInv, NEW q \in Request, q.op = "upsert" => ~Own(q.row) /\ q.row.id = NoId,
         CallSucceeds(q) \/ CallFails(q)
  PROVE  OwnQuiet
<1>1. CASE CallSucceeds(q)
  BY <1>1, ForeignServed DEF CallSucceeds, OwnQuiet, PendingOwn
<1>2. CASE UNCHANGED baseVars
  BY <1>2 DEF baseVars, OwnQuiet, OwnRows, PendingOwn, FreeIds
<1>3. CASE late' = late \cup {q} /\ UNCHANGED <<tables, rows>>
  BY <1>3 DEF OwnQuiet, OwnRows, PendingOwn, FreeIds
<1>. QED
  BY <1>1, <1>2, <1>3 DEF CallFails

LEMMA RestIsOwnQuiet == UNCHANGED baseVars => OwnQuiet
BY DEF baseVars, OwnQuiet, OwnRows, PendingOwn, FreeIds

LEMMA FoundInOwn ==
  ASSUME NEW i \in Data
  PROVE  Found(i) = {r \in OwnRows : r.table = TableOf(i) /\ r.key = KeyOf(i)}
BY DataTypes DEF Found, OwnRows, Own

LEMMA QuietFound ==
  ASSUME OwnQuiet, NEW i \in Data
  PROVE  Found(i)' = Found(i)
<1>1. Found(i) = {r \in OwnRows : r.table = TableOf(i) /\ r.key = KeyOf(i)}
  BY FoundInOwn
<1>2. Found(i)' = {r \in OwnRows' : r.table = TableOf(i) /\ r.key = KeyOf(i)}
  BY DataTypes DEF Found, OwnRows, Own, TableOf, KeyOf
<1>. QED
  BY <1>1, <1>2 DEF OwnQuiet

-----------------------------------------------------------------------------
(* The import has read no table yet.                                        *)
Starts ==
  imp.phase \in {"idle", "list", "create"} \/ (imp.phase = "index" /\ imp.next = 1)

LEMMA StartsKnowsNothing ==
  ASSUME Starts
  PROVE  ~Reading /\ \A n \in TableNames : ~Known(n)
<1>1. \A p \in DOMAIN TableOrder : ~(p < 1)
  BY OrderTypes
<1>. QED
  BY <1>1 DEF Starts, Reading, Known

LEMMA NotReadingStarts ==
  ASSUME ImportOK, ~Reading
  PROVE  Starts
BY OrderTypes DEF ImportOK, ImportType, Import, NextFits, Reading, Starts

(* What OnceInv says of one row of the data.                                *)
OnceAt(i) ==
  /\ \A r, q \in Found(i) : r = q
  /\ Known(TableOf(i)) /\ Entry(i) = NoId /\ Ahead(i) => Found(i) = {}
  /\ \A q \in PendingOwn :
       q.row.table = TableOf(i) /\ q.row.key = KeyOf(i) /\ q.row.id = NoId => Found(i) = {}

LEMMA OnceInvIs ==
  OnceInv <=> (~blind => /\ Reading => PendingOwn = {}
                         /\ \A p, q \in PendingOwn : p = q
                         /\ \A i \in Data : OnceInData(ImportRows[i]) => OnceAt(i))
BY DEF OnceInv, OnceAt

LEMMA OnceInvIsNext ==
  OnceInv' <=> (~blind' => /\ Reading' => PendingOwn' = {}
                           /\ \A p, q \in PendingOwn' : p = q
                           /\ \A i \in Data : OnceInData(ImportRows[i]) => OnceAt(i)')
BY DEF OnceInv, OnceAt, Data, TableOf, KeyOf, OnceInData

LEMMA OnceQuiet ==
  ASSUME OnceInv, OwnQuiet, blind' = blind, imp' = imp \/ Starts'
  PROVE  OnceInv'
<1> SUFFICES ASSUME ~blind PROVE OnceInv'
  BY OnceInvIsNext
<1>1. /\ Reading => PendingOwn = {}
      /\ \A p, q \in PendingOwn : p = q
      /\ \A i \in Data : OnceInData(ImportRows[i]) => OnceAt(i)
  BY OnceInvIs
<1>2. PendingOwn' \subseteq PendingOwn
  BY DEF OwnQuiet
<1>3. \/ Reading' = Reading /\ imp' = imp
      \/ ~Reading' /\ \A n \in TableNames : ~Known(n)'
  <2>1. CASE imp' = imp
    BY <2>1 DEF Reading
  <2>2. CASE Starts'
    <3>1. \A p \in DOMAIN TableOrder : ~(p < 1)
      BY OrderTypes
    <3>. QED
      BY <2>2, <3>1 DEF Starts, Reading, Known
  <2>. QED
    BY <2>1, <2>2
<1>4. ASSUME NEW i \in Data, OnceAt(i) PROVE OnceAt(i)'
  <2>1. Found(i)' = Found(i) /\ TableOf(i) \in TableNames
    BY QuietFound, DataTypes
  <2>2. CASE imp' = imp
    BY <1>2, <1>4, <2>1, <2>2 DEF OnceAt, Known, Entry, Ahead, TableOf, KeyOf
  <2>3. CASE ~Known(TableOf(i))'
    BY <1>2, <1>4, <2>1, <2>3 DEF OnceAt, TableOf, KeyOf
  <2>. QED
    BY <1>3, <2>1, <2>2, <2>3 DEF TableOf
<1>. QED
  BY <1>1, <1>2, <1>3, <1>4, OnceInvIsNext

-----------------------------------------------------------------------------
(* Reading the index.                                                       *)

LEMMA ReadIsFound ==
  ASSUME rows \subseteq Row, IdsInv, NEW i \in Data
  PROVE  EntryIs(i, LastWith(RowsOf(TableOf(i)), KeyOf(i)))
<1>1. Read(RowsOf(TableOf(i)), KeyOf(i)) = Found(i)
  BY DEF Read, Found, RowsOf
<1>2. /\ \A r \in Found(i) : r.id # NoId
      /\ RowsOf(TableOf(i)) \subseteq rows
  BY DEF IdsInv, Found, RowsOf
<1>3. CASE Found(i) = {}
  BY <1>1, <1>2, <1>3, LastWithIs DEF EntryIs
<1>4. CASE Found(i) # {}
  BY <1>1, <1>2, <1>4, LastWithIs DEF EntryIs
<1>. QED
  BY <1>3, <1>4

(* The read of a table by an import that goes on knowing every row.         *)
ReadsAll(n) ==
  /\ ~blind /\ late = {}
  /\ \A i \in Data :
       Entry(i)' = IF TableOf(i) = n THEN LastWith(RowsOf(n), KeyOf(i)) ELSE Entry(i)
  /\ \A i \in Data : Known(TableOf(i))' /\ TableOf(i) # n => Known(TableOf(i))
  /\ imp'.phase \in {"index", "rows"} /\ imp'.next = IF imp'.phase = "rows" THEN 1 ELSE imp.next + 1
  /\ imp'.phase = "rows" => \A i \in Data : TableOf(i) # n => Known(TableOf(i))

LEMMA LoadReadsAll ==
  ASSUME BaseType, ImportOK, LoadIndex, ~blind'
  PROVE  /\ imp.phase = "index" /\ UNCHANGED <<baseVars, interrupted>>
         /\ ReadsAll(TableOrder[imp.next])
<1> DEFINE n == TableOrder[imp.next]
           read == IndexWith(n, RowsOf(n))
<1>1. /\ imp.phase = "index" /\ UNCHANGED <<baseVars, interrupted>>
      /\ n \in TableNames /\ imp.index \in Index /\ rows \subseteq Row
      /\ \E shown : /\ shown \subseteq RowsOf(n) /\ AfterIndex(IndexWith(n, shown))
                   /\ ~blind /\ ~Misses(n, shown)
  BY LoadIndexIs
<1>2. AfterIndex(read) /\ ~blind /\ late = {}
  BY <1>1 DEF Misses
<1>3. /\ read \in Index /\ \A k \in Keys : read[n][k] = LastWith(RowsOf(n), k)
      /\ \A m \in TableNames : m # n => read[m] = imp.index[m]
  BY <1>1, IndexTyped
<1>4. imp.next \in 1..Len(TableOrder) /\ imp \in Import
  BY <1>1, OrderTypes DEF ImportOK, NextFits, ImportType
<1> HIDE DEF read
<1>5. /\ imp'.index = read
      /\ \/ imp'.phase = "index" /\ imp'.next = imp.next + 1
         \/ imp'.phase = "rows" /\ imp'.next = 1 /\ imp.next = Len(TableOrder)
  BY <1>1, <1>2, <1>3, <1>4, AfterIndexIs DEF Import
<1>6. ASSUME NEW i \in Data
      PROVE  Entry(i)' = IF TableOf(i) = n THEN LastWith(RowsOf(n), KeyOf(i)) ELSE Entry(i)
  <2>1. TableOf(i) \in TableNames /\ KeyOf(i) \in Keys
    BY DataTypes
  <2>2. Entry(i)' = read[TableOf(i)][KeyOf(i)]
    BY <1>5 DEF Entry, TableOf, KeyOf
  <2>. QED
    BY <1>3, <2>1, <2>2 DEF Entry
<1>7. ASSUME NEW m \in TableNames, m # n, imp'.phase = "rows" \/ Known(m)'
      PROVE  Known(m)
  <2>1. PICK p \in 1..Len(TableOrder) : TableOrder[p] = m /\ p <= imp.next
    <3>1. CASE imp'.phase = "rows"
      BY <1>4, <1>5, <3>1, OrderTypes
    <3>2. CASE imp'.phase = "index"
      BY <1>4, <1>5, <1>7, <3>2, OrderTypes DEF Known
    <3>. QED
      BY <1>5, <3>1, <3>2
  <2>2. p # imp.next
    BY <1>7, <2>1
  <2>3. p < imp.next
    BY <1>4, <2>1, <2>2
  <2>. QED
    BY <1>1, <2>1, <2>3, OrderTypes DEF Known
<1>8. ASSUME NEW i \in Data, imp'.phase = "rows" \/ Known(TableOf(i))', TableOf(i) # n
       PROVE  Known(TableOf(i))
  <2>1. TableOf(i) \in TableNames /\ (imp'.phase = "rows" \/ Known(TableOf(i))')
    BY <1>8, DataTypes
  <2>. QED
    BY <1>7, <1>8, <2>1
<1>. QED
  BY <1>1, <1>2, <1>5, <1>6, <1>8 DEF ReadsAll

LEMMA OnceLoad ==
  ASSUME BaseType, ImportOK, RowsInv, OnceInv, LoadIndex
  PROVE  OnceInv'
<1> DEFINE n == TableOrder[imp.next]
<1>1. SUFFICES ASSUME ~blind' PROVE OnceInv'
  BY OnceInvIsNext
<1>2. IsFiniteSet(rows) /\ rows \subseteq Row
  BY DEF RowsInv, IdsInv, BaseType
<1>3. imp.phase = "index" /\ rows' = rows /\ late' = late /\ ReadsAll(n)
  BY <1>1, <1>2, LoadReadsAll DEF baseVars
<1> HIDE DEF n
<1>4. ~blind /\ PendingOwn' = {}
  BY <1>3 DEF ReadsAll, PendingOwn
<1>5. ASSUME NEW i \in Data, OnceInData(ImportRows[i]) PROVE OnceAt(i)'
  <2>1. /\ \A r, q \in Found(i) : r = q
        /\ Known(TableOf(i)) /\ Entry(i) = NoId /\ Ahead(i) => Found(i) = {}
    BY <1>4, <1>5, OnceInvIs DEF OnceAt
  <2>2. Found(i)' = Found(i)
    BY <1>3 DEF Found, TableOf, KeyOf
  <2>3. Ahead(i)
    BY <1>3 DEF Ahead
  <2>4. ASSUME Known(TableOf(i))', Entry(i)' = NoId PROVE Found(i) = {}
    <3>1. CASE TableOf(i) = n
      <4>1. LastWith(RowsOf(TableOf(i)), KeyOf(i)) = NoId
        BY <1>3, <2>4, <3>1 DEF ReadsAll
      <4>2. EntryIs(i, NoId)
        BY <1>2, <4>1, ReadIsFound DEF RowsInv
      <4>. QED
        BY <4>2 DEF EntryIs
    <3>2. CASE TableOf(i) # n
      BY <1>3, <2>1, <2>3, <2>4, <3>2 DEF ReadsAll
    <3>. QED
      BY <3>1, <3>2
  <2>. QED
    BY <1>4, <2>1, <2>2, <2>4 DEF OnceAt
<1>. QED
  BY <1>4, <1>5, OnceInvIsNext

-----------------------------------------------------------------------------
(* What a request for a row of the data does to the rows under a key.       *)

WritesOver(i, row, new) ==
  \E old \in Found(i) : /\ old.id = row.id /\ new.id = row.id
                        /\ Found(i)' = (Found(i) \ {old}) \cup {new}

LEMMA PutOnKey ==
  ASSUME NEW row, NEW new, NEW i \in Data,
         new.table = row.table, new.key = row.key,
         IF row.id = NoId THEN Adds(row, new) ELSE Replaces(row, new)
  PROVE  IF row.table = TableOf(i) /\ row.key = KeyOf(i)
         THEN IF row.id = NoId THEN Found(i)' = Found(i) \cup {new}
              ELSE WritesOver(i, row, new)
         ELSE Found(i)' = Found(i)
<1>1. Found(i)' = {r \in rows' : r.table = TableOf(i) /\ r.key = KeyOf(i)}
  BY DEF Found, TableOf, KeyOf
<1>2. CASE row.id = NoId
  <2>1. rows' = rows \cup {new}
    BY <1>2 DEF Adds
  <2>. QED
    BY <1>1, <1>2, <2>1 DEF Found
<1>3. CASE row.id # NoId
  <2>1. PICK old \in rows : /\ Alike(old, row) /\ Alike(new, row)
                            /\ rows' = (rows \ {old}) \cup {new}
    BY <1>3 DEF Replaces
  <2>2. /\ old.id = row.id /\ old.table = row.table /\ old.key = row.key
        /\ new.id = row.id
    BY <2>1 DEF Alike
  <2>3. CASE row.table = TableOf(i) /\ row.key = KeyOf(i)
    <3>1. old \in Found(i)
      BY <2>1, <2>2, <2>3 DEF Found
    <3>2. Found(i)' = (Found(i) \ {old}) \cup {new}
      BY <1>1, <2>1, <2>2, <2>3 DEF Found
    <3>. QED
      BY <1>3, <2>2, <2>3, <3>1, <3>2 DEF WritesOver
  <2>4. CASE ~(row.table = TableOf(i) /\ row.key = KeyOf(i))
    BY <1>1, <2>1, <2>2, <2>4 DEF Found
  <2>. QED
    BY <2>3, <2>4
<1>. QED
  BY <1>2, <1>3

(* A row that is added where there was none, or written over the only one,  *)
(* is the only one.                                                         *)
LEMMA OneAfterPut ==
  ASSUME NEW row, NEW new, NEW i \in Data,
         \A r, q \in Found(i) : r = q,
         row.id = NoId => Found(i) = {},
         IF row.id = NoId THEN Found(i)' = Found(i) \cup {new} ELSE WritesOver(i, row, new)
  PROVE  \A r, q \in Found(i)' : r = q
<1>1. Found(i)' = {new}
  BY DEF WritesOver
<1>. QED
  BY <1>1

LEMMA OnceIsOnce ==
  ASSUME NEW i \in Data, NEW m \in Data, OnceInData(ImportRows[i]), Same(i, m)
  PROVE  m = i
<1> DEFINE S == {j \in Data : Same(j, i)}
<1>1. Cardinality(S) = 1
  BY DEF OnceInData, Data, Same, TableOf, KeyOf
<1>2. IsFiniteSet(S)
  <2>1. IsFiniteSet(Data)
    BY DataTypes, FS_Interval
  <2>. QED
    BY <2>1, FS_Subset
<1>3. i \in S /\ m \in S
  BY DEF Same
<1> HIDE DEF S
<1>4. PICK x : S = {x}
  BY <1>1, <1>2, FS_Singleton
<1>. QED
  BY <1>3, <1>4

LEMMA OnceWrite ==
  ASSUME BaseType, ImportOK, RowsInv, OnceInv, WriteRow
  PROVE  OnceInv'
<1> DEFINE m == imp.next
           q == RowRequest(ImportRows[m])
<1>1. SUFFICES ASSUME ~blind PROVE OnceInv'
  BY OnceInvIsNext DEF WriteRow
<1>2. /\ imp.phase = "rows" /\ m \in Data /\ Accepted(q) /\ Serve(q)
      /\ late' = late /\ blind' = blind /\ AfterRow
  BY DEF WriteRow, CallSucceeds, ImportOK, NextFits
<1>3. /\ q \in Request /\ q.op = "upsert" /\ Proper(q)
      /\ q.row.table = TableOf(m) /\ q.row.key = KeyOf(m) /\ q.row.id = Entry(m)
  BY <1>2, RowRequestIs, RowRequestProper DEF ImportOK, RowsInv
<1> HIDE DEF q
<1>4. PICK new : /\ new.table = q.row.table /\ new.key = q.row.key
                 /\ IF q.row.id = NoId THEN Adds(q.row, new) ELSE Replaces(q.row, new)
  BY <1>2, <1>3, PutIs
<1>5. PendingOwn' = {}
  BY <1>1, <1>2, OnceInvIs DEF Reading, PendingOwn
<1>6. ASSUME NEW i \in Data, OnceInData(ImportRows[i]) PROVE OnceAt(i)'
  <2>1. /\ \A r, p \in Found(i) : r = p
        /\ Entry(i) = NoId /\ Ahead(i) => Found(i) = {}
    BY <1>1, <1>2, <1>6, OnceInvIs DEF OnceAt, Known
  <2>2. \/ imp'.phase = "idle"
        \/ imp'.phase = "rows" /\ imp'.next = m + 1 /\ imp'.index = imp.index
    BY <1>2, AfterRowIs, NotImportingType DEF ImportOK, ImportType, Import
  <2>3. i \in Nat /\ m \in Nat
    BY <1>2, DataTypes
  <2>4. Known(TableOf(i))' /\ Entry(i)' = NoId /\ Ahead(i)' =>
          imp'.phase = "rows" /\ m + 1 <= i /\ Entry(i) = NoId
    BY <2>2 DEF Known, Entry, Ahead, TableOf, KeyOf
  <2>5. CASE Same(i, m)
    <3>1. m = i
      BY <1>2, <1>6, <2>5, OnceIsOnce
    <3>2. /\ q.row.table = TableOf(i) /\ q.row.key = KeyOf(i)
          /\ q.row.id = NoId => Found(i) = {}
      BY <1>2, <1>3, <2>1, <2>3, <3>1 DEF Ahead
    <3>3. IF q.row.id = NoId THEN Found(i)' = Found(i) \cup {new}
          ELSE WritesOver(i, q.row, new)
      BY <1>4, <3>2, PutOnKey
    <3>4. \A r, p \in Found(i)' : r = p
      BY <2>1, <3>2, <3>3, OneAfterPut
    <3>5. ~(Known(TableOf(i))' /\ Entry(i)' = NoId /\ Ahead(i)')
      BY <2>3, <2>4, <3>1
    <3>. QED
      BY <1>5, <3>4, <3>5 DEF OnceAt
  <2>6. CASE ~Same(i, m)
    <3>1. Found(i)' = Found(i)
      BY <1>3, <1>4, <2>6, PutOnKey DEF Same
    <3>2. Known(TableOf(i))' /\ Entry(i)' = NoId /\ Ahead(i)' => Entry(i) = NoId /\ Ahead(i)
      BY <2>3, <2>4 DEF Ahead
    <3>. QED
      BY <1>5, <2>1, <3>1, <3>2 DEF OnceAt
  <2>. QED
    BY <2>5, <2>6
<1>. QED
  BY <1>5, <1>6, OnceInvIsNext

LEMMA OnceFails ==
  ASSUME BaseType, ImportOK, RowsInv, OnceInv, RowFails
  PROVE  OnceInv'
<1> DEFINE m == imp.next
           q == RowRequest(ImportRows[m])
<1>1. SUFFICES ASSUME ~blind PROVE OnceInv'
  BY OnceInvIsNext DEF RowFails
<1>2. /\ imp.phase = "rows" /\ m \in Data /\ rows' = rows
      /\ late' = late \/ late' = late \cup {q}
      /\ imp' = NotImporting
  BY DEF RowFails, CallFails, baseVars, ImportOK, NextFits
<1>3. /\ q.row.table = TableOf(m) /\ q.row.key = KeyOf(m) /\ q.row.id = Entry(m)
  BY <1>2, RowRequestIs DEF ImportOK
<1> HIDE DEF q
<1>4. PendingOwn' \subseteq {q}
  BY <1>1, <1>2, OnceInvIs DEF Reading, PendingOwn
<1>5. ~Reading' /\ \A n \in TableNames : ~Known(n)'
  BY <1>2, NotImportingType DEF Reading, Known
<1>6. ASSUME NEW i \in Data, OnceInData(ImportRows[i]) PROVE OnceAt(i)'
  <2>1. /\ \A r, p \in Found(i) : r = p
        /\ Entry(i) = NoId /\ Ahead(i) => Found(i) = {}
    BY <1>1, <1>2, <1>6, OnceInvIs DEF OnceAt, Known
  <2>2. Found(i)' = Found(i) /\ TableOf(i) \in TableNames
    BY <1>2, DataTypes DEF Found, TableOf, KeyOf
  <2>3. ASSUME q.row.table = TableOf(i), q.row.key = KeyOf(i), q.row.id = NoId
        PROVE  Found(i) = {}
    <3>1. m = i
      BY <1>2, <1>3, <1>6, <2>3, OnceIsOnce DEF Same
    <3>2. Ahead(i)
      BY <1>2, <3>1, DataTypes DEF Ahead
    <3>. QED
      BY <1>3, <2>1, <2>3, <3>1, <3>2
  <2>. QED
    BY <1>4, <1>5, <2>1, <2>2, <2>3 DEF OnceAt, TableOf, KeyOf
<1>. QED
  BY <1>4, <1>5, <1>6, OnceInvIsNext

LEMMA OnceLate ==
  ASSUME BaseType, ImportOK, SeedForm, RowsInv, OnceInv, LateArrives, UNCHANGED importVars
  PROVE  OnceInv'
<1>1. SUFFICES ASSUME ~blind PROVE OnceInv'
  BY OnceInvIsNext DEF importVars
<1>2. PICK q \in late : /\ late' = late \ {q}
                        /\ (Accepted(q) /\ Serve(q)) \/ UNCHANGED <<tables, rows>>
  BY DEF LateArrives
<1>3. q \in Request /\ Proper(q) /\ PendingOwn' \subseteq PendingOwn
  BY <1>2, LateIsProper DEF BaseType, RowsInv, PendingOwn
<1>4. CASE UNCHANGED <<tables, rows>>
  BY <1>3, <1>4, OnceQuiet DEF importVars, OwnQuiet, OwnRows, FreeIds
<1>5. CASE Accepted(q) /\ Serve(q) /\ q \notin PendingOwn
  <2>1. q.op = "upsert" => ~Own(q.row) /\ q.row.id = NoId
    <3>1. SUFFICES ASSUME q.op = "upsert" PROVE ~Own(q.row) /\ q.row.id = NoId
      OBVIOUS
    <3>2. ~Own(q.row)
      BY <1>2, <1>5, <3>1 DEF PendingOwn
    <3>. QED
      BY <1>2, <3>1, <3>2 DEF SeedForm, PendingSeeds
  <2>2. OwnQuiet
    BY <1>3, <1>5, <2>1, ForeignServed DEF OwnQuiet
  <2>. QED
    BY <2>2, OnceQuiet DEF importVars
<1>6. CASE Accepted(q) /\ Serve(q) /\ q \in PendingOwn
  <2>1. PendingOwn' = {} /\ q.op = "upsert"
    BY <1>1, <1>2, <1>6, OnceInvIs DEF PendingOwn
  <2>2. Starts
    BY <1>1, <1>6, OnceInvIs, NotReadingStarts
  <2>3. /\ imp' = imp /\ ~Reading' /\ \A n \in TableNames : ~Known(n)'
    BY <2>2, StartsKnowsNothing DEF importVars, Reading, Known
  <2>4. PICK new : /\ new.table = q.row.table /\ new.key = q.row.key
                   /\ IF q.row.id = NoId THEN Adds(q.row, new) ELSE Replaces(q.row, new)
    BY <1>3, <1>6, <2>1, PutIs
  <2>5. ASSUME NEW i \in Data, OnceInData(ImportRows[i]) PROVE OnceAt(i)'
    <3>1. /\ \A r, p \in Found(i) : r = p
          /\ q.row.table = TableOf(i) /\ q.row.key = KeyOf(i) /\ q.row.id = NoId
               => Found(i) = {}
      BY <1>1, <1>6, <2>5, OnceInvIs DEF OnceAt
    <3>2. IF q.row.table = TableOf(i) /\ q.row.key = KeyOf(i)
          THEN IF q.row.id = NoId THEN Found(i)' = Found(i) \cup {new}
               ELSE WritesOver(i, q.row, new)
          ELSE Found(i)' = Found(i)
      BY <2>4, PutOnKey
    <3>3. \A r, p \in Found(i)' : r = p
      <4>1. CASE q.row.table = TableOf(i) /\ q.row.key = KeyOf(i)
        BY <3>1, <3>2, <4>1, OneAfterPut
      <4>2. CASE ~(q.row.table = TableOf(i) /\ q.row.key = KeyOf(i))
        BY <3>1, <3>2, <4>2
      <4>. QED
        BY <4>1, <4>2
    <3>4. ~Known(TableOf(i))'
      BY <2>3, DataTypes DEF TableOf
    <3>. QED
      BY <2>1, <3>3, <3>4 DEF OnceAt
  <2>. QED
    BY <2>1, <2>3, <2>5, OnceInvIsNext
<1>. QED
  BY <1>2, <1>4, <1>5, <1>6

LEMMA OncePeople ==
  ASSUME ImportOK, OnceInv, People
  PROVE  OnceInv'
<1>1. SUFFICES ASSUME ~blind PROVE OnceInv'
  BY OnceInvIsNext DEF People, importVars
<1>2. /\ rows' \subseteq rows /\ PendingOwn' = {} /\ ~Reading'
      /\ \A n \in TableNames : ~Known(n)'
  BY DEF People, DeleteTable, ClearTable, importVars, PendingOwn, Reading, Known
<1>3. ASSUME NEW i \in Data, OnceInData(ImportRows[i]) PROVE OnceAt(i)'
  <2>1. \A r, q \in Found(i) : r = q
    BY <1>1, <1>3, OnceInvIs DEF OnceAt
  <2>2. Found(i)' \subseteq Found(i)
    BY <1>2 DEF Found, TableOf, KeyOf
  <2>3. ~Known(TableOf(i))'
    BY <1>2, DataTypes DEF TableOf
  <2>. QED
    BY <1>2, <2>1, <2>2, <2>3 DEF OnceAt
<1>. QED
  BY <1>2, <1>3, OnceInvIsNext

LEMMA ImportBegins ==
  ASSUME ImportOK,
         \/ StartImport \/ ListTables \/ ImportCrash \/ CreateTable
  PROVE  Starts' /\ blind' = blind
<1>1. imp \in Import
  BY DEF ImportOK, ImportType
<1>2. ASSUME imp' = NotImporting PROVE Starts'
  BY <1>2, NotImportingType DEF Starts
<1>3. ASSUME imp.phase \in {"list", "create"}, AfterTable PROVE Starts'
  BY <1>1, <1>3, AfterTableIs DEF Starts, Import
<1>4. CASE StartImport
  BY <1>4, NotImportingType DEF StartImport, Starts
<1>5. CASE ListTables
  BY <1>1, <1>3, <1>5 DEF ListTables, Starts, Import
<1>6. CASE CreateTable
  BY <1>2, <1>3, <1>6 DEF CreateTable
<1>7. CASE ImportCrash
  BY <1>2, <1>7 DEF ImportCrash
<1>. QED
  BY <1>4, <1>5, <1>6, <1>7

(* Everything but a row of the data is quiet for the data.                  *)
LEMMA BootIsQuiet ==
  ASSUME BootOK, RowsInv, NEW t \in Terminals, Bootstrapping(t)
  PROVE  OwnQuiet
BY BootCalls, RestIsOwnQuiet, ForeignCall

LEMMA BeginningIsQuiet ==
  ASSUME ImportOK, RowsInv, StartImport \/ ListTables \/ ImportCrash \/ CreateTable
  PROVE  OwnQuiet
<1>1. CASE CreateTable
  BY <1>1, CreateCalls, ForeignCall
<1>2. CASE StartImport \/ ListTables \/ ImportCrash
  BY <1>2, RestIsOwnQuiet DEF StartImport, ListTables, ImportCrash
<1>. QED
  BY <1>1, <1>2

LEMMA InitOnce == Init => OnceInv
<1> SUFFICES ASSUME Init PROVE OnceInv
  OBVIOUS
<1>1. rows = {} /\ late = {} /\ Starts
  BY NotImportingType DEF Init, BaseInit, ImportInit, Starts
<1>2. PendingOwn = {} /\ \A i \in Data : Found(i) = {}
  BY <1>1 DEF PendingOwn, Found
<1>. QED
  BY <1>2, OnceInvIs DEF OnceAt

LEMMA StepKeepsOnce ==
  Typed /\ SeedForm /\ RowsInv /\ OnceInv /\ [Next]_vars => OnceInv'
<1> SUFFICES ASSUME Typed, SeedForm, RowsInv, OnceInv, [Next]_vars PROVE OnceInv'
  OBVIOUS
<1>1. BaseType /\ BootOK /\ ImportOK
  BY DEF Typed, TypeOK, BootOK, ImportOK
<1>2. CASE \E t \in Terminals : Bootstrapping(t)
  BY <1>1, <1>2, BootIsQuiet, OnceQuiet DEF Bootstrapping, importVars
<1>3. CASE Importing
  <2>1. CASE StartImport \/ ListTables \/ CreateTable \/ ImportCrash
    BY <1>1, <2>1, ImportBegins, BeginningIsQuiet, OnceQuiet
  <2>2. CASE LoadIndex
    BY <1>1, <2>2, OnceLoad
  <2>3. CASE WriteRow
    BY <1>1, <2>3, OnceWrite
  <2>4. CASE RowFails
    BY <1>1, <2>4, OnceFails
  <2>. QED
    BY <1>3, <2>1, <2>2, <2>3, <2>4 DEF Importing, ImportStep
<1>4. CASE People
  BY <1>1, <1>4, OncePeople
<1>5. CASE LateArrives /\ UNCHANGED <<boot, importVars>>
  BY <1>1, <1>5, OnceLate
<1>6. CASE UNCHANGED vars
  BY <1>6, RestIsOwnQuiet, OnceQuiet DEF vars, importVars
<1>. QED
  BY <1>2, <1>3, <1>4, <1>5, <1>6 DEF Next

LEMMA OnceRow == OnceInv => OneRowPerKey
<1> SUFFICES ASSUME OnceInv, ~blind, NEW i \in Data, OnceInData(ImportRows[i])
             PROVE  Cardinality({q \in RowsOf(ImportRows[i].table) : q.key = ImportRows[i].key}) <= 1
  BY DEF OneRowPerKey, Data
<1>1. {q \in RowsOf(ImportRows[i].table) : q.key = ImportRows[i].key} = Found(i)
  BY DEF RowsOf, Found, TableOf, KeyOf
<1>2. \A r, q \in Found(i) : r = q
  BY OnceInvIs DEF OnceAt
<1>. QED
  BY <1>1, <1>2, AtMostOne

LEMMA RowsHold == Spec => [](Typed /\ SeedForm /\ RowsInv)
<1>1. Init => Typed /\ SeedForm /\ RowsInv
  BY InitTyped, InitForm, InitRows
<1>2. Typed /\ SeedForm /\ RowsInv /\ [Next]_vars => (Typed /\ SeedForm /\ RowsInv)'
  BY StepTyped, StepKeepsForm, StepKeepsRows
<1>. QED
  BY <1>1, <1>2, PTL DEF Spec

(* However often imports are run again after one that finished, stopped or  *)
(* left a request behind, a key that the data has once has one row at most, *)
(* as long as every import has known all the rows.                          *)
THEOREM OneRowForEachKey == Spec => []OneRowPerKey
<1>1. Init => OnceInv
  BY InitOnce
<1>2. Typed /\ SeedForm /\ RowsInv /\ OnceInv /\ [Next]_vars => OnceInv'
  BY StepKeepsOnce
<1>. QED
  BY <1>1, <1>2, RowsHold, OnceRow, PTL DEF Spec

-----------------------------------------------------------------------------
(* How the rows under one key grow and change as an import writes its rows. *)

LEMMA AddMore ==
  ASSUME NEW F, NEW F1, NEW new, NEW i \in Data, NEW m \in Data, Same(i, m), Added(F, i, m),
         \A q \in F : q.id \in Nat /\ q.id < new.id, new.id \in Nat,
         new.content = ContentOf(m), F1 = F \cup {new}
  PROVE  Added(F1, i, m + 1)
<1>1. Data \subseteq Nat
  BY DataTypes
<1>2. LastBefore(i, m, m + 1)
  BY <1>1 DEF LastBefore
<1>3. ASSUME NEW j \in 1..(m - 1), Same(i, j)
      PROVE  \E q \in F1 : q # new /\ q.content = ContentOf(j)
  <2>1. j \in Data /\ j < m
    BY DataTypes
  <2>2. ~NoneBefore(i, m)
    BY <1>1, <1>3, <2>1 DEF NoneBefore
  <2>3. PICK top \in F, l \in Data : LastBefore(i, l, m) /\ Stack(F, i, top, l, 1..(l - 1))
    BY <2>2 DEF Added
  <2>4. j <= l
    BY <1>3, <2>1, <2>3 DEF LastBefore
  <2>5. \E q \in F : q.content = ContentOf(j)
    <3>1. CASE j = l
      BY <2>3, <3>1 DEF Stack
    <3>2. CASE j # l
      <4>1. j \in 1..(l - 1)
        BY <1>1, <2>4, <3>2
      <4>. QED
        BY <1>3, <2>3, <4>1 DEF Stack
    <3>. QED
      BY <3>1, <3>2
  <2>. QED
    BY <2>5
<1>4. \A q \in F1 : q.id <= new.id
  OBVIOUS
<1>5. Stack(F1, i, new, m, 1..(m - 1))
  BY <1>3, <1>4 DEF Stack
<1>. QED
  BY <1>2, <1>5 DEF Added

LEMMA BeforeOther ==
  ASSUME NEW i \in Data, NEW m \in Data, ~Same(i, m)
  PROVE  /\ \A l \in Data : LastBefore(i, l, m) => LastBefore(i, l, m + 1)
         /\ NoneBefore(i, m) => NoneBefore(i, m + 1)
<1>1. Data \subseteq Nat
  BY DataTypes
<1>2. ASSUME NEW j \in Data, Same(i, j) PROVE j # m
  BY <1>2
<1>. QED
  BY <1>1, <1>2 DEF LastBefore, NoneBefore

LEMMA AddOther ==
  ASSUME NEW F, NEW i \in Data, NEW m \in Data, ~Same(i, m), Added(F, i, m)
  PROVE  Added(F, i, m + 1)
BY BeforeOther DEF Added

LEMMA UpdateMore ==
  ASSUME NEW F, NEW F1, NEW new, NEW old \in F, NEW id, NEW i \in Data, NEW m \in Data,
         Same(i, m), Updated(F, i, id, m),
         old.id = id, new.id = id, \A r, q \in F : r.id = q.id => r = q, id \in Nat,
         new.content = ContentOf(m), F1 = (F \ {old}) \cup {new}
  PROVE  Updated(F1, i, id, m + 1)
<1>1. Data \subseteq Nat
  BY DataTypes
<1>2. LastBefore(i, m, m + 1)
  BY <1>1 DEF LastBefore
<1>3. PICK l \in Data : Stack(F, i, old, l, Replaced)
  BY DEF Updated
<1>4. \A q \in F1 : q.id <= new.id
  BY <1>3 DEF Stack
<1>5. ASSUME NEW j \in Replaced, Same(i, j)
      PROVE  \E q \in F1 : q # new /\ q.content = ContentOf(j)
  <2>1. PICK q \in F : q # old /\ q.content = ContentOf(j)
    BY <1>3, <1>5 DEF Stack
  <2>2. q \in F1 /\ q # new
    BY <2>1
  <2>. QED
    BY <2>1, <2>2
<1>6. Stack(F1, i, new, m, Replaced)
  BY <1>4, <1>5 DEF Stack
<1>. QED
  BY <1>2, <1>6 DEF Updated

LEMMA UpdateOther ==
  ASSUME NEW F, NEW id, NEW i \in Data, NEW m \in Data, ~Same(i, m), Updated(F, i, id, m)
  PROVE  Updated(F, i, id, m + 1)
BY BeforeOther DEF Updated

(* After the last row of the data each of its rows is there.                *)
LEMMA AtTheEnd ==
  ASSUME NEW F, NEW i \in Data
  PROVE  /\ Added(F, i, Len(ImportRows) + 1) => Whole(F, i)
         /\ \A id : Updated(F, i, id, Len(ImportRows) + 1) => Whole(F, i)
<1> DEFINE m == Len(ImportRows) + 1
<1>1. Data \subseteq Nat /\ m \in Nat /\ \A j \in Data : j < m
  BY DataTypes
<1> HIDE DEF m
<1>2. ~NoneBefore(i, m)
  BY <1>1 DEF NoneBefore, Same
<1>3. \A l \in Data : LastBefore(i, l, m) => LastOf(i, l)
  BY <1>1 DEF LastBefore, LastOf
<1>4. ASSUME NEW top \in F, NEW l \in Data, LastBefore(i, l, m), Stack(F, i, top, l, 1..(l - 1))
      PROVE  Whole(F, i)
  <2>1. ASSUME NEW j \in Replaced, Same(i, j) PROVE j \in 1..(l - 1)
    <3>1. PICK k \in Data : Same(j, k) /\ j < k
      BY DEF Replaced
    <3>2. Same(i, k) /\ j \in Data
      BY <2>1, <3>1 DEF Same, Replaced
    <3>3. k <= l
      BY <1>3, <1>4, <3>2 DEF LastOf
    <3>. QED
      BY <1>1, <3>1, <3>2, <3>3, DataTypes
  <2>2. Stack(F, i, top, l, Replaced)
    BY <1>4, <2>1 DEF Stack
  <2>. QED
    BY <1>3, <1>4, <2>2 DEF Whole
<1>5. Added(F, i, m) => Whole(F, i)
  BY <1>2, <1>4 DEF Added
<1>6. ASSUME NEW id, Updated(F, i, id, m) PROVE Whole(F, i)
  BY <1>2, <1>3, <1>6 DEF Updated, Whole
<1>. QED
  BY <1>5, <1>6 DEF m

LEMMA WholeHas ==
  ASSUME NEW F, NEW i \in Data, Whole(F, i)
  PROVE  \E q \in F : q.content = ContentOf(i)
<1>1. PICK top \in F, l \in Data : LastOf(i, l) /\ Stack(F, i, top, l, Replaced)
  BY DEF Whole
<1>2. CASE i = l
  BY <1>1, <1>2 DEF Stack
<1>3. CASE i # l
  <2>1. i < l /\ Same(i, l) /\ Same(i, i)
    BY <1>1, <1>3, DataTypes DEF LastOf, Stack, Same
  <2>2. i \in Replaced
    BY <1>1, <2>1 DEF Replaced
  <2>. QED
    BY <1>1, <2>1, <2>2 DEF Stack
<1>. QED
  BY <1>2, <1>3

(* Before the first row of the data.                                        *)
LEMMA AtTheStart ==
  ASSUME NEW i \in Data, NEW entry, Settled(Found(i), i), EntryIs(i, entry),
         \A r \in Found(i) : r.id \in Nat,
         \A r, q \in Found(i) : r.id = q.id => r = q
  PROVE  IF entry = NoId THEN Added(Found(i), i, 1) /\ Below(i)
         ELSE Updated(Found(i), i, entry, 1)
<1>1. NoneBefore(i, 1)
  BY DataTypes DEF NoneBefore
<1>2. CASE entry = NoId
  BY <1>1, <1>2 DEF EntryIs, Added, Below
<1>3. CASE entry # NoId
  <2>1. PICK newest \in Found(i) :
          newest.id = entry /\ \A q \in Found(i) : q.id <= newest.id
    BY <1>3 DEF EntryIs
  <2>2. PICK top \in Found(i), l \in Data :
          LastOf(i, l) /\ Stack(Found(i), i, top, l, Replaced)
    BY <2>1 DEF Settled, Whole
  <2>3. top.id <= newest.id /\ newest.id <= top.id
    BY <2>1, <2>2 DEF Stack
  <2>4. top = newest
    BY <2>1, <2>2, <2>3
  <2>. QED
    BY <1>1, <1>3, <2>1, <2>2, <2>4 DEF Updated
<1>. QED
  BY <1>2, <1>3

-----------------------------------------------------------------------------
(* The steps of the import and the facts.                                   *)

(* FactsAt(i) in the next state, with F for what is then under the key.     *)
FactsNext(F, i) ==
  /\ imp'.phase # "rows" => Settled(F, i)
  /\ imp'.phase = "index" /\ Known(TableOf(i))' => EntryIs(i, Entry(i))'
  /\ imp'.phase = "rows" =>
       IF Entry(i)' = NoId THEN Added(F, i, imp'.next) /\ Below(i)'
       ELSE Updated(F, i, Entry(i)', imp'.next)

LEMMA FactsAtNext ==
  ASSUME NEW i \in Data, NEW F, F = Found(i)', FactsNext(F, i)
  PROVE  FactsAt(i)'
BY DEF FactsAt, FactsNext, Settled, Added, Updated, Whole, Stack, LastBefore, NoneBefore,
       LastOf, Same, Replaced, Data, TableOf, KeyOf, ContentOf

LEMMA FactsInvIsNext ==
  ASSUME ~blind' /\ ~interrupted' =>
           PendingOwn' = {} /\ \A i \in Data : \E F : F = Found(i)' /\ FactsNext(F, i)
  PROVE  FactsInv'
<1>1. Data' = Data
  BY DEF Data
<1>. QED
  BY <1>1, FactsAtNext DEF FactsInv

LEMMA FoundTyped ==
  ASSUME BaseType, IdsInv, NEW i \in Data
  PROVE  /\ \A r \in Found(i) : r.id \in Nat
         /\ \A r, q \in Found(i) : r.id = q.id => r = q
BY IdTypes DEF BaseType, IdsInv, Found, Row

LEMMA FactsQuiet ==
  ASSUME FactsInv, OwnQuiet, ~blind' => ~blind, ~interrupted' => ~interrupted,
         imp' = imp \/ (imp.phase # "rows" /\ Starts')
  PROVE  FactsInv'
<1>1. SUFFICES ASSUME ~blind, ~interrupted
      PROVE  PendingOwn' = {} /\ \A i \in Data : FactsNext(Found(i)', i)
  BY FactsInvIsNext
<1>2. PendingOwn' = {} /\ \A i \in Data : FactsAt(i)
  BY <1>1 DEF FactsInv, OwnQuiet
<1>3. ASSUME NEW i \in Data PROVE FactsNext(Found(i)', i)
  <2>1. /\ Found(i)' = Found(i) /\ FactsAt(i) /\ FreeIds' \subseteq FreeIds
        /\ TableOf(i) \in TableNames
    BY <1>2, QuietFound, DataTypes DEF OwnQuiet
  <2>2. Below(i) => Below(i)'
    BY <2>1 DEF Below
  <2>3. CASE imp' = imp
    <3>1. /\ Known(TableOf(i))' = Known(TableOf(i)) /\ Entry(i)' = Entry(i)
          /\ EntryIs(i, Entry(i))' = EntryIs(i, Entry(i))
      BY <2>1, <2>3 DEF Known, Entry, EntryIs, TableOf, KeyOf
    <3>. QED
      BY <2>1, <2>2, <2>3, <3>1 DEF FactsAt, FactsNext
  <2>4. CASE imp.phase # "rows" /\ Starts'
    <3>1. \A p \in DOMAIN TableOrder : ~(p < 1)
      BY OrderTypes
    <3>2. imp'.phase # "rows" /\ ~Known(TableOf(i))'
      BY <2>4, <3>1 DEF Starts, Known
    <3>. QED
      BY <2>1, <2>4, <3>2 DEF FactsAt, FactsNext
  <2>. QED
    BY <2>3, <2>4
<1>. QED
  BY <1>2, <1>3

LEMMA FactsLoad ==
  ASSUME BaseType, ImportOK, RowsInv, FactsInv, LoadIndex
  PROVE  FactsInv'
<1> DEFINE n == TableOrder[imp.next]
<1>1. SUFFICES ASSUME ~blind', ~interrupted'
      PROVE  PendingOwn' = {} /\ \A i \in Data : FactsNext(Found(i)', i)
  BY FactsInvIsNext
<1>2. IsFiniteSet(rows) /\ rows \subseteq Row /\ IdsInv
  BY DEF RowsInv, IdsInv, BaseType
<1>3. /\ imp.phase = "index" /\ UNCHANGED baseVars /\ interrupted' = interrupted
      /\ ReadsAll(n)
  BY <1>1, <1>2, LoadReadsAll
<1> HIDE DEF n
<1>4. ~blind /\ PendingOwn' = {} /\ ~interrupted
  BY <1>1, <1>3 DEF ReadsAll, PendingOwn, baseVars
<1>5. ASSUME NEW i \in Data PROVE FactsNext(Found(i)', i)
  <2>1. Settled(Found(i), i) /\ (Known(TableOf(i)) => EntryIs(i, Entry(i)))
    BY <1>3, <1>4 DEF FactsInv, FactsAt
  <2>2. Found(i)' = Found(i)
    BY <1>3 DEF Found, TableOf, KeyOf, baseVars
  <2>3. ASSUME Known(TableOf(i))' \/ imp'.phase = "rows"
        PROVE  EntryIs(i, Entry(i)')
    <3>1. CASE TableOf(i) = n
      BY <1>2, <1>3, <3>1, ReadIsFound DEF ReadsAll
    <3>2. CASE TableOf(i) # n
      BY <1>3, <2>1, <2>3, <3>2 DEF ReadsAll
    <3>. QED
      BY <3>1, <3>2
  <2>4. EntryIs(i, Entry(i))' <=> EntryIs(i, Entry(i)')
    BY <2>2 DEF EntryIs
  <2>5. CASE imp'.phase = "rows"
    <3>1. /\ \A r \in Found(i) : r.id \in Nat
          /\ \A r, q \in Found(i) : r.id = q.id => r = q
      BY <1>2, FoundTyped
    <3>2. IF Entry(i)' = NoId THEN Added(Found(i), i, 1) /\ Below(i)
          ELSE Updated(Found(i), i, Entry(i)', 1)
      BY <2>1, <2>3, <2>5, <3>1, AtTheStart
    <3>3. imp'.next = 1
      BY <1>3, <2>5 DEF ReadsAll
    <3>4. Below(i)' <=> Below(i)
      BY <1>3, <2>2 DEF Below, FreeIds, baseVars
    <3>. QED
      BY <2>2, <2>5, <3>2, <3>3, <3>4 DEF FactsNext
  <2>6. CASE imp'.phase # "rows"
    BY <2>1, <2>2, <2>3, <2>4, <2>6 DEF FactsNext
  <2>. QED
    BY <2>5, <2>6
<1>. QED
  BY <1>4, <1>5

(* What WriteRow does to each key: the rows after it, up to the row m + 1   *)
(* of the data.                                                             *)
LEMMA FactsWritten ==
  ASSUME BaseType, ImportOK, RowsInv, FactsInv, WriteRow, ~blind, ~interrupted
  PROVE  \A i \in Data : \E F :
           /\ F = Found(i)'
           /\ IF Entry(i) = NoId THEN Added(F, i, imp.next + 1) /\ Below(i)'
              ELSE Updated(F, i, Entry(i), imp.next + 1)
<1> DEFINE m == imp.next
           q == RowRequest(ImportRows[m])
<1>1. /\ imp.phase = "rows" /\ m \in Data /\ Accepted(q) /\ Serve(q)
  BY DEF WriteRow, CallSucceeds, ImportOK, NextFits
<1>2. /\ q \in Request /\ q.op = "upsert" /\ Proper(q) /\ Own(q.row)
      /\ q.row.table = TableOf(m) /\ q.row.key = KeyOf(m) /\ q.row.id = Entry(m)
      /\ q.row.content = ContentOf(m)
  BY <1>1, RowRequestIs, RowRequestProper DEF ImportOK, RowsInv
<1>3. \A i \in Data : IF Entry(i) = NoId THEN Added(Found(i), i, m) /\ Below(i)
                      ELSE Updated(Found(i), i, Entry(i), m)
  BY <1>1 DEF FactsInv, FactsAt
<1> HIDE DEF q, m
<1>4. FreeIds' \subseteq FreeIds
  BY <1>1, <1>2, FreeShrinks
<1>5. PICK new : /\ new.table = q.row.table /\ new.key = q.row.key
                 /\ new.content = q.row.content
                 /\ IF q.row.id = NoId THEN Adds(q.row, new) ELSE Replaces(q.row, new)
  BY <1>1, <1>2, PutIs
<1>6. ASSUME NEW i \in Data
      PROVE  IF Entry(i) = NoId THEN Added(Found(i)', i, m + 1) /\ Below(i)'
             ELSE Updated(Found(i)', i, Entry(i), m + 1)
  <2>1. /\ \A r \in Found(i) : r.id \in Nat
        /\ \A r, p \in Found(i) : r.id = p.id => r = p
    BY FoundTyped DEF RowsInv
  <2>2. CASE ~Same(i, m)
    <3>1. Found(i)' = Found(i)
      BY <1>2, <1>5, <2>2, PutOnKey DEF Same
    <3>2. Below(i) => Below(i)'
      BY <1>4, <3>1 DEF Below
    <3>. QED
      BY <1>1, <1>3, <2>2, <3>1, <3>2, AddOther, UpdateOther
  <2>3. CASE Same(i, m)
    <3>1. /\ q.row.table = TableOf(i) /\ q.row.key = KeyOf(i) /\ q.row.id = Entry(i)
      BY <1>2, <2>3 DEF Same, Entry
    <3>2. CASE Entry(i) = NoId
      <4>1. /\ Added(Found(i), i, m) /\ Below(i) /\ Found(i)' = Found(i) \cup {new}
            /\ Adds(q.row, new)
        BY <1>3, <1>5, <3>1, <3>2, PutOnKey
      <4>2. new.id \in FreeIds /\ new.id \notin FreeIds' /\ \A f \in FreeIds : new.id <= f
        BY <4>1 DEF Adds
      <4>3. FreeIds \subseteq Nat
        BY IdTypes DEF FreeIds
      <4>4. new.id \in Nat /\ \A r \in Found(i) : r.id \in Nat /\ r.id < new.id
        BY <2>1, <4>1, <4>2, <4>3 DEF Below
      <4>5. Added(Found(i)', i, m + 1)
        BY <1>1, <1>2, <1>5, <2>3, <4>1, <4>4, AddMore
      <4>6. ASSUME NEW r \in Found(i)', NEW f \in FreeIds' PROVE r.id < f
        <5>1. f \in FreeIds /\ f # new.id
          BY <1>4, <4>2, <4>6
        <5>2. new.id < f
          BY <4>2, <4>3, <4>4, <5>1
        <5>3. CASE r = new
          BY <5>2, <5>3
        <5>4. CASE r \in Found(i)
          BY <4>1, <5>1, <5>4 DEF Below
        <5>. QED
          BY <4>1, <4>6, <5>3, <5>4
      <4>7. Below(i)'
        BY <4>6 DEF Below
      <4>. QED
        BY <3>2, <4>5, <4>7
    <3>3. CASE Entry(i) # NoId
      <4>1. Updated(Found(i), i, Entry(i), m) /\ WritesOver(i, q.row, new)
        BY <1>3, <1>5, <3>1, <3>3, PutOnKey
      <4>2. PICK old \in Found(i) : /\ old.id = Entry(i) /\ new.id = Entry(i)
                                    /\ Found(i)' = (Found(i) \ {old}) \cup {new}
        BY <3>1, <4>1 DEF WritesOver
      <4>3. Entry(i) \in Nat
        BY <2>1, <4>2
      <4>4. Updated(Found(i)', i, Entry(i), m + 1)
        BY <1>1, <1>2, <1>5, <2>1, <2>3, <4>1, <4>2, <4>3, UpdateMore
      <4>. QED
        BY <3>3, <4>4
    <3>. QED
      BY <3>2, <3>3
  <2>. QED
    BY <2>2, <2>3
<1>. QED
  BY <1>6 DEF m

LEMMA FactsWrite ==
  ASSUME BaseType, ImportOK, RowsInv, FactsInv, WriteRow, ~blind, ~interrupted
  PROVE  /\ FactsInv'
         /\ imp'.phase # "rows" => \A i \in Data : \E F : F = Found(i)' /\ Whole(F, i)
<1>1. \A i \in Data :
        IF Entry(i) = NoId THEN Added(Found(i)', i, imp.next + 1) /\ Below(i)'
        ELSE Updated(Found(i)', i, Entry(i), imp.next + 1)
  BY FactsWritten
<1>2. PendingOwn' = {}
  BY DEF WriteRow, CallSucceeds, FactsInv, PendingOwn
<1>3. imp.phase = "rows" /\ imp \in Import /\ AfterRow
  BY DEF WriteRow, ImportOK, ImportType
<1>4. CASE imp' = [imp EXCEPT !.next = imp.next + 1]
  <2>1. imp'.phase = "rows" /\ imp'.next = imp.next + 1 /\ imp'.index = imp.index
    BY <1>3, <1>4 DEF Import
  <2>2. ASSUME NEW i \in Data PROVE FactsNext(Found(i)', i)
    <3>1. Entry(i)' = Entry(i)
      BY <2>1 DEF Entry, TableOf, KeyOf
    <3>. QED
      BY <1>1, <2>1, <3>1 DEF FactsNext
  <2>. QED
    BY <1>2, <2>1, <2>2, FactsInvIsNext
<1>5. CASE imp' = NotImporting /\ imp.next = Len(ImportRows)
  <2>1. imp'.phase = "idle"
    BY <1>5, NotImportingType
  <2>2. \A i \in Data : Whole(Found(i)', i)
    BY <1>1, <1>5, AtTheEnd
  <2>3. \A i \in Data : FactsNext(Found(i)', i)
    BY <2>1, <2>2 DEF FactsNext, Settled
  <2>. QED
    BY <1>2, <2>2, <2>3, FactsInvIsNext
<1>. QED
  BY <1>3, <1>4, <1>5, AfterRowIs

LEMMA FactsLate ==
  ASSUME BaseType, ImportOK, SeedForm, RowsInv, FactsInv, LateArrives, UNCHANGED importVars
  PROVE  FactsInv'
<1>1. SUFFICES ASSUME ~blind, ~interrupted PROVE FactsInv'
  BY FactsInvIsNext DEF importVars
<1>2. PICK q \in late : /\ late' = late \ {q}
                        /\ (Accepted(q) /\ Serve(q)) \/ UNCHANGED <<tables, rows>>
  BY DEF LateArrives
<1>3. q \in Request /\ q \notin PendingOwn /\ PendingOwn' \subseteq PendingOwn
  BY <1>1, <1>2 DEF BaseType, FactsInv, PendingOwn
<1>4. q.op = "upsert" => ~Own(q.row) /\ q.row.id = NoId
  <2>1. SUFFICES ASSUME q.op = "upsert" PROVE ~Own(q.row) /\ q.row.id = NoId
    OBVIOUS
  <2>2. ~Own(q.row)
    BY <1>2, <1>3, <2>1 DEF PendingOwn
  <2>. QED
    BY <1>2, <2>1, <2>2 DEF SeedForm, PendingSeeds
<1>5. OwnQuiet
  <2>1. CASE UNCHANGED <<tables, rows>>
    BY <1>3, <2>1 DEF OwnQuiet, OwnRows, FreeIds
  <2>2. CASE Accepted(q) /\ Serve(q)
    BY <1>3, <1>4, <2>2, ForeignServed DEF OwnQuiet
  <2>. QED
    BY <1>2, <2>1, <2>2
<1>. QED
  BY <1>5, FactsQuiet DEF importVars

LEMMA FactsPeople ==
  ASSUME FactsInv, People
  PROVE  FactsInv'
<1>1. SUFFICES ASSUME ~blind, ~interrupted
      PROVE  PendingOwn' = {} /\ \A i \in Data : FactsNext(Found(i)', i)
  BY FactsInvIsNext DEF People, importVars
<1>2. PICK n \in TableNames : rows' = rows \ RowsOf(n) /\ late' = {}
  BY DEF People, DeleteTable, ClearTable
<1>3. imp.phase = "idle" /\ imp' = imp /\ PendingOwn' = {}
  BY <1>2 DEF People, importVars, PendingOwn
<1>4. ASSUME NEW i \in Data PROVE FactsNext(Found(i)', i)
  <2>1. Found(i)' = {} \/ Found(i)' = Found(i)
    BY <1>2 DEF Found, RowsOf, TableOf, KeyOf
  <2>2. Settled(Found(i), i)
    BY <1>1, <1>3 DEF FactsInv, FactsAt
  <2>. QED
    BY <1>3, <2>1, <2>2 DEF FactsNext, Settled
<1>. QED
  BY <1>3, <1>4

LEMMA InitFacts == Init => FactsInv
<1> SUFFICES ASSUME Init PROVE FactsInv
  OBVIOUS
<1>1. rows = {} /\ late = {} /\ imp.phase = "idle"
  BY NotImportingType DEF Init, BaseInit, ImportInit
<1>2. PendingOwn = {} /\ \A i \in Data : Found(i) = {}
  BY <1>1 DEF PendingOwn, Found
<1>. QED
  BY <1>1, <1>2 DEF FactsInv, FactsAt, Settled

LEMMA StepKeepsFacts ==
  Typed /\ SeedForm /\ RowsInv /\ FactsInv /\ [Next]_vars => FactsInv'
<1> SUFFICES ASSUME Typed, SeedForm, RowsInv, FactsInv, [Next]_vars PROVE FactsInv'
  OBVIOUS
<1>1. BaseType /\ BootOK /\ ImportOK
  BY DEF Typed, TypeOK, BootOK, ImportOK
<1>2. CASE \E t \in Terminals : Bootstrapping(t)
  BY <1>1, <1>2, BootIsQuiet, FactsQuiet DEF Bootstrapping, importVars
<1>3. CASE Importing
  <2>1. CASE imp.phase # "rows" /\ (StartImport \/ ListTables \/ CreateTable \/ ImportCrash)
    <3>1. ~interrupted' => ~interrupted
      BY <2>1 DEF StartImport, ListTables, CreateTable, ImportCrash
    <3>. QED
      BY <1>1, <2>1, <3>1, ImportBegins, BeginningIsQuiet, FactsQuiet
  <2>2. CASE imp.phase = "rows" /\ (StartImport \/ ListTables \/ CreateTable)
    BY <2>2 DEF StartImport, ListTables, CreateTable
  <2>3. CASE RowFails \/ (ImportCrash /\ imp.phase = "rows")
    BY <2>3, FactsInvIsNext DEF RowFails, ImportCrash
  <2>4. CASE LoadIndex
    BY <1>1, <2>4, FactsLoad
  <2>5. CASE WriteRow
    <3>1. CASE ~blind /\ ~interrupted
      BY <1>1, <2>5, <3>1, FactsWrite
    <3>2. CASE blind \/ interrupted
      BY <2>5, <3>2, FactsInvIsNext DEF WriteRow
    <3>. QED
      BY <3>1, <3>2
  <2>. QED
    BY <1>3, <2>1, <2>2, <2>3, <2>4, <2>5 DEF Importing, ImportStep
<1>4. CASE People
  BY <1>4, FactsPeople
<1>5. CASE LateArrives /\ UNCHANGED <<boot, importVars>>
  BY <1>1, <1>5, FactsLate
<1>6. CASE UNCHANGED vars
  BY <1>6, RestIsOwnQuiet, FactsQuiet DEF vars, importVars
<1>. QED
  BY <1>2, <1>3, <1>4, <1>5, <1>6 DEF Next

(* Only the last row of the data ends an import that was not interrupted.   *)
AllThere ==
  (imp.phase = "rows" /\ imp'.phase = "idle" /\ ~interrupted' /\ ~blind) =>
    \A i \in DOMAIN ImportRows :
      \E q \in rows' : q.table = ImportRows[i].table /\ q.content = ImportRows[i].content

LEMMA EndHasFacts ==
  Typed /\ RowsInv /\ FactsInv /\ [Next]_vars => AllThere
<1> SUFFICES ASSUME Typed, RowsInv, FactsInv, [Next]_vars,
                    imp.phase = "rows", imp'.phase = "idle", ~interrupted', ~blind
             PROVE  \A i \in Data : \E q \in rows' :
                      q.table = TableOf(i) /\ q.content = ContentOf(i)
  BY DEF AllThere, Data, TableOf, ContentOf
<1>1. imp' # imp /\ ImportOK /\ BaseType
  BY DEF Typed, TypeOK, ImportOK
<1>2. WriteRow
  <2>1. Importing
    BY <1>1 DEF Next, Bootstrapping, People, vars, importVars
  <2>. QED
    BY <2>1 DEF Importing, ImportStep, StartImport, ListTables, CreateTable, LoadIndex,
                RowFails, ImportCrash
<1>3. ~interrupted
  BY <1>2 DEF WriteRow
<1>4. ASSUME NEW i \in Data
      PROVE  \E q \in rows' : q.table = TableOf(i) /\ q.content = ContentOf(i)
  <2>1. Whole(Found(i)', i)
    BY <1>1, <1>2, <1>3, FactsWrite
  <2>2. PICK q \in Found(i)' : q.content = ContentOf(i)
    BY <2>1, WholeHas
  <2>3. q \in rows' /\ q.table = TableOf(i)
    BY <2>2 DEF Found, TableOf
  <2>. QED
    BY <2>2, <2>3
<1>. QED
  BY <1>4

(* When an import ends that was not stopped, nor began after one that was,  *)
(* and knew all the rows, every row of its data is in the Base, those that  *)
(* share a key too.                                                         *)
THEOREM FactsAreKept == Spec => FactsKept
<1>1. Init => FactsInv
  BY InitFacts
<1>2. Typed /\ SeedForm /\ RowsInv /\ FactsInv /\ [Next]_vars => FactsInv'
  BY StepKeepsFacts
<1>3. Typed /\ RowsInv /\ FactsInv /\ [Next]_vars => AllThere
  BY EndHasFacts
<1>4. Spec => [][AllThere]_vars
  BY <1>1, <1>2, <1>3, RowsHold, PTL DEF Spec
<1>. QED
  BY <1>4 DEF FactsKept, AllThere
-----------------------------------------------------------------------------
(* What a step does to the set-up: tables keep their fields and rows stay.  *)

Full == {"complete", "several"}

Grows == Stay /\ \A n \in TableNames : tables[n] \in Full => tables'[n] \in Full

(* A seed is only sent into a set-up that is whole.                         *)
Sound(q) ==
  Proper(q) /\ (q.op = "upsert" /\ ~Own(q.row) => q.row.id = NoId /\ SeedSafe(q.row))

SeedsFit ==
  \A r \in rows' \ rows : r.key \in {DemoJob, DemoCandidate} =>
    /\ \A n \in TableNames : HasFields(n)
    /\ r.job # NoId => \E j \in rows : j.id = r.job /\ j.key = DemoJob

LEMMA LinkStays ==
  ASSUME Stay, NEW id, LinkHolds(id)
  PROVE  id # NoId => \E j \in rows' : j.id = id /\ j.key = DemoJob
BY DEF LinkHolds, Stay, Alike

LEMMA SafeStays ==
  ASSUME Grows, NEW row, SeedSafe(row)
  PROVE  SeedSafe(row)'
<1>1. \A n \in TableNames : tables'[n] \in Full
  BY DEF Grows, SeedSafe, AllSetUp, HasFields, Full
<1>2. row.job # NoId => \E j \in rows' : j.id = row.job /\ j.key = DemoJob
  BY LinkStays DEF Grows, SeedSafe
<1>. QED
  BY <1>1, <1>2 DEF SeedSafe, AllSetUp, HasFields, LinkHolds, Full

LEMMA LateStays ==
  ASSUME Grows, LateSafe, \A q \in PendingSeeds' : q \in PendingSeeds \/ SeedSafe(q.row)
  PROVE  LateSafe'
BY SafeStays DEF LateSafe

LEMMA ScriptStays ==
  ASSUME Grows, NEW t \in Terminals, ScriptSafe(t), boot'[t] = boot[t]
  PROVE  ScriptSafe(t)'
<1>1. \A n \in TableNames : PastFields(t, n)' => tables'[n] \in Full
  BY DEF PastFields, ScriptSafe, Grows, HasFields, Full
<1>2. boot[t].phase = "candidate" /\ boot[t].job # NoId =>
        \E j \in rows' : j.id = boot[t].job /\ j.key = DemoJob
  BY LinkStays DEF Grows, ScriptSafe
<1>. QED
  BY <1>1, <1>2 DEF ScriptSafe, HasFields, LinkHolds, Full

LEMMA OneScript ==
  ASSUME Grows, SeedInv, NEW t \in Terminals, ScriptSafe(t)',
         \A u \in Terminals \ {t} : boot'[u] = boot[u]
  PROVE  \A u \in Terminals : ScriptSafe(u)'
<1>1. ASSUME NEW u \in Terminals, u # t PROVE ScriptSafe(u)'
  BY <1>1, ScriptStays DEF SeedInv
<1>. QED
  BY <1>1

LEMMA ScriptsStay ==
  ASSUME Grows, SeedInv, boot' = boot
  PROVE  \A u \in Terminals : ScriptSafe(u)'
BY ScriptStays DEF SeedInv

(* Who is past the fields of every table, or of none.                       *)
LEMMA SeederIsPast ==
  ASSUME SeedInv, NEW t \in Terminals, boot[t].phase \in {"job", "candidate"}
  PROVE  AllSetUp
BY DEF SeedInv, ScriptSafe, PastFields, AllSetUp

LEMMA BeginnerIsSafe ==
  ASSUME NEW t \in Terminals, boot'[t].phase \in {"idle", "check", "setup"},
         boot'[t].phase # "check" => boot'[t].next = 1
  PROVE  ScriptSafe(t)'
<1>1. \A n \in TableNames : ~PastFields(t, n)'
  BY OrderTypes DEF PastFields
<1>. QED
  BY <1>1 DEF ScriptSafe

LEMMA BootEnds ==
  ASSUME BootOK, Grows, SeedInv, NEW t \in Terminals, Ends(t)
  PROVE  \A u \in Terminals : ScriptSafe(u)'
<1>1. boot'[t] = NotRunning /\ \A u \in Terminals \ {t} : boot'[u] = boot[u]
  BY DEF Ends, BootOK
<1>2. boot'[t].phase = "idle" /\ boot'[t].next = 1
  BY <1>1 DEF NotRunning
<1>. QED
  BY <1>1, <1>2, BeginnerIsSafe, OneScript

LEMMA CheckIsSafe ==
  ASSUME BootOK, Grows, SeedInv, NEW t \in Terminals,
         CheckTable(t) \/ (\E kind \in {"dry_run", "bootstrap"} : StartBootstrap(t, kind))
           \/ StartSeed(t) \/ BootCrash(t)
  PROVE  \A u \in Terminals : ScriptSafe(u)'
<1>1. CASE Ends(t)
  BY <1>1, BootEnds
<1>2. CASE /\ \A u \in Terminals \ {t} : boot'[u] = boot[u]
           /\ boot'[t].phase = "check" \/ (boot'[t].phase = "setup" /\ boot'[t].next = 1)
  BY <1>2, BeginnerIsSafe, OneScript
<1>3. CASE CheckTable(t)
  <2>1. boot[t].phase = "check" /\ \E status, shown : Checked(t, status, shown)
    BY <1>3 DEF CheckTable
  <2>2. \/ Ends(t)
        \/ boot' = [boot EXCEPT ![t].phase = "setup", ![t].next = 1]
        \/ \E blocked : boot' = [boot EXCEPT ![t].next = @ + 1, ![t].blocked = blocked]
    BY <2>1 DEF Checked
  <2>3. CASE boot' = [boot EXCEPT ![t].phase = "setup", ![t].next = 1]
    BY <1>2, <2>3 DEF BootOK, Bootstrap
  <2>4. CASE \E blocked : boot' = [boot EXCEPT ![t].next = @ + 1, ![t].blocked = blocked]
    BY <1>2, <2>1, <2>4 DEF BootOK, Bootstrap
  <2>. QED
    BY <1>1, <2>2, <2>3, <2>4
<1>4. CASE \E kind \in {"dry_run", "bootstrap"} : StartBootstrap(t, kind)
  BY <1>2, <1>4 DEF StartBootstrap, BootOK, Bootstrap
<1>5. CASE StartSeed(t)
  <2>1. boot[t].next = 1
    BY <1>5 DEF StartSeed, SeedInv, ScriptSafe
  <2>. QED
    BY <1>2, <1>5, <2>1 DEF StartSeed, BootOK, Bootstrap
<1>. QED
  BY <1>1, <1>3, <1>4, <1>5 DEF BootCrash

(* The next command of the set-up gets the script past the fields of one    *)
(* table at most.                                                           *)
LEMMA NextCommandGoes ==
  ASSUME BootOK, NEW t \in Terminals, boot[t].phase = "setup", NextCommand(t)
  PROVE  /\ \A u \in Terminals \ {t} : boot'[u] = boot[u]
         /\ boot'[t].phase \in {"setup", "job"}
         /\ \A n \in TableNames : PastFields(t, n)' =>
              \/ PastFields(t, n)
              \/ SetupCommand(boot[t].next) = [op |-> "fields", table |-> n]
<1> DEFINE i == boot[t].next
<1>1. i \in 1..2 * Len(TableOrder) /\ Len(TableOrder) \in Nat
  BY BootAt, OrderTypes DEF Steps
<1>2. /\ \A u \in Terminals \ {t} : boot'[u] = boot[u]
      /\ IF i < 2 * Len(TableOrder)
         THEN boot'[t].phase = "setup" /\ boot'[t].next = i + 1
         ELSE boot'[t].phase = "job"
  BY DEF NextCommand, BootOK, Bootstrap
<1>3. ASSUME NEW p \in 1..Len(TableOrder), 2 * p <= i
      PROVE  \/ PastFields(t, TableOrder[p])
             \/ SetupCommand(i) = [op |-> "fields", table |-> TableOrder[p]]
  <2>1. CASE 2 * p < i
    BY <1>3, <2>1, OrderTypes DEF PastFields
  <2>2. CASE 2 * p = i
    <3>1. i % 2 = 0 /\ (i + 1) \div 2 = p
      BY <2>2
    <3>. QED
      BY <3>1 DEF SetupCommand
  <2>. QED
    BY <1>1, <1>3, <2>1, <2>2
<1>4. ASSUME NEW n \in TableNames, PastFields(t, n)'
      PROVE  \E p \in 1..Len(TableOrder) : TableOrder[p] = n /\ 2 * p <= i
  <2>1. CASE i < 2 * Len(TableOrder)
    <3>1. PICK p \in DOMAIN TableOrder : TableOrder[p] = n /\ 2 * p < i + 1
      BY <1>2, <1>4, <2>1 DEF PastFields
    <3>. QED
      BY <1>1, <3>1, OrderTypes
  <2>2. CASE ~(i < 2 * Len(TableOrder))
    <3>1. PICK p \in 1..Len(TableOrder) : TableOrder[p] = n
      BY OrderTypes
    <3>. QED
      BY <1>1, <2>2, <3>1
  <2>. QED
    BY <2>1, <2>2
<1>. QED
  BY <1>1, <1>2, <1>3, <1>4

-----------------------------------------------------------------------------
(* What a sound request does.                                               *)

LEMMA ServedFits ==
  ASSUME BaseType, RowsInv, NEW q \in Request, Sound(q), Accepted(q), Serve(q)
  PROVE  /\ \A n \in TableNames : tables[n] \in Full => tables'[n] \in Full
         /\ SeedsFit
<1>1. CASE q.op # "upsert"
  <2>1. /\ rows' = rows /\ tables' = [tables EXCEPT ![q.table] = TableAfter(q)]
        /\ tables[q.table] \in Full => TableAfter(q) \in Full
    BY <1>1, TableServed DEF HasFields, Full
  <2>. QED
    BY <2>1 DEF SeedsFit, BaseType
<1>2. CASE q.op = "upsert"
  <2>1. q.row \in Row /\ Proper(q)
    BY <1>2, RequestTypes DEF Sound
  <2>2. tables' = tables
    BY <1>2, <2>1, UpsertServed
  <2>3. PICK new : /\ new.key = q.row.key /\ new.job = q.row.job
                   /\ \A r \in rows' \ rows : r = new
    BY <1>2, <2>1, PutIs DEF Adds, Replaces
  <2>4. ASSUME NEW r \in rows' \ rows, r.key \in Demo PROVE SeedSafe(r)
    <3>1. r.job = q.row.job /\ ~Own(q.row)
      BY <2>3, <2>4 DEF Own
    <3>2. SeedSafe(q.row)
      BY <1>2, <3>1 DEF Sound
    <3>. QED
      BY <3>1, <3>2 DEF SeedSafe
  <2>. QED
    BY <2>2, <2>4 DEF SeedsFit, SeedSafe, AllSetUp, LinkHolds, Demo
<1>. QED
  BY <1>1, <1>2

(* A step that leaves the Base alone.                                       *)
LEMMA RestFits ==
  ASSUME tables' = tables, rows' = rows
  PROVE  Grows /\ SeedsFit
BY DEF Grows, Stay, Alike, SeedsFit

LEMMA CallFits ==
  ASSUME BaseType, RowsInv, LateSafe, NEW q \in Request, Sound(q),
         CallSucceeds(q) \/ CallFails(q)
  PROVE  Grows /\ LateSafe' /\ SeedsFit
<1>1. Stay
  BY CallKeepsRows DEF Sound, RowsInv
<1>2. Grows /\ SeedsFit
  <2>1. CASE CallSucceeds(q)
    BY <1>1, <2>1, ServedFits DEF CallSucceeds, Grows
  <2>2. CASE CallFails(q)
    BY <2>2, RestFits DEF CallFails, baseVars
  <2>. QED
    BY <2>1, <2>2
<1>3. \A p \in PendingSeeds' : p \in PendingSeeds \/ p = q
  BY DEF CallSucceeds, CallFails, PendingSeeds, baseVars
<1>4. \A p \in PendingSeeds' : p \in PendingSeeds \/ SeedSafe(p.row)
  BY <1>3 DEF PendingSeeds, Sound
<1>. QED
  BY <1>2, <1>4, LateStays

LEMMA RestKeepsSeeds ==
  ASSUME LateSafe, UNCHANGED baseVars
  PROVE  Grows /\ LateSafe' /\ SeedsFit
<1>1. PendingSeeds' = PendingSeeds
  BY DEF PendingSeeds, baseVars
<1>. QED
  BY <1>1, RestFits, LateStays DEF baseVars

-----------------------------------------------------------------------------
(* The steps.                                                               *)

LEMMA SetupKeepsSeeds ==
  ASSUME BaseType, BootOK, RowsInv, SeedInv, NEW t \in Terminals,
         SetupSucceeds(t) \/ SetupFails(t)
  PROVE  SeedInv' /\ SeedsFit
<1> DEFINE q == SetupCommand(boot[t].next)
<1>1. q \in Request /\ q.op \in {"create", "fields"}
  BY BootAt, SetupCommandType
<1>2. Sound(q)
  BY <1>1 DEF Sound, Proper
<1>3. CallSucceeds(q) \/ CallFails(q)
  BY DEF SetupSucceeds, SetupFails
<1>4. Grows /\ LateSafe' /\ SeedsFit
  BY <1>1, <1>2, <1>3, CallFits DEF SeedInv
<1>5. CASE SetupFails(t)
  BY <1>4, <1>5, BootEnds DEF SetupFails, SeedInv
<1>6. CASE SetupSucceeds(t)
  <2>1. boot[t].phase = "setup" /\ NextCommand(t) /\ Accepted(q) /\ Serve(q)
    BY <1>6 DEF SetupSucceeds, CallSucceeds
  <2>2. /\ \A u \in Terminals \ {t} : boot'[u] = boot[u]
        /\ boot'[t].phase \in {"setup", "job"}
        /\ \A n \in TableNames : PastFields(t, n)' =>
             PastFields(t, n) \/ q = [op |-> "fields", table |-> n]
    BY <2>1, NextCommandGoes
  <2> HIDE DEF q
  <2>3. ASSUME NEW n \in TableNames, PastFields(t, n)' PROVE tables'[n] \in Full
    <3>1. CASE PastFields(t, n)
      BY <1>4, <3>1 DEF SeedInv, ScriptSafe, Grows, HasFields, Full
    <3>2. CASE q = [op |-> "fields", table |-> n]
      BY <1>1, <2>1, <3>2, TableServed DEF BaseType, Full
    <3>. QED
      BY <2>2, <2>3, <3>1, <3>2
  <2>4. ScriptSafe(t)'
    BY <2>2, <2>3 DEF ScriptSafe, HasFields, Full
  <2>. QED
    BY <1>4, <2>2, <2>4, OneScript DEF SeedInv
<1>. QED
  BY <1>5, <1>6

LEMMA JobKeepsSeeds ==
  ASSUME BaseType, BootOK, RowsInv, SeedInv, NEW t \in Terminals, SeedJob(t)
  PROVE  SeedInv' /\ SeedsFit
<1>1. boot[t].phase = "job" /\ (CallSucceeds(JobSeed) \/ CallFails(JobSeed))
  BY DEF SeedJob
<1>2. /\ JobSeed \in Request /\ JobSeed.op = "upsert" /\ JobSeed.row.key = DemoJob
      /\ JobSeed.row.id = NoId /\ JobSeed.row.job = NoId
  BY JobSeedIs
<1>3. Sound(JobSeed)
  BY <1>1, <1>2, SeederIsPast, DemoKeys DEF Sound, Proper, Fits, SeedSafe, LinkHolds, Own
<1>4. Grows /\ LateSafe' /\ SeedsFit
  BY <1>1, <1>2, <1>3, CallFits DEF SeedInv
<1>5. CASE Ends(t)
  BY <1>4, <1>5, BootEnds DEF SeedInv
<1>6. CASE /\ CallSucceeds(JobSeed)
           /\ boot' = [boot EXCEPT ![t].phase = "candidate",
                                   ![t].job = IF boot[t].kind = "seed" THEN NoId ELSE NewId]
  <2>1. /\ boot'[t].phase = "candidate" /\ boot'[t].job \in {NoId, NewId}
        /\ \A u \in Terminals \ {t} : boot'[u] = boot[u]
    BY <1>6 DEF BootOK, Bootstrap
  <2>2. \E j \in rows' : j.id = NewId /\ j.key = DemoJob
    <3>1. JobSeed.row \in Row
      BY <1>2, RequestTypes
    <3>2. Put(JobSeed.row, NewId)
      BY <1>2, <1>6, <3>1, UpsertServed DEF CallSucceeds
    <3>3. [JobSeed.row EXCEPT !.id = NewId].id = NewId
          /\ [JobSeed.row EXCEPT !.id = NewId].key = DemoJob
      BY <1>2, <3>1 DEF Row
    <3>. QED
      BY <3>2, <3>3 DEF Put
  <2>3. \A n \in TableNames : tables'[n] \in Full
    BY <1>1, <1>4, SeederIsPast DEF AllSetUp, Grows, HasFields, Full
  <2>4. boot'[t].job # NoId => \E j \in rows' : j.id = boot'[t].job /\ j.key = DemoJob
    BY <2>1, <2>2
  <2>5. ScriptSafe(t)'
    BY <2>1, <2>3, <2>4 DEF ScriptSafe, HasFields, LinkHolds, Full
  <2>. QED
    BY <1>4, <2>1, <2>5, OneScript DEF SeedInv
<1>. QED
  BY <1>5, <1>6 DEF SeedJob

LEMMA CandidateKeepsSeeds ==
  ASSUME BaseType, BootOK, RowsInv, SeedInv, NEW t \in Terminals, SeedCandidate(t)
  PROVE  SeedInv' /\ SeedsFit
<1> DEFINE q == CandidateSeed(boot[t].job)
<1>1. boot[t].phase = "candidate" /\ (CallSucceeds(q) \/ CallFails(q)) /\ Ends(t)
  BY DEF SeedCandidate
<1>2. /\ q \in Request /\ q.op = "upsert" /\ q.row.key = DemoCandidate
      /\ q.row.id = NoId /\ q.row.job = boot[t].job
  BY BootAt, CandidateSeedIs
<1>3. LinkHolds(boot[t].job) /\ AllSetUp
  BY <1>1, SeederIsPast DEF SeedInv, ScriptSafe
<1> HIDE DEF q
<1>4. Sound(q)
  BY <1>2, <1>3, DemoKeys DEF Sound, Proper, Fits, SeedSafe, Own
<1>5. Grows /\ LateSafe' /\ SeedsFit
  BY <1>1, <1>2, <1>4, CallFits DEF SeedInv
<1>. QED
  BY <1>1, <1>5, BootEnds DEF SeedInv

LEMMA BootKeepsSeeds ==
  ASSUME BaseType, BootOK, RowsInv, SeedInv, NEW t \in Terminals, Bootstrapping(t)
  PROVE  SeedInv' /\ SeedsFit
<1>1. CASE CheckTable(t) \/ (\E kind \in {"dry_run", "bootstrap"} : StartBootstrap(t, kind))
             \/ StartSeed(t) \/ BootCrash(t)
  <2>1. Grows /\ LateSafe' /\ SeedsFit
    BY <1>1, CheckTyped, RestKeepsSeeds DEF SeedInv
  <2>. QED
    BY <1>1, <2>1, CheckIsSafe DEF SeedInv
<1>. QED
  BY <1>1, SetupKeepsSeeds, JobKeepsSeeds, CandidateKeepsSeeds DEF Bootstrapping, BootStep

LEMMA ImportKeepsSeeds ==
  ASSUME BaseType, ImportOK, RowsInv, SeedInv, Importing
  PROVE  SeedInv' /\ SeedsFit
<1>1. boot' = boot /\ (StartImport \/ ImportStep \/ ImportCrash)
  BY DEF Importing
<1>2. CASE UNCHANGED baseVars
  BY <1>1, <1>2, RestKeepsSeeds, ScriptsStay DEF SeedInv
<1>3. CASE \E q \in Request : /\ q.op = "upsert" => Own(q.row) /\ Proper(q)
                              /\ CallSucceeds(q) \/ CallFails(q)
  <2>1. PICK q \in Request : /\ q.op = "upsert" => Own(q.row) /\ Proper(q)
                             /\ CallSucceeds(q) \/ CallFails(q)
    BY <1>3
  <2>2. Sound(q)
    BY <2>1 DEF Sound, Proper
  <2>. QED
    BY <1>1, <2>1, <2>2, CallFits, ScriptsStay DEF SeedInv
<1>. QED
  BY <1>1, <1>2, <1>3, ImportCalls DEF RowsInv

LEMMA PeopleKeepSeeds ==
  ASSUME SeedInv, People
  PROVE  SeedInv' /\ SeedsFit
<1>1. /\ rows' \subseteq rows /\ late' = {} /\ boot' = boot
      /\ \A t \in Terminals : boot[t].phase = "idle"
  BY DEF People, DeleteTable, ClearTable, BootIdle
<1>2. LateSafe' /\ SeedsFit
  BY <1>1 DEF LateSafe, PendingSeeds, SeedsFit
<1>3. ASSUME NEW t \in Terminals PROVE ScriptSafe(t)'
  <2>1. boot'[t].phase = "idle" /\ boot'[t].next = 1
    BY <1>1 DEF SeedInv, ScriptSafe
  <2>. QED
    BY <2>1, BeginnerIsSafe
<1>. QED
  BY <1>2, <1>3 DEF SeedInv

LEMMA LateKeepsSeeds ==
  ASSUME BaseType, SeedForm, RowsInv, SeedInv, LateArrives, boot' = boot
  PROVE  SeedInv' /\ SeedsFit
<1>1. PICK q \in late : /\ late' = late \ {q}
                        /\ (Accepted(q) /\ Serve(q)) \/ UNCHANGED <<tables, rows>>
  BY DEF LateArrives
<1>2. q \in Request /\ Proper(q)
  BY LateIsProper DEF BaseType, RowsInv
<1>3. Sound(q)
  BY <1>2 DEF Sound, SeedForm, SeedInv, LateSafe, PendingSeeds
<1>4. Grows /\ SeedsFit
  <2>1. Stay
    BY LateKeepsRows DEF RowsInv
  <2>. QED
    BY <1>1, <1>2, <1>3, <2>1, ServedFits, RestFits DEF Grows
<1>5. PendingSeeds' \subseteq PendingSeeds
  BY <1>1 DEF PendingSeeds
<1>. QED
  BY <1>4, <1>5, LateStays, ScriptsStay DEF SeedInv

LEMMA InitSeeds == Init => SeedInv
<1> SUFFICES ASSUME Init PROVE SeedInv
  OBVIOUS
<1>1. LateSafe
  BY DEF Init, BaseInit, LateSafe, PendingSeeds
<1>2. ASSUME NEW t \in Terminals PROVE ScriptSafe(t)
  <2>1. boot[t].phase = "idle" /\ boot[t].next = 1
    BY DEF Init, BootInit, NotRunning
  <2>. QED
    BY <2>1 DEF ScriptSafe, PastFields
<1>. QED
  BY <1>1, <1>2 DEF SeedInv

LEMMA StepKeepsSeeds ==
  Typed /\ SeedForm /\ RowsInv /\ SeedInv /\ [Next]_vars => SeedInv' /\ SeedsFit
<1> SUFFICES ASSUME Typed, SeedForm, RowsInv, SeedInv, [Next]_vars
             PROVE  SeedInv' /\ SeedsFit
  OBVIOUS
<1>1. BaseType /\ BootOK /\ ImportOK
  BY DEF Typed, TypeOK, BootOK, ImportOK
<1>2. CASE \E t \in Terminals : Bootstrapping(t)
  BY <1>1, <1>2, BootKeepsSeeds
<1>3. CASE Importing
  BY <1>1, <1>3, ImportKeepsSeeds
<1>4. CASE People
  BY <1>4, PeopleKeepSeeds
<1>5. CASE LateArrives /\ UNCHANGED <<boot, importVars>>
  BY <1>1, <1>5, LateKeepsSeeds
<1>6. CASE UNCHANGED vars
  BY <1>6, RestKeepsSeeds, ScriptsStay DEF vars, SeedInv
<1>. QED
  BY <1>2, <1>3, <1>4, <1>5, <1>6 DEF Next

(* A demo row only comes into a Base in which every table has its fields,   *)
(* and its link names a demo job that is there, for any number of scripts   *)
(* on any number of tables, whatever fails and whatever comes through late. *)
THEOREM SeedIntoWholeSetup == Spec => SeedFindsSetup
<1>1. Init => SeedInv
  BY InitSeeds
<1>2. Typed /\ SeedForm /\ RowsInv /\ SeedInv /\ [Next]_vars => SeedInv' /\ SeedsFit
  BY StepKeepsSeeds
<1>3. Spec => [][SeedsFit]_vars
  BY <1>1, <1>2, RowsHold, PTL DEF Spec
<1>. QED
  BY <1>3 DEF SeedFindsSetup, SeedsFit
=============================================================================
