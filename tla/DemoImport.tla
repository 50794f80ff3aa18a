----------------------------- MODULE DemoImport -----------------------------
(***************************************************************************)
(* scripts/import-competition-demo-base.ts: creates the tables that are    *)
(* missing, reads which keys each table has, then writes the rows of the   *)
(* competition data one by one, updating a row whose key it has read.  An  *)
(* import that stopped is run again.                                       *)
(***************************************************************************)
EXTENDS LiveBase

CONSTANTS
  ReadLimit,   \* rows that one read returns (--limit 200)
  ImportRows   \* table, key and content of the rows to write, in order

VARIABLES
  imp,          \* how far the import is
  blind,        \* history: an import went on without knowing all the rows
  interrupted   \* history: an import stopped among its rows

importVars == <<imp, blind, interrupted>>

(* The record id of each key, in each table.                                *)
Index == [TableNames -> [Keys -> Ids \cup {NoId}]]
EmptyIndex == [n \in TableNames |-> [k \in Keys |-> NoId]]

Import ==
  [phase : {"idle", "list", "create", "index", "rows"},
   next : 1..Len(TableOrder) \cup 1..Len(ImportRows), index : Index]

NotImporting == [phase |-> "idle", next |-> 1, index |-> EmptyIndex]

ImportType ==
  /\ imp \in Import
  /\ blind \in BOOLEAN
  /\ interrupted \in BOOLEAN

ImportInit ==
  /\ imp = NotImporting
  /\ blind = FALSE
  /\ interrupted = FALSE

StartImport ==
  /\ imp.phase = "idle"
  /\ imp' = [NotImporting EXCEPT !.phase = "list"]
  /\ UNCHANGED <<baseVars, blind, interrupted>>

-----------------------------------------------------------------------------
(* createTable: the list of tables, then the creation of the one missing.   *)
(* A list that fails counts as a Base without tables.                       *)

AfterTable ==
  IF imp.next < Len(TableOrder)
  THEN imp' = [imp EXCEPT !.phase = "list", !.next = @ + 1]
  ELSE imp' = [imp EXCEPT !.phase = "index", !.next = 1]

ListTables ==
  /\ imp.phase = "list"
  /\ \/ tables[TableOrder[imp.next]] # "missing" /\ AfterTable
     \/ imp' = [imp EXCEPT !.phase = "create"]
  /\ UNCHANGED <<baseVars, blind, interrupted>>

CreateTable ==
  LET request == [op |-> "create_with_fields", table |-> TableOrder[imp.next]]
  IN /\ imp.phase = "create"
     /\ \/ CallSucceeds(request) /\ AfterTable
        \/ CallFails(request) /\ imp' = NotImporting
     /\ UNCHANGED <<blind, interrupted>>

-----------------------------------------------------------------------------
(* loadExistingIndex: of rows with the same key the last one returned is    *)
(* kept.  A read that fails counts as an empty table.                       *)

LastWith(shown, key) ==
  LET found == {r \in shown : r.key = key}
  IN IF found = {} THEN NoId
     ELSE (CHOOSE r \in found : \A q \in found : q.id <= r.id).id

AfterIndex(index) ==
  IF imp.next < Len(TableOrder)
  THEN imp' = [imp EXCEPT !.next = @ + 1, !.index = index]
  ELSE imp' = [imp EXCEPT !.phase = "rows", !.next = 1, !.index = index]

(* What the import knows of table n once it has been shown these rows.      *)
IndexWith(n, shown) == [imp.index EXCEPT ![n] = [k \in Keys |-> LastWith(shown, k)]]

Misses(n, shown) == late # {} \/ shown # RowsOf(n)

(* An import that does not look at the rows the last table but one has. *)
LoadIndexButLast ==
  LET n == TableOrder[imp.next]
  IN /\ imp.phase = "index"
     /\ \/ \E shown \in Listings(n, ReadLimit) :
             /\ AfterIndex(IF imp.next = Len(TableOrder) - 1
                           THEN imp.index ELSE IndexWith(n, shown))
             /\ blind' = (blind \/ Misses(n, shown))
        \/ /\ AfterIndex(imp.index)
           /\ blind' = TRUE
     /\ UNCHANGED <<baseVars, interrupted>>

LoadIndex ==
  LET n == TableOrder[imp.next]
  IN /\ imp.phase = "index"
     /\ \/ \E shown \in Listings(n, ReadLimit) :
             /\ AfterIndex(IndexWith(n, shown))
             /\ blind' = (blind \/ Misses(n, shown))
        \/ /\ AfterIndex(imp.index)
           /\ blind' = TRUE
     /\ UNCHANGED <<baseVars, interrupted>>

-----------------------------------------------------------------------------
(* upsertWithKey.  The index is the one read at the start: a row written by *)
(* this import is not in it.                                                *)

RowRequest(r) ==
  [op |-> "upsert",
   row |-> [table |-> r.table, id |-> imp.index[r.table][r.key], key |-> r.key,
            content |-> r.content, job |-> NoId]]

(* An import that keeps the index up to date with the rows it adds. *)
AfterRowIndexed ==
  LET r == ImportRows[imp.next]
  IN IF imp.next < Len(ImportRows)
     THEN imp' = [imp EXCEPT !.next = @ + 1,
                             !.index[r.table][r.key] = IF @ = NoId THEN NewId ELSE @]
     ELSE imp' = NotImporting

AfterRow ==
  IF imp.next < Len(ImportRows)
  THEN imp' = [imp EXCEPT !.next = @ + 1]
  ELSE imp' = NotImporting

WriteRow ==
  /\ imp.phase = "rows"
  /\ CallSucceeds(RowRequest(ImportRows[imp.next]))
  /\ AfterRow
  /\ UNCHANGED <<blind, interrupted>>

RowFails ==
  /\ imp.phase = "rows"
  /\ CallFails(RowRequest(ImportRows[imp.next]))
  /\ imp' = NotImporting
  /\ interrupted' = TRUE
  /\ UNCHANGED blind

(* An output that is no JSON, or the script killed, between two calls.      *)
ImportCrash ==
  /\ imp.phase # "idle"
  /\ imp' = NotImporting
  /\ interrupted' = (interrupted \/ imp.phase = "rows")
  /\ UNCHANGED <<baseVars, blind>>

ImportStep == ListTables \/ CreateTable \/ LoadIndex \/ WriteRow \/ RowFails
=============================================================================
