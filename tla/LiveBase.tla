------------------------------ MODULE LiveBase ------------------------------
(***************************************************************************)
(* The Feishu Base as the set-up scripts meet it: tables that are created, *)
(* get their fields and then take rows, through lark-cli calls (spawnSync  *)
(* with a timeout) that succeed, are refused, or are given up while the    *)
(* request is still under way.  The Base is external: it is modelled from  *)
(* how base/live-bootstrap.ts, base/lark-cli-runner.ts and                 *)
(* import-competition-demo-base.ts use it.                                 *)
(***************************************************************************)
EXTENDS Naturals, Sequences, FiniteSets

CONSTANTS
  TableOrder,   \* the tables in the order the scripts create them (ALL_TABLES)
  Keys,         \* business keys of rows
  Contents,     \* what a row says beside its key
  NoContent,    \* a row whose contents do not matter
  MaxIds,       \* bound on the record ids in use at a time
  MaxLate       \* bound on the requests given up and still under way

ASSUME BaseAssumption ==
  /\ TableOrder \in Seq({TableOrder[i] : i \in DOMAIN TableOrder})
  /\ Len(TableOrder) > 0
  /\ \A i, j \in DOMAIN TableOrder : TableOrder[i] = TableOrder[j] => i = j
  /\ MaxIds \in Nat
  /\ MaxLate \in Nat
  /\ NoContent \notin Contents

VARIABLES
  tables,   \* of each name, whether it has a table, with its fields, or several
  rows,     \* the rows of all tables
  late      \* requests that were given up and are still under way

baseVars == <<tables, rows, late>>

TableNames == {TableOrder[i] : i \in DOMAIN TableOrder}
NoId == 0
Ids == 1..MaxIds

(* id is NoId in a request for a new row; job is the id of the linked job.  *)
Row ==
  [table : TableNames, id : Ids \cup {NoId}, key : Keys,
   content : Contents \cup {NoContent}, job : Ids \cup {NoId}]

Request ==
  [op : {"create", "fields", "create_with_fields"}, table : TableNames]
    \cup [op : {"upsert"}, row : Row]

(* One table, with or without its fields, or several of the same name, none *)
(* or at least one of them with its fields.                                 *)
TableState == {"missing", "bare", "complete", "several_bare", "several"}

BaseType ==
  /\ tables \in [TableNames -> TableState]
  /\ rows \subseteq Row
  /\ late \subseteq Request

BaseInit ==
  /\ tables = [n \in TableNames |-> "missing"]
  /\ rows = {}
  /\ late = {}

(* Record ids never come back: a new row gets one that nothing knows of.    *)
FreeIds == Ids \ ({r.id : r \in rows} \cup {r.job : r \in rows})
NewId == CHOOSE i \in FreeIds : \A j \in FreeIds : i <= j

RowsOf(n) == {r \in rows : r.table = n}

(* The first rows of a table, oldest first.                                 *)
FirstRows(n, limit) ==
  {r \in RowsOf(n) : Cardinality({q \in RowsOf(n) : q.id < r.id}) < limit}

(* What one read of at most limit rows may return: a name that several      *)
(* tables have stands for any one of them.                                  *)
Listings(n, limit) ==
  IF tables[n] = "several"
  THEN {shown \in SUBSET RowsOf(n) : Cardinality(shown) <= limit}
  ELSE {FirstRows(n, limit)}

-----------------------------------------------------------------------------
(* What the Base can do with a request.  A creation is never bound to fail: *)
(* a name it has gets a second table (the repeated creation that            *)
(* docs/operations-runbook.md:66 and live-e2e-runbook.ts:159 warn of), or   *)
(* the call is refused, which CallFails allows of any call.  It takes no    *)
(* fields for a table that is missing, no row that no table of the name has *)
(* the fields for, and no update of a row that is gone.                     *)

HasFields(n) == tables[n] \in {"complete", "several"}

Accepted(request) ==
  \/ request.op \in {"create", "create_with_fields"}
  \/ request.op = "fields" /\ tables[request.table] # "missing"
  \/ /\ request.op = "upsert"
     /\ HasFields(request.row.table)
     /\ IF request.row.id = NoId
        THEN FreeIds # {}
        ELSE \E r \in RowsOf(request.row.table) : r.id = request.row.id

TableAfter(request) ==
  LET was == tables[request.table]
  IN CASE request.op = "fields" ->
            IF was \in {"bare", "complete"} THEN "complete" ELSE "several"
       [] request.op = "create" ->
            IF was = "missing" THEN "bare"
            ELSE IF HasFields(request.table) THEN "several" ELSE "several_bare"
       [] request.op = "create_with_fields" ->
            IF was = "missing" THEN "complete" ELSE "several"

Serve(request) ==
  IF request.op = "upsert"
  THEN LET id == IF request.row.id = NoId THEN NewId ELSE request.row.id
       IN /\ rows' = {r \in rows : r.id # id} \cup {[request.row EXCEPT !.id = id]}
          /\ UNCHANGED tables
  ELSE /\ tables' = [tables EXCEPT ![request.table] = TableAfter(request)]
       /\ UNCHANGED rows

-----------------------------------------------------------------------------
(* How a lark-cli call ends for the script: exit code 0, or failed.  A call *)
(* killed by its timeout has failed too, and its request may come through.  *)

CallSucceeds(request) ==
  /\ Accepted(request)
  /\ Serve(request)
  /\ UNCHANGED late

CallFails(request) ==
  \/ UNCHANGED baseVars
  \/ /\ Cardinality(late) < MaxLate
     /\ late' = late \cup {request}
     /\ UNCHANGED <<tables, rows>>

(* A request given up comes through, if the Base can still take it, or not. *)
LateArrives ==
  \E request \in late :
    /\ late' = late \ {request}
    /\ \/ Accepted(request) /\ Serve(request)
       \/ UNCHANGED <<tables, rows>>

(* People delete the tables of a name to start again, when nothing is under *)
(* way.                                                                     *)
DeleteTable(n) ==
  /\ late = {}
  /\ tables[n] # "missing"
  /\ tables' = [tables EXCEPT ![n] = "missing"]
  /\ rows' = rows \ RowsOf(n)
  /\ UNCHANGED late

(* People empty the tables of a name, as the preflight asks them to         *)
(* (人工清空).                                                              *)
ClearTable(n) ==
  /\ late = {}
  /\ RowsOf(n) # {}
  /\ rows' = rows \ RowsOf(n)
  /\ UNCHANGED <<tables, late>>
=============================================================================
