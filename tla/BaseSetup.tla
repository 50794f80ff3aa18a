------------------------------ MODULE BaseSetup ------------------------------
(***************************************************************************)
(* Operators set up one Base: bootstraps and seed scripts in several       *)
(* terminals and one import at a time, while people delete and empty       *)
(* tables between them.                                                    *)
(***************************************************************************)
EXTENDS LiveBootstrap, DemoImport

CONSTANT
  MaxScripts   \* bound on the scripts that run at once

vars == <<baseVars, boot, importVars>>

ASSUME SetupAssumption ==
  /\ {JobTable, CandidateTable} \subseteq TableNames
  /\ JobTable # CandidateTable
  /\ {DemoJob, DemoCandidate} \subseteq Keys
  /\ DemoJob # DemoCandidate
  /\ ReadLimit \in Nat
  /\ MaxScripts \in Nat
  /\ ImportRows \in Seq([table : TableNames, key : Keys \ {DemoJob, DemoCandidate},
                         content : Contents \cup {NoContent}])
  /\ Len(ImportRows) > 0

(* What the Base holds and where each script is, in every state.            *)
TypeOK ==
  /\ BaseType
  /\ boot \in [Terminals -> Bootstrap]
  /\ ImportType

Running ==
  Cardinality({t \in Terminals : boot[t].phase # "idle"})
    + (IF imp.phase = "idle" THEN 0 ELSE 1)

Init == BaseInit /\ BootInit /\ ImportInit

Bootstrapping(t) ==
  /\ \/ /\ Running < MaxScripts
        /\ \/ \E kind \in {"dry_run", "bootstrap"} : StartBootstrap(t, kind)
           \/ StartSeed(t)
     \/ BootStep(t)
     \/ BootCrash(t)
  /\ UNCHANGED importVars

Importing ==
  /\ \/ Running < MaxScripts /\ ~blind /\ StartImport
     \/ ImportStep
     \/ ImportCrash
  /\ UNCHANGED boot

People ==
  /\ BootIdle
  /\ imp.phase = "idle"
  /\ \E n \in TableNames : DeleteTable(n) \/ ClearTable(n)
  /\ UNCHANGED <<boot, importVars>>

Next ==
  \/ \E t \in Terminals : Bootstrapping(t)
  \/ Importing
  \/ People
  \/ LateArrives /\ UNCHANGED <<boot, importVars>>

Spec == Init /\ [][Next]_vars

-----------------------------------------------------------------------------
(* A demo row only comes into a Base whose set-up is whole, every table     *)
(* there with its fields, and a demo candidate that names a job names a     *)
(* demo job that is there: through other scripts at work on the same        *)
(* tables, calls that fail or time out half-way, and seeds that come        *)
(* through long after their script has gone.                                *)
SeedFindsSetup ==
  [][ \A r \in rows' \ rows : r.key \in {DemoJob, DemoCandidate} =>
        /\ \A n \in TableNames : HasFields(n)
        /\ r.job # NoId => \E j \in rows : j.id = r.job /\ j.key = DemoJob
    ]_vars

(* Importing again, after an import that finished or one that stopped       *)
(* anywhere, adds no second row for a key that the data has once, as long   *)
(* as the reads of its index worked and showed every row.                   *)
OnceInData(r) ==
  Cardinality({i \in DOMAIN ImportRows :
                 ImportRows[i].table = r.table /\ ImportRows[i].key = r.key}) = 1

OneRowPerKey ==
  blind \/ \A i \in DOMAIN ImportRows :
             LET r == ImportRows[i]
             IN OnceInData(r) =>
                  Cardinality({q \in RowsOf(r.table) : q.key = r.key}) <= 1

(* When an import ends, every resume fact it counts in its summary is in    *)
(* the Base, though the facts of a candidate share one key -- unless an     *)
(* earlier import stopped among its rows or the index was not complete:     *)
(* then two facts are written over the same row, and one is lost.           *)
FactsKept ==
  [][ (imp.phase = "rows" /\ imp'.phase = "idle" /\ ~interrupted' /\ ~blind) =>
      \A i \in DOMAIN ImportRows :
        \E q \in rows' : q.table = ImportRows[i].table /\ q.content = ImportRows[i].content
    ]_vars
=============================================================================
