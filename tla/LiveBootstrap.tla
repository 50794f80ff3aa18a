--------------------------- MODULE LiveBootstrap ---------------------------
(***************************************************************************)
(* pnpm base:bootstrap (scripts/bootstrap-live-base.ts,                    *)
(* base/live-bootstrap.ts): a preflight that reads every table, the set-up *)
(* plan that creates every table and its fields, then the demo job and the *)
(* demo candidate linked to it.  And pnpm base:seed (scripts/seed-base.ts), *)
(* which runs the set-up plan and the two demo rows as one plan, without a *)
(* preflight and without the link.  Several operators may run them at once. *)
(***************************************************************************)
EXTENDS LiveBase

CONSTANTS
  Terminals,      \* where operators run the script
  JobTable,       \* the table of jobs
  CandidateTable, \* the table of candidates
  DemoJob,        \* key of the demo job (DEMO_JOB_ID)
  DemoCandidate   \* key of the demo candidate (DEMO_CANDIDATE_ID)

VARIABLE
  boot        \* of each terminal, how far its script is

Steps == 1..2 * Len(TableOrder)

(* next is the table to check, or the command of the set-up plan to run.    *)
Bootstrap ==
  [phase : {"idle", "check", "setup", "job", "candidate"},
   kind : {"dry_run", "bootstrap", "seed"},
   next : Steps, blocked : BOOLEAN, job : Ids \cup {NoId}]

NotRunning ==
  [phase |-> "idle", kind |-> "dry_run", next |-> 1, blocked |-> FALSE, job |-> NoId]

BootInit == boot = [t \in Terminals |-> NotRunning]

BootIdle == \A t \in Terminals : boot[t].phase = "idle"

Ends(t) == boot' = [boot EXCEPT ![t] = NotRunning]

StartBootstrap(t, kind) ==
  /\ boot[t].phase = "idle"
  /\ boot' = [boot EXCEPT ![t].phase = "check", ![t].kind = kind]
  /\ UNCHANGED baseVars

(* A seed script without --execute only prints its plan.                    *)
StartSeed(t) ==
  /\ boot[t].phase = "idle"
  /\ boot' = [boot EXCEPT ![t].phase = "setup", ![t].kind = "seed"]
  /\ UNCHANGED baseVars

-----------------------------------------------------------------------------
(* The preflight: one read of each table, going on after a read that fails. *)

(* How a read ends: a table that is there may be taken for missing, when    *)
(* the text of the failure has one of the words of isMissingTableResult.    *)
ReadStatus(n) ==
  {"missing", "failed"} \cup (IF tables[n] = "missing" THEN {} ELSE {"ok"})

Blocks(status, shown) == status = "failed" \/ (status = "ok" /\ shown # {})

(* A dry run, and a run the preflight blocks, end with the last check.      *)
Checked(t, status, shown) ==
  LET b == boot[t]
      blocked == b.blocked \/ Blocks(status, shown)
  IN IF b.next < Len(TableOrder)
     THEN boot' = [boot EXCEPT ![t].next = @ + 1, ![t].blocked = blocked]
     ELSE IF b.kind = "dry_run" \/ blocked
     THEN Ends(t)
     ELSE boot' = [boot EXCEPT ![t].phase = "setup", ![t].next = 1]

CheckTable(t) ==
  LET n == TableOrder[boot[t].next]
  IN /\ boot[t].phase = "check"
     /\ \E status \in ReadStatus(n), shown \in Listings(n, 1) : Checked(t, status, shown)
     /\ UNCHANGED baseVars

-----------------------------------------------------------------------------
(* The set-up plan: of each table its creation, then its fields.            *)

SetupCommand(i) ==
  [op |-> IF i % 2 = 1 THEN "create" ELSE "fields", table |-> TableOrder[(i + 1) \div 2]]

NextCommand(t) ==
  IF boot[t].next < 2 * Len(TableOrder)
  THEN boot' = [boot EXCEPT ![t].next = @ + 1]
  ELSE boot' = [boot EXCEPT ![t].phase = "job"]

SetupSucceeds(t) ==
  /\ boot[t].phase = "setup"
  /\ CallSucceeds(SetupCommand(boot[t].next))
  /\ NextCommand(t)

(* A set-up that goes on to the next command after one that failed. *)
SetupGoesOn(t) ==
  /\ boot[t].phase = "setup"
  /\ CallFails(SetupCommand(boot[t].next))
  /\ NextCommand(t)

(* The first failure ends the set-up, and the script.                       *)
SetupFails(t) ==
  /\ boot[t].phase = "setup"
  /\ CallFails(SetupCommand(boot[t].next))
  /\ Ends(t)

-----------------------------------------------------------------------------
(* The seed: the demo job, and the demo candidate with the job's record id, *)
(* or with no link when the seed script writes it.                          *)

JobSeed ==
  [op |-> "upsert",
   row |-> [table |-> JobTable, id |-> NoId, key |-> DemoJob,
            content |-> NoContent, job |-> NoId]]

CandidateSeed(job) ==
  [op |-> "upsert",
   row |-> [table |-> CandidateTable, id |-> NoId, key |-> DemoCandidate,
            content |-> NoContent, job |-> job]]

(* The bootstrap reads the record id from the output of the call; an output *)
(* without one ends it as a failed call does, though it exits with 0.       *)
SeedJob(t) ==
  /\ boot[t].phase = "job"
  /\ \/ /\ CallSucceeds(JobSeed)
        /\ boot' = [boot EXCEPT ![t].phase = "candidate",
                                ![t].job = IF boot[t].kind = "seed" THEN NoId ELSE NewId]
     \/ boot[t].kind = "bootstrap" /\ CallSucceeds(JobSeed) /\ Ends(t)
     \/ CallFails(JobSeed) /\ Ends(t)

SeedCandidate(t) ==
  /\ boot[t].phase = "candidate"
  /\ \/ CallSucceeds(CandidateSeed(boot[t].job))
     \/ CallFails(CandidateSeed(boot[t].job))
  /\ Ends(t)

(* The script is killed between two calls.                                  *)
BootCrash(t) ==
  /\ boot[t].phase # "idle"
  /\ Ends(t)
  /\ UNCHANGED baseVars

BootStep(t) ==
  \/ CheckTable(t)
  \/ SetupSucceeds(t) \/ SetupFails(t)
  \/ SeedJob(t) \/ SeedCandidate(t)
=============================================================================
