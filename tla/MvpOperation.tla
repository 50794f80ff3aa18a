---------------------------- MODULE MvpOperation ----------------------------
(***************************************************************************)
(* One operator and the live MVP scripts: the readiness report, the dry    *)
(* run and the guarded execution, each of which first resolves the demo    *)
(* job and the demo candidate; the audit and the recovery plan made of an  *)
(* execution, and the operator runbook the operator goes by.               *)
(*                                                                         *)
(* runLiveMvpWrites (live-mvp-runner.ts) knows nothing of earlier runs:    *)
(* what keeps a second execution from writing every row again is what the  *)
(* recovery plan tells the operator.                                       *)
(***************************************************************************)
EXTENDS Naturals, Sequences, FiniteSets

CONSTANTS
  CommandCount,  \* commands of the write plan
  MaxRuns,       \* bound on the executions that come to their writes
  MaxLate        \* bound on the requests given up and still under way

ASSUME MvpAssumption ==
  /\ CommandCount \in Nat \ {0}
  /\ MaxRuns \in Nat
  /\ MaxLate \in Nat

VARIABLES
  config,   \* what the environment allows: HIRELOOP_ALLOW_LARK_READ, _WRITE
  demo,     \* of each identity, the rows of its table that match it
  script,   \* the script that runs
  runs,     \* executions that have come to their writes
  written,  \* the commands served, with the execution they are of
  late,     \* commands given up and still under way
  notes     \* what the operator has read in the reports

mvpVars == <<config, demo, script, runs, written, late, notes>>

Commands == 1..CommandCount
Runs == 1..MaxRuns
Identities == <<"jobs", "candidates">>

Config == [read : BOOLEAN, write : BOOLEAN]

Script ==
  [kind : {"none", "readiness", "dry_run", "execute"}, source : {"sample", "readonly"},
   stage : {"resolve", "plan", "write"}, next : Commands \cup 1..Len(Identities),
   config : Config]

NoScript ==
  [kind |-> "none", source |-> "sample", stage |-> "resolve", next |-> 1,
   config |-> [read |-> FALSE, write |-> FALSE]]

(* validateReadOnlyConfig and validateExecutionConfig, the credentials set: *)
(* a script keeps the environment it was started in.                        *)
MayRead == script.config.read
MayWrite == script.config.write

RecoveryStatuses ==
  {"dry_run_only", "blocked_before_write", "completed_successfully",
   "failed_during_write", "skipped_or_incomplete"}

(* unknown: an execution ended without printing its audit.                  *)
Notes ==
  [ready : BOOLEAN, safe : BOOLEAN, dryRun : {0, CommandCount},
   recovery : RecoveryStatuses \cup {"unknown"}, likely : 0..CommandCount]

MvpType ==
  /\ config \in Config
  /\ demo \in [{"jobs", "candidates"} -> 0..2]
  /\ script \in Script
  /\ runs \in 0..MaxRuns
  /\ written \subseteq Runs \X Commands
  /\ late \subseteq Runs \X Commands
  /\ notes \in Notes

MvpInit ==
  /\ config = [read |-> FALSE, write |-> FALSE]
  /\ demo = [t \in {"jobs", "candidates"} |-> 0]
  /\ script = NoScript
  /\ runs = 0
  /\ written = {}
  /\ late = {}
  /\ notes = [ready |-> FALSE, safe |-> FALSE, dryRun |-> 0,
              recovery |-> "dry_run_only", likely |-> 0]

-----------------------------------------------------------------------------
(* The audit of a run (live-mvp-audit.ts), and its recovery plan            *)
(* (live-recovery-plan.ts).                                                 *)

Audit(mode, blocked, skipped, success, failed) ==
  [mode |-> mode, blocked |-> blocked, skipped |-> skipped,
   success |-> success, failed |-> failed]

BlockedAudit == Audit("execute", TRUE, CommandCount, 0, 0)

(* A plan that takes a failure before any success for a run that wrote      *)
(* nothing.                                                                 *)
RecoveryWithoutFirst(audit) ==
  IF audit.blocked \/ audit.success = 0 THEN "blocked_before_write"
  ELSE IF audit.mode = "dry_run" THEN "dry_run_only"
  ELSE IF audit.failed > 0 THEN "failed_during_write"
  ELSE IF audit.skipped > 0 \/ audit.success < CommandCount THEN "skipped_or_incomplete"
  ELSE "completed_successfully"

RecoveryStatus(audit) ==
  IF audit.blocked THEN "blocked_before_write"
  ELSE IF audit.mode = "dry_run" THEN "dry_run_only"
  ELSE IF audit.failed > 0 THEN "failed_during_write"
  ELSE IF audit.skipped > 0 \/ audit.success < CommandCount THEN "skipped_or_incomplete"
  ELSE "completed_successfully"

(* A plan that says of each command that was tried that it was written. *)
CompletedCount(audit) == audit.success + audit.failed

LikelyWritten(audit) == audit.success

(* The policies that say "Safe to re-run".                                  *)
SafeToRerun(status) == status \in {"dry_run_only", "blocked_before_write"}

(* The operator keeps the plan of the last execution; the audit of a dry    *)
(* run says nothing of an execution before it.                              *)
NoteAudit(audit) ==
  notes' = [notes EXCEPT !.recovery = RecoveryStatus(audit), !.likely = LikelyWritten(audit)]

(* readyForHumanExecution (live-operator-runbook.ts).                       *)
ReadyForHumanExecution == notes.ready /\ notes.safe /\ notes.dryRun > 0

-----------------------------------------------------------------------------
(* The scripts.                                                             *)

Ends == script' = NoScript

Start(kind, source) ==
  /\ script.kind = "none"
  /\ script' = [NoScript EXCEPT !.kind = kind, !.source = source, !.config = config]
  /\ UNCHANGED <<config, demo, runs, written, late, notes>>

(* An execution without --use-readonly-resolution or the phrase changes     *)
(* nothing; with them the operator starts one when the runbook is ready and *)
(* the recovery plan of the last execution lets it be run again.            *)
StartExecution ==
  /\ ReadyForHumanExecution
  /\ SafeToRerun(notes.recovery)
  /\ runs < MaxRuns
  /\ Start("execute", "readonly")

(* Exactly one row must match, in the rows the read returns.                *)
NextIdentity == Identities[script.next]
Resolvable == MayRead /\ demo[NextIdentity] = 1

Resolve ==
  /\ script.kind # "none"
  /\ script.stage = "resolve"
  /\ script.source = "readonly"
  /\ script.kind = "readiness" => MayWrite
  /\ Resolvable
  /\ IF script.next < Len(Identities)
     THEN script' = [script EXCEPT !.next = @ + 1]
     ELSE script' = [script EXCEPT !.stage = "plan", !.next = 1]
  /\ UNCHANGED <<config, demo, runs, written, late, notes>>

(* The sample records need no read.                                         *)
ResolveSample ==
  /\ script.kind # "none"
  /\ script.stage = "resolve"
  /\ script.source = "sample"
  /\ script' = [script EXCEPT !.stage = "plan"]
  /\ UNCHANGED <<config, demo, runs, written, late, notes>>

(* No match, several, a read that is blocked or fails: no plan is made, and *)
(* the readiness report has a check that fails.                             *)
Unresolved ==
  /\ script.kind # "none"
  /\ script.stage = "resolve"
  /\ script.source = "readonly"
  /\ Ends
  /\ notes' = IF script.kind = "readiness"
              THEN [notes EXCEPT !.ready = FALSE, !.safe = FALSE]
              ELSE notes
  /\ UNCHANGED <<config, demo, runs, written, late>>

ReportReadiness ==
  /\ script.kind = "readiness"
  /\ script.stage = "plan"
  /\ notes' = [notes EXCEPT !.ready = TRUE, !.safe = (script.source = "readonly")]
  /\ Ends
  /\ UNCHANGED <<config, demo, runs, written, late>>

ReportDryRun ==
  /\ script.kind = "dry_run"
  /\ script.stage = "plan"
  /\ notes' = [notes EXCEPT !.dryRun = CommandCount]
  /\ Ends
  /\ UNCHANGED <<config, demo, runs, written, late>>

ExecutionBlocked ==
  /\ script.kind = "execute"
  /\ script.stage = "plan"
  /\ ~MayWrite
  /\ NoteAudit(BlockedAudit)
  /\ Ends
  /\ UNCHANGED <<config, demo, runs, written, late>>

BeginWrites ==
  /\ script.kind = "execute"
  /\ script.stage = "plan"
  /\ MayWrite
  /\ script' = [script EXCEPT !.stage = "write"]
  /\ runs' = runs + 1
  /\ UNCHANGED <<config, demo, written, late, notes>>

(* A loop that goes one command too far. *)
PastLast == script.next <= CommandCount

MoreCommands == script.next < CommandCount

WriteSucceeds ==
  /\ script.stage = "write"
  /\ written' = written \cup {<<runs, script.next>>}
  /\ IF MoreCommands
     THEN script' = [script EXCEPT !.next = @ + 1] /\ UNCHANGED notes
     ELSE Ends /\ NoteAudit(Audit("execute", FALSE, 0, CommandCount, 0))
  /\ UNCHANGED <<config, demo, runs, late>>

(* A request given up may be under way; the first failure ends the run.     *)
GiveUp ==
  \/ UNCHANGED late
  \/ /\ Cardinality(late) < MaxLate
     /\ late' = late \cup {<<runs, script.next>>}

(* A run that tries a command that failed again. *)
TryAgain ==
  /\ script.stage = "write"
  /\ GiveUp
  /\ UNCHANGED <<config, demo, script, runs, written, notes>>

WriteFails ==
  /\ script.stage = "write"
  /\ GiveUp
  /\ NoteAudit(Audit("execute", FALSE, 0, script.next - 1, 1))
  /\ Ends
  /\ UNCHANGED <<config, demo, runs, written>>

(* A script that is killed prints no audit.                                 *)
Killed ==
  /\ script.kind # "none"
  /\ Ends
  /\ IF script.stage = "write"
     THEN GiveUp /\ notes' = [notes EXCEPT !.recovery = "unknown"]
     ELSE UNCHANGED <<late, notes>>
  /\ UNCHANGED <<config, demo, runs, written>>

ScriptStep ==
  \/ Resolve \/ ResolveSample \/ Unresolved
  \/ ReportReadiness \/ ReportDryRun
  \/ ExecutionBlocked \/ BeginWrites \/ WriteSucceeds \/ WriteFails

Reading ==
  \E kind \in {"readiness", "dry_run"}, source \in {"sample", "readonly"} :
    Start(kind, source)

LateArrives ==
  \E command \in late :
    /\ late' = late \ {command}
    /\ written' \in {written, written \cup {command}}
    /\ UNCHANGED <<config, demo, script, runs, notes>>

(* Others change the environment, and the rows with the demo identities.    *)
Surroundings ==
  /\ \/ config' \in Config /\ UNCHANGED demo
     \/ /\ \E t \in {"jobs", "candidates"}, n \in 0..2 : demo' = [demo EXCEPT ![t] = n]
        /\ UNCHANGED config
  /\ UNCHANGED <<script, runs, written, late, notes>>

MvpNext ==
  \/ Reading
  \/ StartExecution
  \/ ScriptStep
  \/ Killed
  \/ LateArrives
  \/ Surroundings

MvpSpec == MvpInit /\ [][MvpNext]_mvpVars

-----------------------------------------------------------------------------
(* Properties.                                                              *)

WrittenBy(run) == {i \in Commands : <<run, i>> \in written}

(* The recovery plan of the last execution says how many rows were likely   *)
(* written.  The Base has those, and at most the row of the command that    *)
(* failed beside them, also when its request comes through afterwards.      *)
RecoveryBounds ==
  (runs > 0 /\ script.stage # "write"
     /\ notes.recovery \in {"completed_successfully", "failed_during_write"}) =>
    /\ 1..notes.likely \subseteq WrittenBy(runs)
    /\ WrittenBy(runs) \subseteq 1..notes.likely + 1

(* An operator who goes by the runbook and by the recovery plan of the last *)
(* execution never has a command written in two executions, whatever        *)
(* failed, timed out or was killed, and whatever comes through late.        *)
NoRowTwice ==
  \A run1, run2 \in Runs :
    run1 # run2 => WrittenBy(run1) \cap WrittenBy(run2) = {}
=============================================================================
