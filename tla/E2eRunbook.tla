----------------------------- MODULE E2eRunbook -----------------------------
(***************************************************************************)
(* The 13 steps of the live E2E runbook (live-e2e-runbook.ts) and an       *)
(* operator who works along it: the operator does a step only when the     *)
(* runbook shows it as ready or manual, and enters into the runbook's      *)
(* input what came of it.                                                  *)
(***************************************************************************)
EXTENDS Naturals, FiniteSets

CONSTANT MaxAttempts   \* bound on the executions of a write step

ASSUME JourneyAssumption == MaxAttempts \in Nat

VARIABLES
  input,     \* the input of the runbook (LiveE2eRunbookInput)
  executed   \* history: how often each write step has written to the Base

journeyVars == <<input, executed>>

StepNumbers == 1..13

(* The steps that execute writes through the server (7, 9 and 11).          *)
WriteSteps == {7, 9, 11}

Facts ==
  {"feishuConfigured", "bootstrapDone", "seedDone", "localUiRunning",
   "liveRecordsAccessible", "candidateFound", "writePlanGenerated", "writeExecuted",
   "writeSuccess", "humanDecisionGenerated", "humanDecisionExecuted",
   "humanDecisionSuccess", "analyticsReportGenerated", "analyticsReportExecuted",
   "analyticsReportSuccess", "verificationRun", "verificationPassed", "recoveryRun",
   "recoveryClean"}

JourneyType ==
  /\ input \in [Facts -> BOOLEAN]
  /\ executed \in [WriteSteps -> 0..MaxAttempts]

JourneyInit ==
  /\ input = [f \in Facts |-> FALSE]
  /\ executed = [s \in WriteSteps |-> 0]

-----------------------------------------------------------------------------
(* The status of each step, as a function of the input alone.               *)

EnvStep == IF input.feishuConfigured THEN "ready" ELSE "blocked"

BootstrapStep ==
  IF ~input.feishuConfigured THEN "blocked"
  ELSE IF ~input.bootstrapDone THEN "manual"
  ELSE IF input.seedDone THEN "success" ELSE "failed"

(* A step that only reads, and can be done again.                           *)
PlanStep(open, done) ==
  IF ~open THEN "blocked" ELSE IF done THEN "success" ELSE "ready"

(* A runbook that offers a write step again after it has failed. *)
ExecuteStepAgain(open, done, success) ==
  IF ~open THEN "blocked" ELSE IF done /\ success THEN "success" ELSE "manual"

ExecuteStep(open, done, success) ==
  IF ~open THEN "blocked"
  ELSE IF done /\ success THEN "success"
  ELSE IF done THEN "failed" ELSE "manual"

ReviewStep(open, done, success) ==
  IF ~open THEN "blocked"
  ELSE IF ~done THEN "ready"
  ELSE IF success THEN "success" ELSE "failed"

Seeded == input.bootstrapDone /\ input.seedDone
Written == input.writeExecuted /\ input.writeSuccess
Decided == input.humanDecisionExecuted /\ input.humanDecisionSuccess
Reported == input.analyticsReportExecuted /\ input.analyticsReportSuccess

StepStatus ==
  <<EnvStep,
    EnvStep,
    BootstrapStep,
    PlanStep(input.bootstrapDone, input.localUiRunning),
    PlanStep(Seeded, input.liveRecordsAccessible),
    PlanStep(input.candidateFound, input.writePlanGenerated),
    ExecuteStep(input.writePlanGenerated, input.writeExecuted, input.writeSuccess),
    PlanStep(Written, input.humanDecisionGenerated),
    ExecuteStep(input.humanDecisionGenerated, input.humanDecisionExecuted,
                input.humanDecisionSuccess),
    PlanStep(Decided, input.analyticsReportGenerated),
    ExecuteStep(input.analyticsReportGenerated, input.analyticsReportExecuted,
                input.analyticsReportSuccess),
    ReviewStep(Reported, input.verificationRun, input.verificationPassed),
    ReviewStep(input.writeExecuted, input.recoveryRun, input.recoveryClean)>>

(* A summary that takes a runbook without steps left to do by hand for done. *)
OverallWithoutManual ==
  IF \E i \in StepNumbers : StepStatus[i] = "failed" THEN "failed"
  ELSE IF \A i \in StepNumbers : StepStatus[i] # "manual" THEN "completed"
  ELSE IF \E i \in StepNumbers : StepStatus[i] = "success" THEN "in_progress"
  ELSE IF \E i \in StepNumbers : StepStatus[i] = "blocked" THEN "blocked"
  ELSE "ready"

OverallStatus ==
  IF \E i \in StepNumbers : StepStatus[i] = "failed" THEN "failed"
  ELSE IF \A i \in StepNumbers : StepStatus[i] \in {"success", "ready"} THEN "completed"
  ELSE IF \E i \in StepNumbers : StepStatus[i] = "success" THEN "in_progress"
  ELSE IF \E i \in StepNumbers : StepStatus[i] = "blocked" THEN "blocked"
  ELSE "ready"

(* Verification of the six tables: each is found right, found wrong, or not *)
(* looked at (live-verification-report.ts).                                 *)
VerifiedTables ==
  {"Agent Runs", "Resume Facts", "Evaluations", "Interview Kits", "Candidates", "Reports"}

VerificationStatus(mode, blocked, wrong, unchecked) ==
  IF mode = "sample" THEN "needs_review"
  ELSE IF blocked \/ wrong # {} THEN "failed"
  ELSE IF unchecked # {} THEN "needs_review" ELSE "passed"

-----------------------------------------------------------------------------
(* What the operator does, and what may come of it.                         *)

Offered(i) == StepStatus[i] \in {"ready", "manual"}

Configure ==
  /\ ~input.feishuConfigured
  /\ input' = [input EXCEPT !.feishuConfigured = TRUE]
  /\ UNCHANGED executed

(* The set-up may stop, with nothing to enter, or be done without the seed. *)
ExecuteBootstrap ==
  /\ Offered(3)
  /\ \E done, seed \in BOOLEAN :
       input' = [input EXCEPT !.bootstrapDone = done, !.seedDone = done /\ seed]
  /\ UNCHANGED executed

StartUi ==
  /\ Offered(4)
  /\ input' = [input EXCEPT !.localUiRunning = TRUE]
  /\ UNCHANGED executed

StopUi ==
  /\ input.localUiRunning
  /\ input' = [input EXCEPT !.localUiRunning = FALSE]
  /\ UNCHANGED executed

CheckLiveRecords ==
  /\ Offered(5)
  /\ \E found \in BOOLEAN :
       input' = [input EXCEPT !.liveRecordsAccessible = TRUE, !.candidateFound = found]
  /\ UNCHANGED executed

(* A candidate is added when the records showed none.                       *)
FindCandidate ==
  /\ input.liveRecordsAccessible
  /\ input' = [input EXCEPT !.candidateFound = TRUE]
  /\ UNCHANGED executed

GeneratePlan(i, generated) ==
  /\ Offered(i)
  /\ input' = [input EXCEPT ![generated] = TRUE]
  /\ UNCHANGED executed

(* A request to execute is refused before any write, and a new plan has to  *)
(* be made (a stale nonce), or writes every command, or some.               *)
ExecuteWrites(i, generated, done, success) ==
  /\ Offered(i)
  /\ \/ /\ input' = [input EXCEPT ![generated] = FALSE]
        /\ UNCHANGED executed
     \/ /\ executed[i] < MaxAttempts
        /\ executed' = [executed EXCEPT ![i] = @ + 1]
        /\ \E ok \in BOOLEAN : input' = [input EXCEPT ![done] = TRUE, ![success] = ok]

Verify ==
  /\ StepStatus[12] \in {"ready", "failed"}
  /\ \E mode \in {"sample", "readonly"}, blocked \in BOOLEAN,
        wrong, unchecked \in {T \in SUBSET VerifiedTables : Cardinality(T) <= 1} :
       input' = [input EXCEPT !.verificationRun = TRUE, !.verificationPassed =
                   (VerificationStatus(mode, blocked, wrong, unchecked) = "passed")]
  /\ UNCHANGED executed

(* The recovery status of the writes that the operator enters.              *)
ReviewRecovery ==
  /\ StepStatus[13] \in {"ready", "failed"}
  /\ input' = [input EXCEPT !.recoveryRun = TRUE, !.recoveryClean = input.writeSuccess]
  /\ UNCHANGED executed

JourneyNext ==
  \/ Configure \/ ExecuteBootstrap
  \/ StartUi \/ StopUi
  \/ CheckLiveRecords \/ FindCandidate
  \/ GeneratePlan(6, "writePlanGenerated")
  \/ GeneratePlan(8, "humanDecisionGenerated")
  \/ GeneratePlan(10, "analyticsReportGenerated")
  \/ ExecuteWrites(7, "writePlanGenerated", "writeExecuted", "writeSuccess")
  \/ ExecuteWrites(9, "humanDecisionGenerated", "humanDecisionExecuted",
                   "humanDecisionSuccess")
  \/ ExecuteWrites(11, "analyticsReportGenerated", "analyticsReportExecuted",
                   "analyticsReportSuccess")
  \/ Verify \/ ReviewRecovery
=============================================================================
