-------------------------- MODULE Operation_proofs --------------------------
(***************************************************************************)
(* Proofs about Operation: the E2E runbook and the dataset scripts, and    *)
(* what MvpOperation_proofs shows of the MVP scripts for an operator who   *)
(* may go any of the three ways.                                           *)
(***************************************************************************)
EXTENDS Operation, MvpOperation_proofs, SequenceTheorems, WellFoundedInduction

USE JourneyAssumption, MvpAssumption

-----------------------------------------------------------------------------
(* The E2E runbook.                                                         *)

(* What the operator has entered of a step rests on the steps before it:    *)
(* nothing that a later step was offered for is ever taken back.            *)
Rests ==
  /\ input.liveRecordsAccessible => Seeded
  /\ input.candidateFound => input.liveRecordsAccessible
  /\ input.writePlanGenerated => input.candidateFound
  /\ input.writeExecuted => input.writePlanGenerated
  /\ input.humanDecisionGenerated => Written
  /\ input.humanDecisionExecuted => input.humanDecisionGenerated
  /\ input.analyticsReportGenerated => Decided
  /\ input.analyticsReportExecuted => input.analyticsReportGenerated

(* A step that has written is entered as executed, and only such a step.    *)
Counts ==
  /\ executed[7] = IF input.writeExecuted THEN 1 ELSE 0
  /\ executed[9] = IF input.humanDecisionExecuted THEN 1 ELSE 0
  /\ executed[11] = IF input.analyticsReportExecuted THEN 1 ELSE 0

JourneyInv == JourneyType /\ Rests /\ Counts

LEMMA StatusOfSteps ==
  /\ StepStatus[3] = BootstrapStep
  /\ StepStatus[4] = PlanStep(input.bootstrapDone, input.localUiRunning)
  /\ StepStatus[5] = PlanStep(Seeded, input.liveRecordsAccessible)
  /\ StepStatus[6] = PlanStep(input.candidateFound, input.writePlanGenerated)
  /\ StepStatus[7] = ExecuteStep(input.writePlanGenerated, input.writeExecuted,
                                 input.writeSuccess)
  /\ StepStatus[8] = PlanStep(Written, input.humanDecisionGenerated)
  /\ StepStatus[9] = ExecuteStep(input.humanDecisionGenerated, input.humanDecisionExecuted,
                                 input.humanDecisionSuccess)
  /\ StepStatus[10] = PlanStep(Decided, input.analyticsReportGenerated)
  /\ StepStatus[11] = ExecuteStep(input.analyticsReportGenerated,
                                  input.analyticsReportExecuted,
                                  input.analyticsReportSuccess)
BY DEF StepStatus

(* The runbook offers a step when the one before it is done and it is not.  *)
LEMMA PlanOffered ==
  ASSUME NEW open, NEW done, PlanStep(open, done) \in {"ready", "manual"}
  PROVE  open /\ ~done
BY DEF PlanStep

LEMMA ExecuteOffered ==
  ASSUME NEW open, NEW done, NEW success,
         ExecuteStep(open, done, success) \in {"ready", "manual"}
  PROVE  open /\ ~done
BY DEF ExecuteStep

LEMMA OfferedSteps ==
  /\ Offered(3) => ~input.bootstrapDone
  /\ Offered(5) => Seeded /\ ~input.liveRecordsAccessible
  /\ Offered(6) => input.candidateFound
  /\ Offered(7) => input.writePlanGenerated /\ ~input.writeExecuted
  /\ Offered(8) => Written
  /\ Offered(9) => input.humanDecisionGenerated /\ ~input.humanDecisionExecuted
  /\ Offered(10) => Decided
  /\ Offered(11) => input.analyticsReportGenerated /\ ~input.analyticsReportExecuted
<1>1. Offered(3) => ~input.bootstrapDone
  BY StatusOfSteps DEF Offered, BootstrapStep
<1>2. Offered(5) => Seeded /\ ~input.liveRecordsAccessible
  BY StatusOfSteps, PlanOffered DEF Offered
<1>3. Offered(6) => input.candidateFound
  BY StatusOfSteps, PlanOffered DEF Offered
<1>4. Offered(7) => input.writePlanGenerated /\ ~input.writeExecuted
  BY StatusOfSteps, ExecuteOffered DEF Offered
<1>5. Offered(8) => Written
  BY StatusOfSteps, PlanOffered DEF Offered
<1>6. Offered(9) => input.humanDecisionGenerated /\ ~input.humanDecisionExecuted
  BY StatusOfSteps, ExecuteOffered DEF Offered
<1>7. Offered(10) => Decided
  BY StatusOfSteps, PlanOffered DEF Offered
<1>8. Offered(11) => input.analyticsReportGenerated /\ ~input.analyticsReportExecuted
  BY StatusOfSteps, ExecuteOffered DEF Offered
<1>. QED
  BY <1>1, <1>2, <1>3, <1>4, <1>5, <1>6, <1>7, <1>8

LEMMA FactNames ==
  /\ "feishuConfigured" \in Facts /\ "bootstrapDone" \in Facts /\ "seedDone" \in Facts
  /\ "localUiRunning" \in Facts /\ "liveRecordsAccessible" \in Facts
  /\ "candidateFound" \in Facts /\ "writePlanGenerated" \in Facts
  /\ "writeExecuted" \in Facts /\ "writeSuccess" \in Facts
  /\ "humanDecisionGenerated" \in Facts /\ "humanDecisionExecuted" \in Facts
  /\ "humanDecisionSuccess" \in Facts /\ "analyticsReportGenerated" \in Facts
  /\ "analyticsReportExecuted" \in Facts /\ "analyticsReportSuccess" \in Facts
  /\ "verificationRun" \in Facts /\ "verificationPassed" \in Facts
  /\ "recoveryRun" \in Facts /\ "recoveryClean" \in Facts
BY DEF Facts

LEMMA InitJourney == JourneyInit => JourneyInv
<1> SUFFICES ASSUME JourneyInit PROVE JourneyInv
  OBVIOUS
<1>1. input \in [Facts -> BOOLEAN] /\ executed \in [WriteSteps -> 0..MaxAttempts]
  BY DEF JourneyInit
<1>2. \A f \in Facts : input[f] = FALSE
  BY DEF JourneyInit
<1>3. executed[7] = 0 /\ executed[9] = 0 /\ executed[11] = 0
  BY DEF JourneyInit, WriteSteps
<1>. QED
  BY <1>1, <1>2, <1>3, FactNames
     DEF JourneyInv, JourneyType, Rests, Counts, Seeded, Written, Decided

(* The operator enters one fact, or two.                                    *)
Entered(old, new, f, v, g, w) ==
  /\ new \in [Facts -> BOOLEAN]
  /\ \A h \in Facts : new[h] = IF h = g THEN w ELSE IF h = f THEN v ELSE old[h]

LEMMA EnterOne ==
  ASSUME NEW old \in [Facts -> BOOLEAN], NEW f \in Facts, NEW v \in BOOLEAN, NEW new,
         new = [old EXCEPT ![f] = v]
  PROVE  Entered(old, new, f, v, f, v)
BY DEF Entered

LEMMA SetUpKeepsJourney ==
  ASSUME JourneyInv,
         Configure \/ ExecuteBootstrap \/ StartUi \/ StopUi \/ CheckLiveRecords
           \/ FindCandidate
           \/ GeneratePlan(6, "writePlanGenerated")
           \/ GeneratePlan(8, "humanDecisionGenerated")
           \/ GeneratePlan(10, "analyticsReportGenerated")
  PROVE  JourneyInv'
<1>0. input \in [Facts -> BOOLEAN] /\ executed \in [WriteSteps -> 0..MaxAttempts]
  BY DEF JourneyInv, JourneyType
<1> USE DEF JourneyInv, JourneyType, Rests, Counts, Seeded, Written, Decided
<1>1. CASE Configure
  <2>1. /\ Entered(input, input', "feishuConfigured", TRUE, "feishuConfigured", TRUE)
        /\ UNCHANGED executed
    BY <1>0, <1>1, FactNames, EnterOne DEF Configure
  <2>. QED
    BY <1>0, <2>1, FactNames DEF Entered
<1>2. CASE ExecuteBootstrap
  <2>1. PICK done \in BOOLEAN, seed \in BOOLEAN :
          input' = [input EXCEPT !["bootstrapDone"] = done, !["seedDone"] = done /\ seed]
    BY <1>2 DEF ExecuteBootstrap
  <2>0. (done /\ seed) \in BOOLEAN /\ TRUE \in BOOLEAN
    OBVIOUS
  <2>2. Entered(input, input', "bootstrapDone", done, "seedDone", done /\ seed)
    BY <1>0, <2>0, <2>1, FactNames DEF Entered
  <2>3. ~input.bootstrapDone /\ UNCHANGED executed
    BY <1>2, OfferedSteps DEF ExecuteBootstrap
  <2>. QED
    BY <1>0, <2>2, <2>3, FactNames DEF Entered
<1>3. CASE StartUi \/ StopUi
  <2>1. PICK v \in BOOLEAN : input' = [input EXCEPT !["localUiRunning"] = v]
    BY <1>3 DEF StartUi, StopUi
  <2>2. Entered(input, input', "localUiRunning", v, "localUiRunning", v)
    BY <1>0, <2>1, FactNames, EnterOne
  <2>3. UNCHANGED executed
    BY <1>3 DEF StartUi, StopUi
  <2>. QED
    BY <1>0, <2>2, <2>3, FactNames DEF Entered
<1>4. CASE CheckLiveRecords
  <2>1. PICK found \in BOOLEAN :
          input' = [input EXCEPT !["liveRecordsAccessible"] = TRUE, !["candidateFound"] = found]
    BY <1>4 DEF CheckLiveRecords
  <2>0. TRUE \in BOOLEAN
    OBVIOUS
  <2>2. Entered(input, input', "liveRecordsAccessible", TRUE, "candidateFound", found)
    BY <1>0, <2>0, <2>1, FactNames DEF Entered
  <2>3. Seeded /\ ~input.liveRecordsAccessible /\ UNCHANGED executed
    BY <1>4, OfferedSteps DEF CheckLiveRecords
  <2>. QED
    BY <1>0, <2>2, <2>3, FactNames DEF Entered
<1>5. CASE FindCandidate
  <2>1. /\ Entered(input, input', "candidateFound", TRUE, "candidateFound", TRUE)
        /\ input.liveRecordsAccessible /\ UNCHANGED executed
    BY <1>0, <1>5, FactNames, EnterOne DEF FindCandidate
  <2>. QED
    BY <1>0, <2>1, FactNames DEF Entered
<1>6. CASE GeneratePlan(6, "writePlanGenerated")
  <2>1. /\ Entered(input, input', "writePlanGenerated", TRUE, "writePlanGenerated", TRUE)
        /\ input.candidateFound /\ UNCHANGED executed
    BY <1>0, <1>6, FactNames, EnterOne, OfferedSteps DEF GeneratePlan
  <2>. QED
    BY <1>0, <2>1, FactNames DEF Entered
<1>7. CASE GeneratePlan(8, "humanDecisionGenerated")
  <2>1. /\ Entered(input, input', "humanDecisionGenerated", TRUE,
                   "humanDecisionGenerated", TRUE)
        /\ Written /\ UNCHANGED executed
    BY <1>0, <1>7, FactNames, EnterOne, OfferedSteps DEF GeneratePlan
  <2>. QED
    BY <1>0, <2>1, FactNames DEF Entered
<1>8. CASE GeneratePlan(10, "analyticsReportGenerated")
  <2>1. /\ Entered(input, input', "analyticsReportGenerated", TRUE,
                   "analyticsReportGenerated", TRUE)
        /\ Decided /\ UNCHANGED executed
    BY <1>0, <1>8, FactNames, EnterOne, OfferedSteps DEF GeneratePlan
  <2>. QED
    BY <1>0, <2>1, FactNames DEF Entered
<1>. QED
  BY <1>1, <1>2, <1>3, <1>4, <1>5, <1>6, <1>7, <1>8

(* A request to execute either is refused, and takes back the plan alone,   *)
(* or writes, and is entered as executed.                                   *)
TakenBack(generated) ==
  Entered(input, input', generated, FALSE, generated, FALSE) /\ UNCHANGED executed

EnteredWrite(i, done, success) ==
  /\ executed' \in [WriteSteps -> 0..MaxAttempts]
  /\ executed'[i] = executed[i] + 1
  /\ \A j \in WriteSteps \ {i} : executed'[j] = executed[j]
  /\ \E ok \in BOOLEAN : Entered(input, input', done, TRUE, success, ok)

(* The facts but these stay as they are.                                    *)
Kept(changed) == \A f \in Facts \ changed : input'[f] = input[f]

LEMMA WriteOutcomes ==
  ASSUME JourneyInv, NEW i \in WriteSteps, NEW generated \in Facts, NEW done \in Facts,
         NEW success \in Facts, ExecuteWrites(i, generated, done, success)
  PROVE  Offered(i) /\ (TakenBack(generated) \/ EnteredWrite(i, done, success))
<1>0. input \in [Facts -> BOOLEAN] /\ executed \in [WriteSteps -> 0..MaxAttempts]
  BY DEF JourneyInv, JourneyType
<1>1. CASE input' = [input EXCEPT ![generated] = FALSE] /\ UNCHANGED executed
  BY <1>0, <1>1, EnterOne DEF ExecuteWrites, TakenBack
<1>2. CASE /\ executed[i] < MaxAttempts
           /\ executed' = [executed EXCEPT ![i] = @ + 1]
           /\ \E ok \in BOOLEAN : input' = [input EXCEPT ![done] = TRUE, ![success] = ok]
  <2>1. PICK ok \in BOOLEAN : input' = [input EXCEPT ![done] = TRUE, ![success] = ok]
    BY <1>2
  <2>2. Entered(input, input', done, TRUE, success, ok)
    BY <1>0, <2>1 DEF Entered
  <2>3. executed[i] \in 0..MaxAttempts /\ executed[i] + 1 \in 0..MaxAttempts
    BY <1>0, <1>2
  <2>4. /\ executed' \in [WriteSteps -> 0..MaxAttempts]
        /\ executed'[i] = executed[i] + 1
        /\ \A j \in WriteSteps \ {i} : executed'[j] = executed[j]
    BY <1>0, <1>2, <2>3
  <2>. QED
    BY <2>2, <2>4 DEF ExecuteWrites, EnteredWrite
<1>. QED
  BY <1>1, <1>2 DEF ExecuteWrites

LEMMA WritesKeepJourney ==
  ASSUME JourneyInv,
         \/ ExecuteWrites(7, "writePlanGenerated", "writeExecuted", "writeSuccess")
         \/ ExecuteWrites(9, "humanDecisionGenerated", "humanDecisionExecuted",
                          "humanDecisionSuccess")
         \/ ExecuteWrites(11, "analyticsReportGenerated", "analyticsReportExecuted",
                          "analyticsReportSuccess")
  PROVE  JourneyInv'
<1>0. /\ input \in [Facts -> BOOLEAN] /\ executed \in [WriteSteps -> 0..MaxAttempts]
      /\ 7 \in WriteSteps /\ 9 \in WriteSteps /\ 11 \in WriteSteps
  BY DEF JourneyInv, JourneyType, WriteSteps
<1>1. CASE ExecuteWrites(7, "writePlanGenerated", "writeExecuted",
                         "writeSuccess")
  <2>1. Offered(7) /\ (TakenBack("writePlanGenerated")
                           \/ EnteredWrite(7, "writeExecuted", "writeSuccess"))
    BY ONLY JourneyInv, <1>0, <1>1, FactNames, WriteOutcomes
  <2>2. input.writePlanGenerated /\ ~input.writeExecuted
    BY ONLY <2>1, OfferedSteps
  <2>3. CASE TakenBack("writePlanGenerated")
    <3>1. input' \in [Facts -> BOOLEAN] /\ UNCHANGED executed
      BY <2>3 DEF TakenBack, Entered
    <3>2. Kept({"writePlanGenerated"}) /\ ~input'.writePlanGenerated
      BY <2>3, FactNames DEF TakenBack, Entered, Kept
    <3>. QED
      BY <1>0, <2>2, <3>1, <3>2, FactNames
         DEF Kept, JourneyInv, JourneyType, Rests, Counts, Seeded, Written, Decided
  <2>4. CASE EnteredWrite(7, "writeExecuted", "writeSuccess")
    <3>1. input' \in [Facts -> BOOLEAN] /\ executed' \in [WriteSteps -> 0..MaxAttempts]
      BY <2>4 DEF EnteredWrite, Entered
    <3>2. /\ Kept({"writeExecuted", "writeSuccess"})
          /\ input'.writeExecuted
      BY <2>4, FactNames DEF EnteredWrite, Entered, Kept
    <3>3. Counts'
      BY <1>0, <2>2, <2>4, <3>2, FactNames
         DEF EnteredWrite, Kept, JourneyInv, Counts, WriteSteps
    <3>4. Rests'
      BY <2>2, <3>2, FactNames DEF Kept, JourneyInv, Rests, Seeded, Written, Decided
    <3>. QED
      BY <3>1, <3>3, <3>4 DEF JourneyInv, JourneyType
  <2>. QED
    BY <2>1, <2>3, <2>4
<1>2. CASE ExecuteWrites(9, "humanDecisionGenerated", "humanDecisionExecuted",
                         "humanDecisionSuccess")
  <2>1. Offered(9) /\ (TakenBack("humanDecisionGenerated")
                           \/ EnteredWrite(9, "humanDecisionExecuted", "humanDecisionSuccess"))
    BY ONLY JourneyInv, <1>0, <1>2, FactNames, WriteOutcomes
  <2>2. input.humanDecisionGenerated /\ ~input.humanDecisionExecuted
    BY ONLY <2>1, OfferedSteps
  <2>3. CASE TakenBack("humanDecisionGenerated")
    <3>1. input' \in [Facts -> BOOLEAN] /\ UNCHANGED executed
      BY <2>3 DEF TakenBack, Entered
    <3>2. Kept({"humanDecisionGenerated"}) /\ ~input'.humanDecisionGenerated
      BY <2>3, FactNames DEF TakenBack, Entered, Kept
    <3>. QED
      BY <1>0, <2>2, <3>1, <3>2, FactNames
         DEF Kept, JourneyInv, JourneyType, Rests, Counts, Seeded, Written, Decided
  <2>4. CASE EnteredWrite(9, "humanDecisionExecuted", "humanDecisionSuccess")
    <3>1. input' \in [Facts -> BOOLEAN] /\ executed' \in [WriteSteps -> 0..MaxAttempts]
      BY <2>4 DEF EnteredWrite, Entered
    <3>2. /\ Kept({"humanDecisionExecuted", "humanDecisionSuccess"})
          /\ input'.humanDecisionExecuted
      BY <2>4, FactNames DEF EnteredWrite, Entered, Kept
    <3>3. Counts'
      BY <1>0, <2>2, <2>4, <3>2, FactNames
         DEF EnteredWrite, Kept, JourneyInv, Counts, WriteSteps
    <3>4. Rests'
      BY <2>2, <3>2, FactNames DEF Kept, JourneyInv, Rests, Seeded, Written, Decided
    <3>. QED
      BY <3>1, <3>3, <3>4 DEF JourneyInv, JourneyType
  <2>. QED
    BY <2>1, <2>3, <2>4
<1>3. CASE ExecuteWrites(11, "analyticsReportGenerated", "analyticsReportExecuted",
                         "analyticsReportSuccess")
  <2>1. Offered(11) /\ (TakenBack("analyticsReportGenerated")
                           \/ EnteredWrite(11, "analyticsReportExecuted", "analyticsReportSuccess"))
    BY ONLY JourneyInv, <1>0, <1>3, FactNames, WriteOutcomes
  <2>2. input.analyticsReportGenerated /\ ~input.analyticsReportExecuted
    BY ONLY <2>1, OfferedSteps
  <2>3. CASE TakenBack("analyticsReportGenerated")
    <3>1. input' \in [Facts -> BOOLEAN] /\ UNCHANGED executed
      BY <2>3 DEF TakenBack, Entered
    <3>2. Kept({"analyticsReportGenerated"}) /\ ~input'.analyticsReportGenerated
      BY <2>3, FactNames DEF TakenBack, Entered, Kept
    <3>. QED
      BY <1>0, <2>2, <3>1, <3>2, FactNames
         DEF Kept, JourneyInv, JourneyType, Rests, Counts, Seeded, Written, Decided
  <2>4. CASE EnteredWrite(11, "analyticsReportExecuted", "analyticsReportSuccess")
    <3>1. input' \in [Facts -> BOOLEAN] /\ executed' \in [WriteSteps -> 0..MaxAttempts]
      BY <2>4 DEF EnteredWrite, Entered
    <3>2. /\ Kept({"analyticsReportExecuted", "analyticsReportSuccess"})
          /\ input'.analyticsReportExecuted
      BY <2>4, FactNames DEF EnteredWrite, Entered, Kept
    <3>3. Counts'
      BY <1>0, <2>2, <2>4, <3>2, FactNames
         DEF EnteredWrite, Kept, JourneyInv, Counts, WriteSteps
    <3>4. Rests'
      BY <2>2, <3>2, FactNames DEF Kept, JourneyInv, Rests, Seeded, Written, Decided
    <3>. QED
      BY <3>1, <3>3, <3>4 DEF JourneyInv, JourneyType
  <2>. QED
    BY <2>1, <2>3, <2>4
<1>. QED
  BY <1>1, <1>2, <1>3

LEMMA ReviewsKeepJourney ==
  ASSUME JourneyInv, Verify \/ ReviewRecovery
  PROVE  JourneyInv'
<1>0. input \in [Facts -> BOOLEAN] /\ executed \in [WriteSteps -> 0..MaxAttempts]
  BY DEF JourneyInv, JourneyType
<1>1. PICK v \in BOOLEAN :
        \/ input' = [input EXCEPT !["verificationRun"] = TRUE, !["verificationPassed"] = v]
        \/ input' = [input EXCEPT !["recoveryRun"] = TRUE, !["recoveryClean"] = v]
  <2>1. CASE Verify
    BY <2>1 DEF Verify
  <2>2. CASE ReviewRecovery
    BY <1>0, <2>2, FactNames DEF ReviewRecovery
  <2>. QED
    BY <2>1, <2>2
<1>2. \/ Entered(input, input', "verificationRun", TRUE, "verificationPassed", v)
      \/ Entered(input, input', "recoveryRun", TRUE, "recoveryClean", v)
  BY <1>0, <1>1, FactNames DEF Entered
<1>3. UNCHANGED executed
  BY DEF Verify, ReviewRecovery
<1>. QED
  BY <1>0, <1>2, <1>3, FactNames
     DEF Entered, JourneyInv, JourneyType, Rests, Counts, Seeded, Written, Decided

LEMMA NextJourney == JourneyInv /\ [JourneyNext]_journeyVars => JourneyInv'
<1>1. CASE UNCHANGED journeyVars
  BY <1>1 DEF journeyVars, JourneyInv, JourneyType, Rests, Counts, Seeded, Written, Decided
<1>. QED
  BY <1>1, SetUpKeepsJourney, WritesKeepJourney, ReviewsKeepJourney DEF JourneyNext

LEMMA JourneyWritesOnce == JourneyInv => WriteStepsOnce
<1> SUFFICES ASSUME JourneyInv PROVE WriteStepsOnce
  OBVIOUS
<1> USE DEF JourneyInv, Counts, Rests, Seeded, Written, Decided
<1>1. \A i \in WriteSteps : executed[i] <= 1
  BY DEF WriteSteps
<1>2. /\ StepStatus[3] \in {"manual", "failed"} => ~Seeded
      /\ StepStatus[7] \in {"manual", "failed"} => input.writePlanGenerated /\ ~Written
      /\ StepStatus[9] \in {"manual", "failed"} => input.humanDecisionGenerated /\ ~Decided
      /\ StepStatus[11] \in {"manual", "failed"} => input.analyticsReportGenerated
  BY StatusOfSteps DEF BootstrapStep, ExecuteStep
<1>. QED
  BY <1>1, <1>2 DEF WriteStepsOnce, WriteSteps

LEMMA JourneyCompleted == JourneyInv => CompletedMeansWritten
<1> SUFFICES ASSUME JourneyInv, OverallStatus = "completed"
             PROVE  /\ Seeded /\ Written /\ Decided /\ Reported
                    /\ \A i \in WriteSteps : executed[i] > 0
  BY DEF CompletedMeansWritten
<1>1. \A i \in StepNumbers : StepStatus[i] \in {"success", "ready"}
  BY DEF OverallStatus
<1>2. /\ StepStatus[3] \in {"success", "ready"} /\ StepStatus[7] \in {"success", "ready"}
      /\ StepStatus[9] \in {"success", "ready"} /\ StepStatus[11] \in {"success", "ready"}
  BY <1>1 DEF StepNumbers
<1>3. Seeded /\ Written /\ Decided /\ Reported
  BY <1>2, StatusOfSteps DEF BootstrapStep, ExecuteStep, Seeded, Written, Decided, Reported
<1>. QED
  BY <1>3 DEF JourneyInv, Counts, Written, Decided, Reported, WriteSteps

-----------------------------------------------------------------------------
(* Induction, over a set: the theorems of the library take a predicate as a *)
(* parameter.                                                               *)

Less == {pair \in Nat \X Nat : pair[1] < pair[2]}

LEMMA LessIsWellFounded == IsWellFoundedOn(Less, Nat)
BY NatLessThanWellFounded DEF OpToRel, Less

LEMMA SetInduction ==
  ASSUME NEW T, 0 \in T, \A n \in Nat : n \in T => n + 1 \in T
  PROVE  Nat \subseteq T
<1> DEFINE Rest == Nat \ T
<1> SUFFICES ASSUME Rest # {} PROVE FALSE
  OBVIOUS
<1>1. PICK x \in Rest : \A y \in Rest : ~(<<y, x>> \in Less)
  <2>1. Rest \subseteq Nat
    OBVIOUS
  <2> HIDE DEF Rest
  <2>. QED
    BY <2>1, LessIsWellFounded, WFMin
<1>2. x \in Nat /\ x # 0
  BY <1>1
<1>3. x - 1 \in Nat /\ x - 1 < x /\ x - 1 + 1 = x
  BY <1>2
<1>4. x - 1 \notin T
  BY <1>1, <1>3
<1>5. <<x - 1, x>> \in Less
  BY <1>2, <1>3 DEF Less
<1>. QED
  BY <1>1, <1>3, <1>4, <1>5

-----------------------------------------------------------------------------
(* The dataset that is loaded has the records that parse, and nothing else. *)

(* What one more entry of the file adds.                                    *)
LoadStep(entries, f, n) ==
  IF n = 0 THEN <<>>
  ELSE IF entries[n] = NoRecord THEN f[n - 1] ELSE Append(f[n - 1], entries[n])

LoadsUpTo(entries, f, n) ==
  f \in [0..n -> Seq(Records)] /\ \A m \in 0..n : f[m] = LoadStep(entries, f, m)

LEMMA LoadMore ==
  ASSUME NEW entries \in Seq(Records \cup {NoRecord}), NEW n \in Nat, n < Len(entries),
         NEW f, LoadsUpTo(entries, f, n)
  PROVE  \E g : LoadsUpTo(entries, g, n + 1)
<1> DEFINE next == LoadStep(entries, f, n + 1)
           g == [m \in 0..n + 1 |-> IF m = n + 1 THEN next ELSE f[m]]
<1>1. f \in [0..n -> Seq(Records)] /\ f[n] \in Seq(Records)
  BY DEF LoadsUpTo
<1>2. next \in Seq(Records)
  <2>1. entries[n + 1] \in Records \cup {NoRecord}
    BY ElementOfSeq
  <2>. QED
    BY <1>1, <2>1 DEF LoadStep
<1>3. g \in [0..n + 1 -> Seq(Records)]
  BY <1>1, <1>2
<1>4. ASSUME NEW m \in 0..n + 1
      PROVE  g[m] = LoadStep(entries, g, m)
  <2>1. CASE m = n + 1
    BY <2>1 DEF LoadStep
  <2>2. CASE m # n + 1
    <3>1. m \in 0..n /\ (m # 0 => m - 1 \in 0..n)
      BY <2>2
    <3>2. g[m] = f[m] /\ (m # 0 => g[m - 1] = f[m - 1])
      BY <2>2, <3>1
    <3> HIDE DEF g
    <3>. QED
      BY <3>1, <3>2 DEF LoadsUpTo, LoadStep
  <2>. QED
    BY <2>1, <2>2
<1>. HIDE DEF g
<1>. QED
  BY <1>3, <1>4 DEF LoadsUpTo

LEMMA LoadedType ==
  ASSUME NEW entries \in Seq(Records \cup {NoRecord})
  PROVE  Loaded(entries) \in Seq(Records)
<1> DEFINE N == Len(entries)
           T == {n \in Nat : n <= N => \E f : LoadsUpTo(entries, f, n)}
           f == CHOOSE f : f = [n \in 0..N |-> LoadStep(entries, f, n)]
           U == {n \in Nat : n <= N => f[n] \in Seq(Records)}
<1>0. N \in Nat
  OBVIOUS
<1>1. 0 \in T
  <2>1. LoadsUpTo(entries, [m \in {0} |-> <<>>], 0)
    BY DEF LoadsUpTo, LoadStep
  <2>. QED
    BY <2>1
<1>2. \A n \in Nat : n \in T => n + 1 \in T
  BY <1>0, LoadMore
<1>3. Nat \subseteq T
  <2> HIDE DEF T
  <2>. QED
    BY <1>1, <1>2, SetInduction
<1>4. f = [n \in 0..N |-> LoadStep(entries, f, n)]
  <2>1. PICK g : LoadsUpTo(entries, g, N)
    BY <1>0, <1>3
  <2>2. g = [n \in 0..N |-> LoadStep(entries, g, n)]
    BY <2>1 DEF LoadsUpTo
  <2> HIDE DEF N
  <2>. QED
    BY <2>2, Zenon
<1>5. Loaded(entries) = f[N]
  BY Zenon DEF Loaded, LoadStep
<1> HIDE DEF f
<1>6. 0 \in U
  BY <1>0, <1>4 DEF LoadStep
<1>7. \A n \in Nat : n \in U => n + 1 \in U
  <2> SUFFICES ASSUME NEW n \in Nat, n \in U, n + 1 <= N PROVE f[n + 1] \in Seq(Records)
    OBVIOUS
  <2>1. f[n] \in Seq(Records) /\ n + 1 \in 0..N /\ n + 1 # 0 /\ (n + 1) - 1 = n
    BY <1>0
  <2>2. entries[n + 1] \in Records \cup {NoRecord}
    BY <2>1, ElementOfSeq
  <2>3. f[n + 1] = LoadStep(entries, f, n + 1)
    BY <1>4, <2>1
  <2>. QED
    BY <2>1, <2>2, <2>3 DEF LoadStep
<1>8. Nat \subseteq U
  <2> HIDE DEF U
  <2>. QED
    BY <1>6, <1>7, SetInduction
<1>. QED
  BY <1>0, <1>5, <1>8

-----------------------------------------------------------------------------
(* The plan of a dataset run.                                               *)

LEMMA SixAgents ==
  /\ Agent = {"resume_intake", "resume_extraction", "graph_builder",
              "interview_kit", "screening_reviewer", "hr_coordinator"}
  /\ Len(AgentOrder) = 6 /\ \A n \in 1..6 : AgentOrder[n] \in Agent
BY DEF Agent, AgentOrder

(* Each status row has the audit row of the agent that moves before it.     *)
AuditedIn(rows, i) ==
  \E j \in 1..i - 1 :
    /\ rows[j].record = rows[i].record
    /\ rows[j].command.kind = "audit"
    /\ rows[j].command.run.after = rows[i].command.to

AuditsLead(rows) ==
  \A i \in 1..Len(rows) : rows[i].command.kind = "status" => AuditedIn(rows, i)

Plan(rows) == rows \in Seq(PlanRow) /\ AuditsLead(rows)

LEMMA MoveCommand ==
  ASSUME NEW a \in Agent, a # "graph_builder"
  PROVE  /\ AgentMove(a) \in PlanCommand /\ AgentMove(a).kind = "status"
         /\ AgentMove(a).to = ToStatus[a] /\ ToStatus[a] \in Status
BY SixAgents DEF AgentMove, StatusCommand, PlanCommand, ToStatus, Status

LEMMA OtherCommands ==
  /\ \A table \in {"resume_facts", "interview_kits", "evaluations"} :
       InsertCommand(table) \in PlanCommand /\ InsertCommand(table).kind = "insert"
  /\ RecommendCommand \in PlanCommand /\ RecommendCommand.kind = "recommend"
BY DEF InsertCommand, RecommendCommand, PlanCommand

LEMMA AuditRow ==
  ASSUME NEW a \in Agent, NEW succeeded \in BOOLEAN
  PROVE  /\ AuditOf(a, succeeded) \in PlanCommand /\ AuditOf(a, succeeded).kind = "audit"
         /\ succeeded => AuditOf(a, succeeded).run.after = ToStatus[a]
BY DEF PlanCommand, AuditOf, AuditCommand

(* The commands a served status row can be: a move to a status.             *)
LEMMA StatusRows ==
  ASSUME NEW command \in PlanCommand, command.kind = "status"
  PROVE  command.to \in Status
<1>1. CASE \E a \in Agent, succeeded \in BOOLEAN : command = AuditOf(a, succeeded)
  BY <1>1, AuditRow
<1>2. CASE \/ \E table \in {"resume_facts", "interview_kits", "evaluations"} :
                command = InsertCommand(table)
           \/ command = RecommendCommand
  BY <1>2, OtherCommands
<1>3. CASE \E a \in Agent \ {"graph_builder"} : command = AgentMove(a)
  BY <1>3, MoveCommand
<1>. QED
  BY <1>1, <1>2, <1>3 DEF PlanCommand

(* What an agent writes besides its audit row moves the candidate, if at    *)
(* all, to the status the audit row has.                                    *)
MovesTo(commands, status) ==
  /\ commands \in Seq(PlanCommand)
  /\ \A i \in 1..Len(commands) : commands[i].kind = "status" => commands[i].to = status

LEMMA ShortMovesTo ==
  ASSUME NEW c1 \in PlanCommand, NEW c2 \in PlanCommand, NEW c3 \in PlanCommand, NEW status,
         c1.kind = "status" => c1.to = status,
         c2.kind = "status" => c2.to = status,
         c3.kind = "status" => c3.to = status
  PROVE  /\ MovesTo(<<>>, status)
         /\ MovesTo(<<c1>>, status) /\ MovesTo(<<c1, c2>>, status)
         /\ MovesTo(<<c1, c2, c3>>, status)
BY DEF MovesTo

LEMMA BusinessMoves ==
  ASSUME NEW a \in Agent
  PROVE  MovesTo(BusinessWrites(a, ResumeFacts), ToStatus[a])
<1>0. ASSUME a # "graph_builder"
      PROVE  /\ AgentMove(a) \in PlanCommand /\ AgentMove(a).kind = "status"
             /\ AgentMove(a).to = ToStatus[a]
  BY <1>0, MoveCommand
<1>1. CASE a = "resume_intake"
  <2>1. BusinessWrites(a, ResumeFacts) = <<AgentMove(a)>>
    BY <1>1 DEF BusinessWrites, IntakeWrites
  <2>2. MovesTo(<<AgentMove(a)>>, ToStatus[a])
    BY <1>0, <1>1, ShortMovesTo
  <2>. QED
    BY <2>1, <2>2, Zenon
<1>2. CASE a = "resume_extraction"
  <2> DEFINE rows == [i \in 1..ResumeFacts |-> InsertCommand("resume_facts")]
  <2>1. BusinessWrites(a, ResumeFacts) = Append(rows, AgentMove(a))
    BY <1>2 DEF BusinessWrites, ExtractionWrites
  <2>2. rows \in Seq(PlanCommand) /\ Len(rows) = ResumeFacts
    BY DatasetAssumption, OtherCommands
  <2>3. \A i \in 1..ResumeFacts : rows[i].kind = "insert"
    BY OtherCommands
  <2> HIDE DEF rows
  <2>4. MovesTo(Append(rows, AgentMove(a)), ToStatus[a])
    BY <1>0, <1>2, <2>2, <2>3 DEF MovesTo
  <2>. QED
    BY <2>1, <2>4, Zenon
<1>3. CASE a = "graph_builder"
  <2>1. BusinessWrites(a, ResumeFacts) = <<>>
    BY <1>3 DEF BusinessWrites, GraphBuilderWrites
  <2>. QED
    BY <2>1 DEF MovesTo
<1>4. CASE a = "interview_kit"
  <2> DEFINE kit == InsertCommand("interview_kits")
  <2>1. BusinessWrites(a, ResumeFacts) = <<kit, AgentMove(a)>>
    BY <1>4 DEF BusinessWrites, InterviewKitWrites
  <2>2. kit \in PlanCommand /\ kit.kind = "insert"
    BY OtherCommands
  <2> HIDE DEF kit
  <2>3. MovesTo(<<kit, AgentMove(a)>>, ToStatus[a])
    BY <1>0, <1>4, <2>2, ShortMovesTo
  <2>. QED
    BY <2>1, <2>3, Zenon
<1>5. CASE a = "screening_reviewer"
  <2> DEFINE evaluation == InsertCommand("evaluations")
  <2>1. BusinessWrites(a, ResumeFacts) = <<evaluation, RecommendCommand, AgentMove(a)>>
    BY <1>5 DEF BusinessWrites, ReviewerWrites
  <2>2. /\ evaluation \in PlanCommand /\ evaluation.kind = "insert"
        /\ RecommendCommand \in PlanCommand /\ RecommendCommand.kind = "recommend"
    BY OtherCommands
  <2> HIDE DEF evaluation
  <2>3. MovesTo(<<evaluation, RecommendCommand, AgentMove(a)>>, ToStatus[a])
    BY <1>0, <1>5, <2>2, ShortMovesTo
  <2>. QED
    BY <2>1, <2>3, Zenon
<1>6. CASE a = "hr_coordinator"
  <2>1. BusinessWrites(a, ResumeFacts) \in {<<>>, <<AgentMove(a)>>}
    BY <1>6 DEF BusinessWrites, HrCoordinatorWrites
  <2>2. MovesTo(<<>>, ToStatus[a]) /\ MovesTo(<<AgentMove(a)>>, ToStatus[a])
    BY <1>0, <1>6, ShortMovesTo
  <2>. QED
    BY <2>1, <2>2, Zenon
<1>. QED
  BY <1>1, <1>2, <1>3, <1>4, <1>5, <1>6, SixAgents

(* The commands of one agent: its audit row, then what it moves.            *)
AuditFirst(commands) ==
  /\ commands \in Seq(PlanCommand)
  /\ \A i \in 1..Len(commands) : commands[i].kind = "status" =>
       /\ i > 1
       /\ commands[1].kind = "audit"
       /\ commands[1].run.after = commands[i].to

LEMMA OneElement ==
  ASSUME NEW S, NEW e \in S
  PROVE  <<e>> \in Seq(S) /\ Len(<<e>>) = 1 /\ <<e>>[1] = e
OBVIOUS

LEMMA AuditThenMoves ==
  ASSUME NEW audit \in PlanCommand, audit.kind = "audit", NEW writes, NEW status,
         MovesTo(writes, status), audit.run.after = status
  PROVE  AuditFirst(<<audit>> \o writes) /\ Len(<<audit>> \o writes) > 0
<1> DEFINE first == <<audit>>
           commands == first \o writes
<1>1. first \in Seq(PlanCommand) /\ Len(first) = 1 /\ first[1] = audit
  BY OneElement
<1> HIDE DEF first
<1>2. writes \in Seq(PlanCommand) /\ Len(writes) \in Nat
  BY LenProperties DEF MovesTo
<1>3. /\ commands \in Seq(PlanCommand) /\ Len(commands) = 1 + Len(writes)
      /\ \A i \in 1..1 + Len(writes) :
           commands[i] = IF i <= 1 THEN first[i] ELSE writes[i - 1]
  <2>1. /\ commands \in Seq(PlanCommand) /\ Len(commands) = Len(first) + Len(writes)
        /\ \A i \in 1..Len(first) + Len(writes) :
             commands[i] = IF i <= Len(first) THEN first[i] ELSE writes[i - Len(first)]
    BY ONLY <1>1, <1>2, ConcatProperties, Zenon
  <2> HIDE DEF commands
  <2>. QED
    BY ONLY <1>1, <2>1
<1> HIDE DEF commands
<1>4. commands[1] = audit
  BY <1>1, <1>2, <1>3
<1>5. ASSUME NEW i \in 1..Len(commands), commands[i].kind = "status"
      PROVE  i > 1 /\ commands[i].to = status
  <2>1. i # 1
    BY <1>4, <1>5
  <2>2. i - 1 \in 1..Len(writes) /\ commands[i] = writes[i - 1]
    BY <1>2, <1>3, <2>1
  <2>. QED
    BY <1>5, <2>1, <2>2 DEF MovesTo
<1>6. AuditFirst(commands) /\ Len(commands) > 0
  BY <1>2, <1>3, <1>4, <1>5 DEF AuditFirst
<1>. QED
  BY <1>6 DEF commands, first

LEMMA AuditAlone ==
  ASSUME NEW audit \in PlanCommand, audit.kind = "audit"
  PROVE  /\ AuditFirst(<<audit>>) /\ Len(<<audit>>) > 0
         /\ AuditFirst(<<>>)
BY DEF AuditFirst

LEMMA CommandsByShape ==
  ASSUME NEW r \in PipelineResult, NEW n \in 1..6
  PROVE  AuditFirst(CommandsBy(r, n)) /\ (n = 1 => Len(CommandsBy(r, n)) > 0)
<1> DEFINE a == AgentOrder[n]
           audit == AuditOf(a, TRUE)
           failure == AuditOf(a, FALSE)
           writes == BusinessWrites(a, ResumeFacts)
<1>0. a \in Agent /\ r.agents \in Nat
  BY SixAgents DEF PipelineResult, Agents
<1>1. /\ audit \in PlanCommand /\ audit.kind = "audit" /\ audit.run.after = ToStatus[a]
      /\ failure \in PlanCommand /\ failure.kind = "audit"
  BY <1>0, AuditRow
<1>2. MovesTo(writes, ToStatus[a])
  BY <1>0, BusinessMoves
<1>3. CommandsBy(r, n) = IF n <= r.agents THEN <<audit>> \o writes
                         ELSE IF n = r.agents + 1 THEN <<failure>> ELSE <<>>
  BY DEF CommandsBy
<1> HIDE DEF audit, failure, writes
<1>4. AuditFirst(<<audit>> \o writes) /\ Len(<<audit>> \o writes) > 0
  BY <1>1, <1>2, AuditThenMoves
<1>5. AuditFirst(<<failure>>) /\ Len(<<failure>>) > 0 /\ AuditFirst(<<>>)
  BY <1>1, AuditAlone
<1>6. CASE n <= r.agents
  BY <1>3, <1>4, <1>6
<1>7. CASE ~(n <= r.agents) /\ n = r.agents + 1
  BY <1>3, <1>5, <1>7
<1>8. CASE ~(n <= r.agents) /\ n # r.agents + 1
  BY <1>0, <1>3, <1>5, <1>8
<1>. QED
  BY <1>6, <1>7, <1>8

LEMMA RowsByPlan ==
  ASSUME NEW r \in PipelineResult, NEW n \in 1..6
  PROVE  Plan(RowsBy(r, n)) /\ (n = 1 => Len(RowsBy(r, n)) > 0)
<1> DEFINE commands == CommandsBy(r, n)
           rows == RowsBy(r, n)
<1>1. AuditFirst(commands) /\ (n = 1 => Len(commands) > 0)
  BY CommandsByShape
<1>2. rows = [i \in 1..Len(commands) |-> [record |-> r.record, command |-> commands[i]]]
  BY DEF RowsBy
<1>3. r.record \in Records
  BY DEF PipelineResult
<1> HIDE DEF commands, rows
<1>4. Len(commands) \in Nat /\ \A i \in 1..Len(commands) : commands[i] \in PlanCommand
  BY <1>1, LenProperties, ElementOfSeq DEF AuditFirst
<1>5. /\ rows \in Seq(PlanRow) /\ Len(rows) = Len(commands)
      /\ \A i \in 1..Len(commands) :
           rows[i].record = r.record /\ rows[i].command = commands[i]
  BY <1>2, <1>3, <1>4 DEF PlanRow
<1>6. AuditsLead(rows)
  BY <1>1, <1>4, <1>5 DEF AuditFirst, AuditsLead, AuditedIn
<1>. QED
  BY <1>1, <1>5, <1>6 DEF Plan, rows

LEMMA PlansJoin ==
  ASSUME NEW plan, NEW rows, Plan(plan), Plan(rows)
  PROVE  /\ Plan(plan \o rows)
         /\ Len(plan) > 0 \/ Len(rows) > 0 => Len(plan \o rows) > 0
<1> DEFINE all == plan \o rows
<1>1. /\ all \in Seq(PlanRow) /\ Len(all) = Len(plan) + Len(rows)
      /\ \A i \in 1..Len(plan) + Len(rows) :
           all[i] = IF i <= Len(plan) THEN plan[i] ELSE rows[i - Len(plan)]
      /\ Len(plan) \in Nat /\ Len(rows) \in Nat
  BY ConcatProperties, LenProperties DEF Plan
<1> HIDE DEF all
<1>2. ASSUME NEW i \in 1..Len(all), all[i].command.kind = "status"
      PROVE  AuditedIn(all, i)
  <2>1. CASE i <= Len(plan)
    <3>1. all[i] = plan[i] /\ i \in 1..Len(plan)
      BY <1>1, <2>1
    <3>2. PICK j \in 1..i - 1 : /\ plan[j].record = plan[i].record
                                 /\ plan[j].command.kind = "audit"
                                 /\ plan[j].command.run.after = plan[i].command.to
      BY <1>2, <3>1 DEF Plan, AuditsLead, AuditedIn
    <3>3. all[j] = plan[j]
      BY <1>1, <3>1
    <3>. QED
      BY <3>1, <3>2, <3>3 DEF AuditedIn
  <2>2. CASE i > Len(plan)
    <3> DEFINE k == i - Len(plan)
    <3>1. all[i] = rows[k] /\ k \in 1..Len(rows)
      BY <1>1, <2>2
    <3>2. PICK j \in 1..k - 1 : /\ rows[j].record = rows[k].record
                                 /\ rows[j].command.kind = "audit"
                                 /\ rows[j].command.run.after = rows[k].command.to
      BY <1>2, <3>1 DEF Plan, AuditsLead, AuditedIn
    <3>3. Len(plan) + j \in 1..i - 1 /\ all[Len(plan) + j] = rows[j]
      BY <1>1, <3>1
    <3>. QED
      BY <3>1, <3>2, <3>3 DEF AuditedIn
  <2>. QED
    BY <1>1, <2>1, <2>2
<1>3. Plan(all) /\ (Len(plan) > 0 \/ Len(rows) > 0 => Len(all) > 0)
  BY <1>1, <1>2 DEF Plan, AuditsLead
<1>. QED
  BY <1>3 DEF all

(* The rows of one entry are a plan with at least one row.                  *)
LEMMA RowsForPlan ==
  ASSUME NEW r \in PipelineResult
  PROVE  Plan(RowsFor[r]) /\ Len(RowsFor[r]) > 0
<1>1. RowsFor[r] = RowsBy(r, 1) \o RowsBy(r, 2) \o RowsBy(r, 3)
                     \o RowsBy(r, 4) \o RowsBy(r, 5) \o RowsBy(r, 6)
  BY DEF RowsFor
<1>2. /\ Plan(RowsBy(r, 1)) /\ Plan(RowsBy(r, 2)) /\ Plan(RowsBy(r, 3))
      /\ Plan(RowsBy(r, 4)) /\ Plan(RowsBy(r, 5)) /\ Plan(RowsBy(r, 6))
      /\ Len(RowsBy(r, 1)) > 0
  BY RowsByPlan
<1>. QED
  BY ONLY <1>1, <1>2, PlansJoin, Zenon

-----------------------------------------------------------------------------
(* The script that runs.                                                    *)

GoodTask(t) ==
  /\ t \in Task
  /\ t.kind = "none" => t.stage = "agents"
  /\ t.kind = "verify" => t.mode = "provider"
  /\ t.kind \in {"smoke", "demo"} => t.stage = "request"
  /\ t.stage = "agents" /\ t.kind # "none" => t.next \in 1..Len(t.entries)
  /\ t.stage \in {"snapshot", "writes"} => t.results # <<>> /\ Len(t.commands) > 0
  /\ t.results # <<>> /\ t.mode = "provider" => t.asked
  /\ Plan(t.commands)

TaskInv == provider \in Environments /\ GoodTask(task)

TaskKinds == {"none", "dataset", "verify", "pipeline", "smoke", "demo"}
TaskStages == {"agents", "snapshot", "writes", "request"}

TaskRecord(kind, mode, stage, writes, entries, results, commands, next, asked) ==
  [kind |-> kind, mode |-> mode, stage |-> stage, writes |-> writes, entries |-> entries,
   results |-> results, commands |-> commands, next |-> next, asked |-> asked]

LEMMA NoPlan == Plan(<<>>) /\ <<>> \in Seq(PipelineResult) /\ <<>> \in Seq(Records)
                  /\ <<>> \in Seq(PlanRow) /\ Len(<<>>) = 0
BY DEF Plan, AuditsLead

LEMMA NoTaskGood == GoodTask(NoTask) /\ NoTask.kind = "none" /\ NoTask.stage = "agents"
<1> DEFINE none == <<>>
<1>1. NoTask = TaskRecord("none", "deterministic", "agents", FALSE, none, none, none, 1, FALSE)
  BY DEF NoTask, TaskRecord
<1>2. Plan(none) /\ none \in Seq(PipelineResult) /\ none \in Seq(Records)
        /\ none \in Seq(PlanRow)
  BY NoPlan
<1>3. "none" \in TaskKinds /\ "deterministic" \in Modes /\ "agents" \in TaskStages
        /\ FALSE \in BOOLEAN /\ 1 \in Nat
  BY DEF TaskKinds, Modes, TaskStages
<1> DEFINE t == NoTask
<1>h. t = TaskRecord("none", "deterministic", "agents", FALSE, none, none, none, 1, FALSE)
  BY <1>1
<1> HIDE DEF t
<1>4. /\ t \in Task /\ t.kind = "none" /\ t.mode = "deterministic"
      /\ t.stage = "agents" /\ t.results = none /\ t.commands = none
  <2> HIDE DEF none
  <2>. QED
    BY ONLY <1>h, <1>2, <1>3 DEF TaskRecord, Task, TaskKinds, TaskStages
<1>5. GoodTask(t)
  <2> HIDE DEF none
  <2>. QED
    BY <1>2, <1>4 DEF GoodTask
<1>. QED
  BY <1>4, <1>5 DEF t

LEMMA NoTaskSpelt ==
  ASSUME NEW none, none = <<>>
  PROVE  NoTask = TaskRecord("none", "deterministic", "agents", FALSE, none, none, none, 1, FALSE)
BY DEF NoTask, TaskRecord

(* A script with entries to take through the pipeline.                      *)
LEMMA EntriesGood ==
  ASSUME NEW kind \in {"dataset", "verify", "pipeline"}, NEW mode \in Modes,
         NEW writes \in BOOLEAN, NEW entries \in Seq(Records), entries # <<>>,
         kind = "verify" => mode = "provider"
  PROVE  /\ GoodTask(Entries(kind, mode, writes, entries))
         /\ Entries(kind, mode, writes, entries).kind # "none"
         /\ Entries(kind, mode, writes, entries).stage # "writes"
<1> DEFINE none == <<>>
           t == Entries(kind, mode, writes, entries)
<1>1. t = TaskRecord(kind, mode, "agents", writes, entries, none, none, 1, FALSE)
  <2>0. NoTask = TaskRecord("none", "deterministic", "agents", FALSE, none, none, none, 1, FALSE)
    BY NoTaskSpelt
  <2> HIDE DEF none
  <2>1. t = [TaskRecord("none", "deterministic", "agents", FALSE, none, none, none, 1, FALSE)
               EXCEPT !.kind = kind, !.mode = mode, !.writes = writes, !.entries = entries]
    BY <2>0, Zenon DEF Entries
  <2> HIDE DEF t
  <2>. QED
    BY <2>1 DEF TaskRecord
<1>2. /\ none \in Seq(PipelineResult) /\ none \in Seq(PlanRow) /\ Plan(none)
      /\ Len(entries) \in Nat \ {0}
  BY NoPlan, EmptySeq
<1>3. /\ kind \in TaskKinds /\ kind # "none" /\ "agents" \in TaskStages
      /\ FALSE \in BOOLEAN /\ 1 \in Nat
  BY DEF TaskKinds, TaskStages
<1> HIDE DEF none, t
<1>4. /\ t \in Task /\ t.kind = kind /\ t.mode = mode /\ t.stage = "agents"
      /\ t.entries = entries /\ t.results = none /\ t.commands = none /\ t.next = 1
  BY ONLY mode \in Modes, writes \in BOOLEAN, entries \in Seq(Records),
          <1>1, <1>2, <1>3 DEF TaskRecord, Task, TaskKinds, TaskStages
<1>5. none = <<>>
  BY DEF none
<1>6. GoodTask(t) /\ t.kind # "none" /\ t.stage # "writes"
  BY <1>2, <1>3, <1>4, <1>5 DEF GoodTask
<1>. QED
  BY <1>6 DEF t

(* A script that makes one request.                                         *)
LEMMA RequestGood ==
  ASSUME NEW kind \in {"smoke", "demo"}
  PROVE  /\ GoodTask([NoTask EXCEPT !.kind = kind, !.stage = "request"])
         /\ [NoTask EXCEPT !.kind = kind, !.stage = "request"].kind # "none"
         /\ [NoTask EXCEPT !.kind = kind, !.stage = "request"].stage # "writes"
<1> DEFINE none == <<>>
           t == [NoTask EXCEPT !.kind = kind, !.stage = "request"]
<1>1. t = TaskRecord(kind, "deterministic", "request", FALSE, none, none, none, 1, FALSE)
  <2>0. NoTask = TaskRecord("none", "deterministic", "agents", FALSE, none, none, none, 1, FALSE)
    BY NoTaskSpelt
  <2> HIDE DEF none
  <2>1. t = [TaskRecord("none", "deterministic", "agents", FALSE, none, none, none, 1, FALSE)
               EXCEPT !.kind = kind, !.stage = "request"]
    BY <2>0, Zenon
  <2> HIDE DEF t
  <2>. QED
    BY <2>1 DEF TaskRecord
<1>2. /\ none \in Seq(PipelineResult) /\ none \in Seq(PlanRow) /\ Plan(none)
      /\ none \in Seq(Records)
  BY NoPlan
<1>3. /\ kind \in TaskKinds /\ kind # "none" /\ "request" \in TaskStages
      /\ FALSE \in BOOLEAN /\ 1 \in Nat /\ "deterministic" \in Modes /\ kind # "verify"
  BY DEF TaskKinds, TaskStages, Modes
<1> HIDE DEF none, t
<1>4. /\ t \in Task /\ t.kind = kind /\ t.mode = "deterministic" /\ t.stage = "request"
      /\ t.results = none /\ t.commands = none
  BY ONLY <1>1, <1>2, <1>3 DEF TaskRecord, Task, TaskKinds, TaskStages
<1>6. GoodTask(t) /\ t.kind # "none" /\ t.stage # "writes"
  BY <1>2, <1>3, <1>4 DEF GoodTask
<1>. QED
  BY <1>6 DEF t
(* What a script's start comes to: a script that runs, or an answer.        *)
Starting(t) == GoodTask(t) /\ t.kind # "none" /\ t.stage # "writes" /\ Begin(t)

Starts == \E t : Starting(t)

Telling(kind, status) == status \in {"blocked", "planned", "failed"} /\ Says(kind, status)

Tells == \E kind, status : Telling(kind, status)

LEMMA StartsOrTells ==
  ASSUME TaskInv,
         StartDataset \/ StartVerify \/ StartPipeline \/ StartSmoke \/ StartDemo
  PROVE  Starts \/ Tells
<1>0. provider.write \in BOOLEAN
  BY DatasetAssumption DEF TaskInv
<1>1. \A data \in Inputs : Loaded(data) \in Seq(Records)
  BY DatasetAssumption, LoadedType
<1>2. ASSUME NEW status \in {"blocked", "planned", "failed"}, NEW kind, Says(kind, status)
      PROVE  Tells
  BY <1>2 DEF Tells, Telling
<1>3. ASSUME NEW kind \in {"dataset", "verify", "pipeline"}, NEW mode \in Modes,
             NEW writes \in BOOLEAN, NEW entries \in Seq(Records), entries # <<>>,
             kind = "verify" => mode = "provider",
             Begin(Entries(kind, mode, writes, entries))
      PROVE  Starts
  <2>1. Starting(Entries(kind, mode, writes, entries))
    BY <1>3, EntriesGood, Zenon DEF Starting
  <2>. QED
    BY <2>1 DEF Starts
<1>4. ASSUME NEW kind \in {"smoke", "demo"},
             Begin([NoTask EXCEPT !.kind = kind, !.stage = "request"])
      PROVE  Starts
  <2>1. Starting([NoTask EXCEPT !.kind = kind, !.stage = "request"])
    BY <1>4, RequestGood, Zenon DEF Starting
  <2>. QED
    BY <2>1 DEF Starts
<1>5. CASE StartDataset
  <2>1. PICK data \in Inputs, useProvider, confirmed, writeConfirmed \in BOOLEAN :
          IF useProvider /\ ~DatasetGate(provider, confirmed)
          THEN Says("dataset", "blocked")
          ELSE /\ Loaded(data) # <<>>
               /\ Begin(Entries("dataset",
                                IF useProvider THEN "provider" ELSE "deterministic",
                                writeConfirmed /\ provider.write, Loaded(data)))
    BY <1>5, Zenon DEF StartDataset
  <2>2. CASE useProvider /\ ~DatasetGate(provider, confirmed)
    BY <1>2, <2>1, <2>2
  <2>3. CASE ~(useProvider /\ ~DatasetGate(provider, confirmed))
    <3> DEFINE mode == IF useProvider THEN "provider" ELSE "deterministic"
               writes == writeConfirmed /\ provider.write
    <3>1. Loaded(data) # <<>> /\ Begin(Entries("dataset", mode, writes, Loaded(data)))
      BY <2>1, <2>3, Zenon
    <3>2. mode \in Modes /\ writes \in BOOLEAN
      BY <1>0 DEF Modes
    <3> HIDE DEF mode, writes
    <3>. QED
      BY <1>1, <1>3, <3>1, <3>2
  <2>. QED
    BY <2>2, <2>3
<1>6. CASE StartVerify
  <2>1. PICK data \in Inputs, confirmed \in BOOLEAN :
          IF ~DatasetGate(provider, confirmed) THEN Says("verify", "blocked")
          ELSE IF Loaded(data) = <<>> THEN Says("verify", "failed")
          ELSE Begin(Entries("verify", "provider", FALSE, Loaded(data)))
    BY <1>6, Zenon DEF StartVerify
  <2>2. Says("verify", "blocked") => Tells
    BY <1>2
  <2>3. Says("verify", "failed") => Tells
    BY <1>2
  <2>4. Loaded(data) # <<>> /\ Begin(Entries("verify", "provider", FALSE, Loaded(data))) => Starts
    BY <1>1, <1>3 DEF Modes
  <2>. QED
    BY <2>1, <2>2, <2>3, <2>4, Zenon
<1>7. CASE StartPipeline
  <2>1. PICK r \in Records : Begin(Entries("pipeline", "deterministic", FALSE, <<r>>))
    BY <1>7, Zenon DEF StartPipeline
  <2>2. <<r>> \in Seq(Records) /\ <<r>> # <<>>
    BY OneElement
  <2>. QED
    BY <1>3, <2>1, <2>2 DEF Modes
<1>8. CASE StartSmoke
  <2>1. PICK execute, confirmed \in BOOLEAN :
          IF SmokePlan(provider, execute, confirmed) # "run"
          THEN Says("smoke", SmokePlan(provider, execute, confirmed))
          ELSE Begin([NoTask EXCEPT !.kind = "smoke", !.stage = "request"])
    BY <1>8, Zenon DEF StartSmoke
  <2>2. SmokePlan(provider, execute, confirmed) \in {"run", "planned", "blocked"}
    BY DEF SmokePlan
  <2>. QED
    BY <1>2, <1>4, <2>1, <2>2
<1>9. CASE StartDemo
  <2>1. PICK useProvider, execute, confirmed, data \in BOOLEAN :
          IF DemoPlan(provider, useProvider, execute, confirmed, data) # "run"
          THEN Says("demo", DemoPlan(provider, useProvider, execute, confirmed, data))
          ELSE Begin([NoTask EXCEPT !.kind = "demo", !.stage = "request"])
    BY <1>9, Zenon DEF StartDemo
  <2>2. DemoPlan(provider, useProvider, execute, confirmed, data)
          \in {"run", "planned", "blocked"}
    BY DEF DemoPlan
  <2>. QED
    BY <1>2, <1>4, <2>1, <2>2
<1>. QED
  BY <1>5, <1>6, <1>7, <1>8, <1>9

(* Every entry that has gone through leaves the script a good one.          *)
LEMMA RunEntryGood ==
  ASSUME TaskInv, RunEntry
  PROVE  GoodTask(task') /\ task'.kind = task.kind /\ task.stage = "agents"
           /\ task'.stage \in {"agents", "snapshot"}
<1> DEFINE t == task
<1>0. /\ GoodTask(t) /\ t.stage = "agents" /\ t.kind # "none"
      /\ t.next \in 1..Len(t.entries)
  BY DEF TaskInv, RunEntry, GoodTask
<1>1. PICK n \in PipelineEnds :
        LET result == [record |-> t.entries[t.next], agents |-> n]
        IN task' = [t EXCEPT !.results = Append(@, result),
                      !.commands = @ \o RowsFor[result], !.next = @ + 1,
                      !.asked = @ \/ t.mode = "provider",
                      !.stage = IF t.next = Len(t.entries) THEN "snapshot" ELSE @]
  BY DEF RunEntry
<1> DEFINE result == [record |-> t.entries[t.next], agents |-> n]
           results == Append(t.results, result)
           commands == t.commands \o RowsFor[result]
           next == t.next + 1
           asked == t.asked \/ t.mode = "provider"
           stage == IF t.next = Len(t.entries) THEN "snapshot" ELSE t.stage
<1>2. task' = [t EXCEPT !.results = results, !.commands = commands, !.next = next,
                 !.asked = asked, !.stage = stage]
  BY <1>1, Zenon
<1>3. /\ t \in Task /\ t.kind \in TaskKinds /\ t.mode \in Modes /\ t.writes \in BOOLEAN
      /\ t.entries \in Seq(Records) /\ t.results \in Seq(PipelineResult) /\ t.next \in Nat
      /\ t.asked \in BOOLEAN /\ Plan(t.commands) /\ Len(t.entries) \in Nat
  BY <1>0, LenProperties DEF GoodTask, Task, TaskKinds
<1>4. result \in PipelineResult
  <2>1. t.entries[t.next] \in Records
    BY <1>0, <1>3, ElementOfSeq
  <2>2. n \in 0..Agents
    BY DatasetAssumption, SixAgents DEF PipelineEnds, Agents
  <2>. QED
    BY <2>1, <2>2 DEF PipelineResult
<1>5. Plan(commands) /\ Len(commands) > 0
  BY <1>3, <1>4, RowsForPlan, PlansJoin, Zenon
<1>6. results \in Seq(PipelineResult) /\ results # <<>>
  BY <1>3, <1>4, AppendProperties
<1>7. /\ next \in Nat /\ asked \in BOOLEAN /\ stage \in {"agents", "snapshot"}
      /\ stage = "agents" => next \in 1..Len(t.entries)
      /\ t.mode = "provider" => asked
  BY <1>0, <1>3
<1> HIDE DEF t, result, results, commands, next, asked, stage
<1>8. task' = TaskRecord(t.kind, t.mode, stage, t.writes, t.entries, results, commands,
                         next, asked)
  BY ONLY <1>2, <1>3 DEF Task, TaskRecord
<1> DEFINE new == task'
<1>9. new = TaskRecord(t.kind, t.mode, stage, t.writes, t.entries, results, commands,
                       next, asked)
  BY <1>8
<1> HIDE DEF new
<1>10. /\ new.kind = t.kind /\ new.mode = t.mode /\ new.stage = stage
       /\ new.entries = t.entries /\ new.results = results /\ new.commands = commands
       /\ new.next = next /\ new.asked = asked
       /\ new = [kind |-> t.kind, mode |-> t.mode, stage |-> stage, writes |-> t.writes,
                 entries |-> t.entries, results |-> results, commands |-> commands,
                 next |-> next, asked |-> asked]
  BY ONLY <1>9 DEF TaskRecord
<1>11. new \in Task
  BY ONLY <1>3, <1>5, <1>6, <1>7, <1>10 DEF Task, TaskKinds, Plan
<1>12. /\ t.kind # "none" /\ (t.kind = "verify" => t.mode = "provider")
       /\ t.kind \notin {"smoke", "demo"}
  BY <1>0 DEF GoodTask
<1>13. GoodTask(new)
  BY ONLY <1>5, <1>6, <1>7, <1>10, <1>11, <1>12 DEF GoodTask
<1>14. GoodTask(task') /\ task'.kind = t.kind /\ task'.stage = stage
  BY <1>10, <1>13 DEF new
<1>. QED
  BY <1>0, <1>7, <1>14 DEF t
(* The other ways in which a script goes on.                                *)
LEMMA TaskMoves ==
  ASSUME NEW t, GoodTask(t), t.stage # "agents", NEW n \in Nat
  PROVE  /\ GoodTask([t EXCEPT !.next = n]) /\ [t EXCEPT !.next = n].stage = t.stage
         /\ [t EXCEPT !.next = n].next = n /\ [t EXCEPT !.next = n].kind = t.kind
         /\ GoodTask([t EXCEPT !.next = n, !.asked = TRUE])
         /\ [t EXCEPT !.next = n, !.asked = TRUE].stage = t.stage
         /\ [t EXCEPT !.next = n, !.asked = TRUE].kind = t.kind
         /\ t.stage = "snapshot" =>
              /\ GoodTask([t EXCEPT !.stage = "writes", !.next = n])
              /\ [t EXCEPT !.stage = "writes", !.next = n].stage = "writes"
              /\ [t EXCEPT !.stage = "writes", !.next = n].next = n
              /\ [t EXCEPT !.stage = "writes", !.next = n].kind = t.kind
<1>1. t \in Task
  BY DEF GoodTask
<1>2. ASSUME NEW new, new = [t EXCEPT !.next = n]
      PROVE  GoodTask(new) /\ new.stage = t.stage /\ new.next = n /\ new.kind = t.kind
  <2>1. /\ new \in Task /\ new.kind = t.kind /\ new.mode = t.mode /\ new.stage = t.stage
        /\ new.entries = t.entries /\ new.results = t.results /\ new.commands = t.commands
        /\ new.asked = t.asked /\ new.next = n
    BY <1>1, <1>2 DEF Task
  <2>. QED
    BY <2>1 DEF GoodTask
<1>3. ASSUME NEW new, new = [t EXCEPT !.next = n, !.asked = TRUE]
      PROVE  GoodTask(new) /\ new.stage = t.stage /\ new.kind = t.kind
  <2>1. /\ new \in Task /\ new.kind = t.kind /\ new.mode = t.mode /\ new.stage = t.stage
        /\ new.entries = t.entries /\ new.results = t.results /\ new.commands = t.commands
        /\ new.asked /\ new.next = n
    BY <1>1, <1>3 DEF Task
  <2>. QED
    BY <2>1 DEF GoodTask
<1>4. ASSUME NEW new, new = [t EXCEPT !.stage = "writes", !.next = n], t.stage = "snapshot"
      PROVE  GoodTask(new) /\ new.stage = "writes" /\ new.next = n /\ new.kind = t.kind
  <2>1. /\ new \in Task /\ new.kind = t.kind /\ new.mode = t.mode /\ new.stage = "writes"
        /\ new.entries = t.entries /\ new.results = t.results /\ new.commands = t.commands
        /\ new.asked = t.asked /\ new.next = n
    BY <1>1, <1>4 DEF Task
  <2>. QED
    BY <1>4, <2>1 DEF GoodTask
<1>. QED
  BY <1>2, <1>3, <1>4, Zenon

(* What each step of the scripts does to the one that runs.                 *)
LEMMA TaskKept ==
  ASSUME TaskInv, [DatasetNext]_datasetVars
  PROVE  TaskInv'
<1>0. GoodTask(task) /\ provider \in Environments
  BY DEF TaskInv
<1>1. CASE Starts
  <2>1. PICK t : Starting(t)
    BY <1>1 DEF Starts
  <2>. QED
    BY <1>0, <2>1 DEF Starting, Begin, TaskInv
<1>2. CASE Tells
  BY <1>0, <1>2 DEF Tells, Telling, Says, TaskInv
<1>3. ASSUME Finishes, UNCHANGED provider
      PROVE  TaskInv'
  BY <1>0, <1>3, NoTaskGood DEF Finishes, TaskInv
<1>4. CASE SmokeRequest
  BY <1>3, <1>4 DEF SmokeRequest
<1>5. CASE DemoRequest
  <2>1. UNCHANGED provider /\ (Finishes \/ task' = [task EXCEPT !.next = 2, !.asked = TRUE])
    BY <1>5 DEF DemoRequest
  <2>2. task.stage # "agents"
    BY <1>0, <1>5 DEF DemoRequest, GoodTask
  <2>3. GoodTask([task EXCEPT !.next = 2, !.asked = TRUE])
    BY <1>0, <2>2, TaskMoves
  <2>4. CASE Finishes
    BY <1>3, <2>1, <2>4
  <2>5. CASE task' = [task EXCEPT !.next = 2, !.asked = TRUE]
    <3>1. GoodTask(task')
      BY <2>3, <2>5, Zenon
    <3>. QED
      BY <1>0, <2>1, <3>1 DEF TaskInv
  <2>. QED
    BY <2>1, <2>4, <2>5
<1>6. CASE RunEntry
  <2>1. GoodTask(task') /\ UNCHANGED provider
    BY <1>6, RunEntryGood DEF RunEntry
  <2>. QED
    BY <1>0, <2>1 DEF TaskInv
<1>7. CASE WriteSnapshot
  <2>1. /\ task.stage = "snapshot" /\ UNCHANGED provider
        /\ Finishes \/ task' = [task EXCEPT !.stage = "writes", !.next = 1]
    BY <1>7 DEF WriteSnapshot, EndsWith
  <2>2. GoodTask([task EXCEPT !.stage = "writes", !.next = 1])
    BY <1>0, <2>1, TaskMoves
  <2>3. CASE Finishes
    BY <1>3, <2>1, <2>3
  <2>4. CASE task' = [task EXCEPT !.stage = "writes", !.next = 1]
    <3>1. GoodTask(task')
      BY <2>2, <2>4, Zenon
    <3>. QED
      BY <1>0, <2>1, <3>1 DEF TaskInv
  <2>. QED
    BY <2>1, <2>3, <2>4
<1>8. CASE SnapshotFails
  BY <1>3, <1>8 DEF SnapshotFails, EndsWith
<1>9. CASE CommandSucceeds
  <2>1. /\ task.stage = "writes" /\ UNCHANGED provider
        /\ Finishes \/ task' = [task EXCEPT !.next = @ + 1]
    BY <1>9 DEF CommandSucceeds
  <2>2. task.next \in Nat
    BY <1>0 DEF GoodTask, Task
  <2>3. GoodTask([task EXCEPT !.next = @ + 1])
    <3> DEFINE n == task.next + 1
    <3>1. n \in Nat /\ task.stage # "agents"
      BY <2>1, <2>2
    <3> HIDE DEF n
    <3>2. GoodTask([task EXCEPT !.next = n])
      BY <1>0, <3>1, TaskMoves
    <3>. QED
      BY <3>2 DEF n
  <2>4. CASE Finishes
    BY <1>3, <2>1, <2>4
  <2>5. CASE task' = [task EXCEPT !.next = @ + 1]
    <3>1. GoodTask(task')
      BY <2>3, <2>5, Zenon
    <3>. QED
      BY <1>0, <2>1, <3>1 DEF TaskInv
  <2>. QED
    BY <2>1, <2>4, <2>5
<1>10. CASE CommandFails
  BY <1>3, <1>10 DEF CommandFails
<1>11. CASE TaskKilled
  BY <1>3, <1>11 DEF TaskKilled
<1>12. CASE LostArrives \/ Decide \/ UNCHANGED datasetVars
  BY <1>0, <1>12 DEF LostArrives, Decide, datasetVars, TaskInv
<1>13. CASE ChangeProvider
  BY <1>0, <1>13 DEF ChangeProvider, TaskInv
<1>. QED
  BY <1>1, <1>2, <1>4, <1>5, <1>6, <1>7, <1>8, <1>9, <1>10, <1>11, <1>12, <1>13, StartsOrTells
     DEF DatasetNext, TaskStep

-----------------------------------------------------------------------------
(* What a script says in the end.                                           *)

FileGood(f) == f \in {NoFile, TornFile} \cup {Snapshot(m, r) : m \in Modes, r \in PipelineResult}

AnswerGood(a, f) ==
  /\ FileGood(f)
  /\ a.results \in Seq(PipelineResult)
  /\ a.status = "passed" =>
       /\ a.results # <<>>
       /\ \A e \in DOMAIN a.results : CompletedResult(a.results[e])
       /\ f = Snapshot("provider", a.results[Len(a.results)])
  /\ a.disclosed \/ a.status \in {"passed", "success"} => a.asked
  /\ a.status \in {"blocked", "planned"} => ~a.asked

(* While a script runs nothing has been said.                               *)
AnswerInv == AnswerGood(answer, file) /\ (~Idle => answer = NoAnswer)

LEMMA NothingSaid ==
  ASSUME NEW f, FileGood(f)
  PROVE  AnswerGood(NoAnswer, f)
BY NoPlan DEF AnswerGood, NoAnswer

LEMMA Finished == Finishes => Idle'
BY NoTaskGood DEF Finishes, Idle

(* The verification, at its end.                                            *)
LEMMA Verified ==
  ASSUME TaskInv, task.stage = "snapshot", task.kind = "verify", Finishes,
         file' = Snapshot(task.mode, task.results[Len(task.results)]),
         answer' = Answer(VerifyStatus(task.results), TRUE)
  PROVE  AnswerInv'
<1> DEFINE results == task.results
           last == results[Len(results)]
<1>1. /\ results \in Seq(PipelineResult) /\ results # <<>> /\ task.mode = "provider"
      /\ task.asked
  BY DEF TaskInv, GoodTask, Task
<1>2. last \in PipelineResult
  <2>1. Len(results) \in 1..Len(results)
    BY <1>1, EmptySeq, LenProperties
  <2>. QED
    BY <1>1, <2>1, ElementOfSeq
<1>3. FileGood(file')
  BY <1>1, <1>2 DEF FileGood, Modes
<1>4. /\ answer'.status = VerifyStatus(results) /\ answer'.results = results
      /\ answer'.asked /\ answer'.disclosed
  BY <1>1 DEF Answer
<1>5. VerifyStatus(results) \in {"passed", "failed"}
  BY DEF VerifyStatus
<1>6. VerifyStatus(results) = "passed" =>
        \A e \in DOMAIN results : CompletedResult(results[e])
  BY DEF VerifyStatus
<1>7. Idle'
  BY Finished
<1>8. file' = Snapshot("provider", last)
  BY <1>1
<1> HIDE DEF results, last
<1>9. last = results[Len(results)]
  BY DEF last, results
<1>10. AnswerGood(answer', file')
  BY <1>1, <1>3, <1>4, <1>5, <1>6, <1>8, <1>9 DEF AnswerGood
<1>. QED
  BY <1>7, <1>10 DEF AnswerInv

(* A script that ends without a verification's answer has said nothing.     *)
LEMMA AnswerKept ==
  ASSUME TaskInv, AnswerInv, [DatasetNext]_datasetVars
  PROVE  AnswerInv'
<1>0. /\ GoodTask(task) /\ task.results \in Seq(PipelineResult) /\ FileGood(file)
      /\ ~Idle => answer = NoAnswer
  BY DEF TaskInv, GoodTask, Task, AnswerInv, AnswerGood
<1>1. ASSUME ~Idle, UNCHANGED answer, FileGood(file')
      PROVE  AnswerInv'
  BY <1>0, <1>1, NothingSaid DEF AnswerInv
<1>2. CASE Starts
  <2>1. answer' = NoAnswer /\ UNCHANGED file
    BY <1>2 DEF Starts, Starting, Begin
  <2>2. AnswerGood(NoAnswer, file)
    BY <1>0, NothingSaid
  <2>. QED
    BY <2>1, <2>2 DEF AnswerInv
<1>3. CASE Tells
  <2>1. PICK kind, status : Telling(kind, status)
    BY <1>3 DEF Tells
  <2>2. /\ answer' = [NoAnswer EXCEPT !.kind = kind, !.status = status]
        /\ UNCHANGED <<task, file>> /\ Idle /\ status \in {"blocked", "planned", "failed"}
    BY <2>1 DEF Telling, Says
  <2>3. /\ answer'.status = status /\ answer'.results = <<>> /\ ~answer'.asked
        /\ ~answer'.disclosed
    BY <2>2 DEF NoAnswer
  <2>4. AnswerGood(answer', file')
    BY <1>0, <2>2, <2>3, NoPlan DEF AnswerGood
  <2>. QED
    BY <2>2, <2>4 DEF AnswerInv, Idle
<1>4. CASE SmokeRequest
  <2>1. PICK end \in CallEnds :
          answer' = [Answer(SmokeStatus(end), FALSE) EXCEPT !.asked = TRUE]
    BY <1>4 DEF SmokeRequest
  <2>2. /\ answer'.status = SmokeStatus(end) /\ answer'.results = task.results
        /\ answer'.asked
    BY <2>1 DEF Answer
  <2>3. SmokeStatus(end) \in {"success", "failed"}
    BY DEF SmokeStatus
  <2>4. Idle' /\ UNCHANGED file
    BY <1>4, Finished DEF SmokeRequest
  <2>5. AnswerGood(answer', file')
    BY <1>0, <2>2, <2>3, <2>4 DEF AnswerGood
  <2>. QED
    BY <2>4, <2>5 DEF AnswerInv
<1>5. CASE DemoRequest
  <2>1. PICK end \in CallEnds, fits \in BOOLEAN :
          IF AsksAgain(end, fits)
          THEN /\ task' = [task EXCEPT !.next = 2, !.asked = TRUE]
               /\ UNCHANGED answer
          ELSE /\ answer' = [Answer(IF ClientAnswers(end) /\ fits THEN "success" ELSE "failed",
                                    FALSE) EXCEPT !.asked = TRUE]
               /\ Finishes
    BY <1>5, Zenon DEF DemoRequest
  <2>2. UNCHANGED file /\ ~Idle
    BY <1>5 DEF DemoRequest, Idle
  <2>3. CASE AsksAgain(end, fits)
    BY <1>0, <1>1, <2>1, <2>2, <2>3
  <2>4. CASE ~AsksAgain(end, fits)
    <3> DEFINE status == IF ClientAnswers(end) /\ fits THEN "success" ELSE "failed"
    <3>1. status \in {"success", "failed"}
      OBVIOUS
    <3>2. answer' = [Answer(status, FALSE) EXCEPT !.asked = TRUE] /\ Finishes
      BY <2>1, <2>4, Zenon
    <3> HIDE DEF status
    <3>3. answer'.status = status /\ answer'.results = task.results /\ answer'.asked
      BY <3>2 DEF Answer
    <3>4. AnswerGood(answer', file')
      BY <1>0, <2>2, <3>1, <3>3 DEF AnswerGood
    <3>. QED
      BY <3>2, <3>4, Finished DEF AnswerInv
  <2>. QED
    BY <2>3, <2>4
<1>6. CASE RunEntry
  BY <1>0, <1>1, <1>6 DEF RunEntry, Idle
<1>7. CASE WriteSnapshot
  <2>1. /\ task.stage = "snapshot" /\ ~Idle
        /\ file' = Snapshot(task.mode, task.results[Len(task.results)])
    BY <1>0, <1>7 DEF WriteSnapshot, GoodTask, Idle
  <2>2. \/ UNCHANGED answer
        \/ /\ task.kind = "verify" /\ Finishes
           /\ answer' = Answer(VerifyStatus(task.results), TRUE)
    BY <1>7 DEF WriteSnapshot, EndsWith
  <2>3. FileGood(file')
    <3>1. task.mode \in Modes /\ task.results # <<>>
      BY <1>0, <2>1 DEF GoodTask, Task
    <3>2. Len(task.results) \in 1..Len(task.results)
      BY <1>0, <3>1, EmptySeq, LenProperties
    <3>3. task.results[Len(task.results)] \in PipelineResult
      BY <1>0, <3>2, ElementOfSeq
    <3>. QED
      BY <2>1, <3>1, <3>3 DEF FileGood
  <2>4. CASE UNCHANGED answer
    BY <1>1, <2>1, <2>3, <2>4
  <2>5. CASE /\ task.kind = "verify" /\ Finishes
             /\ answer' = Answer(VerifyStatus(task.results), TRUE)
    BY <2>1, <2>5, Verified
  <2>. QED
    BY <2>2, <2>4, <2>5
<1>8. CASE SnapshotFails
  <2>1. /\ ~Idle /\ FileGood(file') /\ Finishes
        /\ UNCHANGED answer \/ answer' = Answer("failed", FALSE)
    <3>1. task.stage = "snapshot" /\ file' \in {file, TornFile} /\ EndsWith("failed", FALSE)
      BY <1>8 DEF SnapshotFails
    <3>2. FileGood(TornFile)
      BY DEF FileGood
    <3>. QED
      BY <1>0, <3>1, <3>2 DEF EndsWith, GoodTask, Idle
  <2>2. CASE UNCHANGED answer
    BY <1>1, <2>1, <2>2
  <2>3. CASE answer' = Answer("failed", FALSE)
    <3>1. answer'.status = "failed" /\ answer'.results = task.results /\ ~answer'.disclosed
      BY <2>3 DEF Answer
    <3>2. AnswerGood(answer', file')
      BY <1>0, <2>1, <3>1 DEF AnswerGood
    <3>. QED
      BY <2>1, <3>2, Finished DEF AnswerInv
  <2>. QED
    BY <2>1, <2>2, <2>3
<1>9. CASE CommandSucceeds \/ CommandFails
  <2>1. ~Idle /\ UNCHANGED <<answer, file>>
    BY <1>0, <1>9 DEF CommandSucceeds, CommandFails, GoodTask, Idle
  <2>. QED
    BY <1>0, <1>1, <2>1
<1>10. CASE TaskKilled
  <2>1. ~Idle /\ UNCHANGED answer /\ FileGood(file')
    BY <1>0, <1>10 DEF TaskKilled, FileGood
  <2>. QED
    BY <1>1, <2>1
<1>11. CASE LostArrives \/ Decide \/ ChangeProvider \/ UNCHANGED datasetVars
  <2>1. UNCHANGED <<task, file, answer>>
    BY <1>11 DEF LostArrives, Decide, ChangeProvider, datasetVars
  <2>. QED
    BY <2>1 DEF AnswerInv, Idle
<1>. QED
  BY <1>2, <1>3, <1>4, <1>5, <1>6, <1>7, <1>8, <1>9, <1>10, <1>11, StartsOrTells
     DEF DatasetNext, TaskStep

-----------------------------------------------------------------------------
(* What the runs write to the Base.                                         *)

(* The request q of a run comes from its plan, and every command before it  *)
(* has been served.                                                         *)
Reached(ps, done, q) ==
  /\ q \in (1..Len(ps)) \X Nat
  /\ q[2] \in 1..Len(ps[q[1]])
  /\ \A j \in 1..q[2] - 1 : <<q[1], j>> \in done

(* The command that gave a record the status it has.                        *)
GivenBy(ps, done, r, entry, i) ==
  /\ Reached(ps, done, <<entry.by, i>>) /\ <<entry.by, i>> \in done
  /\ ps[entry.by][i].record = r
  /\ ps[entry.by][i].command.kind = "status" /\ ps[entry.by][i].command.to = entry.status

Explained(ps, done, r, entry) ==
  /\ entry \in [status : Status, by : 0..Len(ps)]
  /\ entry.by # 0 => \E i \in Nat : GivenBy(ps, done, r, entry, i)

PlansGood(ps) ==
  /\ ps \in Seq(Seq(PlanRow)) /\ Len(ps) <= MaxPlans
  /\ \A run \in 1..Len(ps) : Plan(ps[run])

LiveGood(ps, done, l) ==
  /\ l = [r \in Records |-> l[r]]
  /\ \A r \in Records : Explained(ps, done, r, l[r])

RequestsGood(ps, done, requests) == \A q \in requests : Reached(ps, done, q)

WritingGood(t, ps, done) ==
  t.stage = "writes" => ps # <<>> /\ Reached(ps, done, <<Len(ps), t.next>>)

WritesInv ==
  /\ PlansGood(plans)
  /\ RequestsGood(plans, served, served) /\ RequestsGood(plans, served, lost)
  /\ LiveGood(plans, served, live)
  /\ WritingGood(task, plans, served)

(* One more command served takes nothing back, and neither does one more    *)
(* plan.                                                                    *)
LEMMA ReachedStays ==
  ASSUME NEW ps, NEW done, NEW more, done \subseteq more, NEW q, Reached(ps, done, q)
  PROVE  Reached(ps, more, q)
BY DEF Reached

LEMMA ExplainedStays ==
  ASSUME NEW ps, NEW done, NEW more, done \subseteq more, NEW r, NEW entry,
         Explained(ps, done, r, entry)
  PROVE  Explained(ps, more, r, entry)
<1>1. ASSUME NEW i \in Nat, GivenBy(ps, done, r, entry, i)
      PROVE  GivenBy(ps, more, r, entry, i)
  <2>1. Reached(ps, more, <<entry.by, i>>)
    BY <1>1, ReachedStays, Zenon DEF GivenBy
  <2>. QED
    BY <1>1, <2>1 DEF GivenBy
<1>. QED
  BY <1>1 DEF Explained

LEMMA PlanAdded ==
  ASSUME NEW ps, PlansGood(ps), NEW plan, Plan(plan), Len(ps) < MaxPlans
  PROVE  /\ PlansGood(Append(ps, plan)) /\ Len(Append(ps, plan)) = Len(ps) + 1
         /\ Append(ps, plan)[Len(ps) + 1] = plan /\ Len(ps) \in Nat
         /\ \A run \in 1..Len(ps) : Append(ps, plan)[run] = ps[run]
<1>1. ps \in Seq(Seq(PlanRow)) /\ Len(ps) \in Nat /\ plan \in Seq(PlanRow)
  BY LenProperties DEF PlansGood, Plan
<1> DEFINE new == Append(ps, plan)
<1>2. /\ new \in Seq(Seq(PlanRow)) /\ Len(new) = Len(ps) + 1
      /\ new[Len(ps) + 1] = plan
      /\ \A run \in 1..Len(ps) : new[run] = ps[run]
  BY <1>1, AppendProperties
<1> HIDE DEF new
<1>3. PlansGood(new)
  <2>1. \A run \in 1..Len(new) : Plan(new[run])
    <3> SUFFICES ASSUME NEW run \in 1..Len(new) PROVE Plan(new[run])
      OBVIOUS
    <3>1. CASE run = Len(ps) + 1
      BY <1>2, <3>1
    <3>2. CASE run # Len(ps) + 1
      <4>1. run \in 1..Len(ps)
        BY <1>1, <1>2, <3>2
      <4>. QED
        BY <1>2, <4>1 DEF PlansGood
    <3>. QED
      BY <3>1, <3>2
  <2>2. Len(new) <= MaxPlans
    BY <1>1, <1>2, DatasetAssumption
  <2>. QED
    BY <1>2, <2>1, <2>2 DEF PlansGood
<1>. QED
  BY <1>1, <1>2, <1>3 DEF new

(* What is said of a run stays true when plans are added behind its plan.   *)
PlansGrow(ps, new) ==
  /\ Len(ps) \in Nat /\ Len(new) \in Nat /\ Len(ps) <= Len(new)
  /\ \A run \in 1..Len(ps) : new[run] = ps[run]

LEMMA ReachedGrows ==
  ASSUME NEW ps, NEW new, PlansGrow(ps, new), NEW done, NEW q, Reached(ps, done, q)
  PROVE  Reached(new, done, q)
BY DEF Reached, PlansGrow

LEMMA ExplainedGrows ==
  ASSUME NEW ps, NEW new, PlansGrow(ps, new), NEW done, NEW r, NEW entry,
         Explained(ps, done, r, entry)
  PROVE  Explained(new, done, r, entry)
<1>1. ASSUME NEW i \in Nat, GivenBy(ps, done, r, entry, i), entry.by # 0
      PROVE  GivenBy(new, done, r, entry, i)
  <2>1. Reached(new, done, <<entry.by, i>>)
    BY <1>1, ReachedGrows, Zenon DEF GivenBy
  <2>2. new[entry.by] = ps[entry.by]
    BY <1>1 DEF Explained, PlansGrow
  <2>. QED
    BY <1>1, <2>1, <2>2 DEF GivenBy
<1>2. entry \in [status : Status, by : 0..Len(new)]
  BY DEF Explained, PlansGrow
<1>. QED
  BY <1>1, <1>2 DEF Explained

(* The Base serves a command of a plan, all of whose commands before it it  *)
(* has served.                                                              *)
LEMMA Serve ==
  ASSUME WritesInv, NEW run, NEW i, Reached(plans, served, <<run, i>>), ServeCommand(run, i),
         UNCHANGED plans
  PROVE  /\ served' = served \cup {<<run, i>>}
         /\ RequestsGood(plans', served', served') /\ LiveGood(plans', served', live')
<1> DEFINE row == plans[run][i]
           done == served \cup {<<run, i>>}
<1>1. /\ served' = done
      /\ live' = IF row.command.kind = "status"
                 THEN [live EXCEPT ![row.record] = [status |-> row.command.to, by |-> run]]
                 ELSE live
  BY DEF ServeCommand
<1>2. /\ run \in 1..Len(plans) /\ i \in Nat /\ i \in 1..Len(plans[run])
      /\ plans \in Seq(Seq(PlanRow)) /\ Len(plans) \in Nat
  BY LenProperties DEF Reached, WritesInv, PlansGood
<1>3. row \in PlanRow
  <2>1. plans[run] \in Seq(PlanRow)
    BY <1>2, ElementOfSeq
  <2>. QED
    BY <1>2, <2>1, ElementOfSeq
<1>4. row.record \in Records /\ row.command \in PlanCommand
  BY <1>3 DEF PlanRow
<1>5. \A q \in done : Reached(plans, done, q)
  <2>1. \A q \in served : Reached(plans, served, q)
    BY DEF WritesInv, RequestsGood
  <2> SUFFICES ASSUME NEW q \in done PROVE Reached(plans, done, q)
    OBVIOUS
  <2>2. Reached(plans, served, q)
    BY <2>1
  <2>3. served \subseteq done
    OBVIOUS
  <2> HIDE DEF done
  <2>. QED
    BY <2>2, <2>3, ReachedStays
<1>6. \A r \in Records : Explained(plans, done, r, live[r])
  <2>1. \A r \in Records : Explained(plans, served, r, live[r])
    BY DEF WritesInv, LiveGood
  <2>2. served \subseteq done
    OBVIOUS
  <2> HIDE DEF done
  <2>. QED
    BY <2>1, <2>2, ExplainedStays
<1>7. live = [r \in Records |-> live[r]]
  BY DEF WritesInv, LiveGood
<1>8. row.command.kind = "status" =>
        Explained(plans, done, row.record, [status |-> row.command.to, by |-> run])
  <2> SUFFICES ASSUME row.command.kind = "status"
               PROVE  Explained(plans, done, row.record, [status |-> row.command.to, by |-> run])
    OBVIOUS
  <2> DEFINE entry == [status |-> row.command.to, by |-> run]
  <2>1. row.command.to \in Status
    BY <1>4, StatusRows
  <2>2. entry \in [status : Status, by : 0..Len(plans)] /\ entry.by = run
        /\ entry.status = row.command.to
    BY <1>2, <2>1
  <2>3. Reached(plans, done, <<run, i>>) /\ <<run, i>> \in done
    BY <1>5
  <2> HIDE DEF entry, done
  <2>4. GivenBy(plans, done, row.record, entry, i)
    BY <2>2, <2>3 DEF GivenBy
  <2>5. Explained(plans, done, row.record, entry)
    BY <1>2, <2>2, <2>4 DEF Explained
  <2>. QED
    BY <2>5 DEF entry
<1> HIDE DEF row, done
<1>9. live' = [r \in Records |-> live'[r]]
  BY <1>1, <1>7
<1>10. \A r \in Records : Explained(plans, done, r, live'[r])
  <2> SUFFICES ASSUME NEW r \in Records PROVE Explained(plans, done, r, live'[r])
    OBVIOUS
  <2>1. CASE live'[r] = live[r]
    BY <1>6, <2>1
  <2>2. CASE live'[r] # live[r]
    <3>1. /\ row.command.kind = "status" /\ r = row.record
          /\ live'[r] = [status |-> row.command.to, by |-> run]
      BY <1>1, <1>4, <1>7, <2>2
    <3>. QED
      BY <1>8, <3>1
  <2>. QED
    BY <2>1, <2>2
<1>11. done = served \cup {<<run, i>>}
  BY DEF done
<1>12. LiveGood(plans, done, live') /\ RequestsGood(plans, done, done)
  BY <1>5, <1>9, <1>10 DEF LiveGood, RequestsGood
<1>. QED
  BY <1>1, <1>11, <1>12
(* A request that is given up may still come through.                       *)
LEMMA LoseKeeps ==
  ASSUME WritesInv, task.stage = "writes", Lose, UNCHANGED <<plans, served>>
  PROVE  RequestsGood(plans', served', lost')
<1>1. Reached(plans, served, <<Len(plans), task.next>>)
  BY DEF WritesInv, WritingGood
<1>2. lost' \subseteq lost \cup {<<Len(plans), task.next>>}
  BY DEF Lose, Run
<1>. QED
  BY <1>1, <1>2 DEF WritesInv, RequestsGood

(* Each step of the scripts, and what comes through behind them.            *)
LEMMA WritesKept ==
  ASSUME TaskInv, WritesInv, [DatasetNext]_datasetVars
  PROVE  WritesInv'
<1>0. /\ GoodTask(task) /\ PlansGood(plans) /\ LiveGood(plans, served, live)
      /\ RequestsGood(plans, served, served) /\ RequestsGood(plans, served, lost)
  BY DEF TaskInv, WritesInv
<1>1. ASSUME UNCHANGED <<plans, served, live>>, RequestsGood(plans', served', lost'),
             WritingGood(task', plans', served')
      PROVE  WritesInv'
  BY <1>0, <1>1 DEF WritesInv
<1>2. ASSUME UNCHANGED <<plans, served, lost, live>>, task'.stage # "writes"
      PROVE  WritesInv'
  BY <1>0, <1>1, <1>2 DEF WritingGood
<1>3. Finishes => task'.stage # "writes"
  BY NoTaskGood DEF Finishes
<1>4. CASE Starts
  BY <1>2, <1>4 DEF Starts, Starting, Begin
<1>5. CASE Tells \/ ChangeProvider \/ UNCHANGED datasetVars
  <2>1. UNCHANGED <<task, plans, served, lost, live>>
    BY <1>5 DEF Tells, Telling, Says, ChangeProvider, datasetVars
  <2>. QED
    BY <2>1 DEF WritesInv
<1>6. CASE SmokeRequest
  BY <1>2, <1>3, <1>6 DEF SmokeRequest
<1>7. CASE DemoRequest
  <2>1. /\ UNCHANGED <<plans, served, lost, live>>
        /\ Finishes \/ task' = [task EXCEPT !.next = 2, !.asked = TRUE]
    BY <1>7 DEF DemoRequest
  <2>2. task.stage = "request"
    BY <1>0, <1>7 DEF DemoRequest, GoodTask
  <2>3. CASE Finishes
    BY <1>2, <1>3, <2>1, <2>3
  <2>4. CASE task' = [task EXCEPT !.next = 2, !.asked = TRUE]
    <3>1. [task EXCEPT !.next = 2, !.asked = TRUE].stage = task.stage
      BY <1>0, <2>2, TaskMoves
    <3>2. task'.stage = "request"
      BY <2>2, <2>4, <3>1, Zenon
    <3>. QED
      BY <1>2, <2>1, <3>2
  <2>. QED
    BY <2>1, <2>3, <2>4
<1>8. CASE RunEntry
  BY <1>2, <1>8, RunEntryGood DEF RunEntry
<1>9. CASE WriteSnapshot
  <2>1. CASE ~task.writes
    BY <1>2, <1>3, <1>9, <2>1 DEF WriteSnapshot, EndsWith
  <2>2. CASE task.writes
    <3>1. /\ task.stage = "snapshot" /\ Len(plans) < MaxPlans
          /\ task' = [task EXCEPT !.stage = "writes", !.next = 1]
          /\ plans' = Append(plans, task.commands)
          /\ UNCHANGED <<served, lost, live>>
      BY <1>9, <2>2 DEF WriteSnapshot
    <3>2. Plan(task.commands) /\ Len(task.commands) > 0 /\ Len(task.commands) \in Nat
      BY <1>0, <3>1, LenProperties DEF GoodTask, Plan
    <3>3. task'.stage = "writes" /\ task'.next = 1
      <4>1. /\ [task EXCEPT !.stage = "writes", !.next = 1].stage = "writes"
            /\ [task EXCEPT !.stage = "writes", !.next = 1].next = 1
        BY <1>0, <3>1, TaskMoves
      <4>. QED
        BY <3>1, <4>1, Zenon
    <3>4. /\ PlansGood(plans') /\ Len(plans') = Len(plans) + 1
          /\ plans'[Len(plans) + 1] = task.commands /\ Len(plans) \in Nat
          /\ \A run \in 1..Len(plans) : plans'[run] = plans[run]
      BY <1>0, <3>1, <3>2, PlanAdded
    <3>5. PlansGrow(plans, plans')
      BY <3>4 DEF PlansGrow
    <3>6. RequestsGood(plans', served', served') /\ RequestsGood(plans', served', lost')
      BY <1>0, <3>1, <3>5, ReachedGrows DEF RequestsGood
    <3>7. LiveGood(plans', served', live')
      BY <1>0, <3>1, <3>5, ExplainedGrows DEF LiveGood
    <3>8. Reached(plans', served', <<Len(plans'), task'.next>>) /\ plans' # <<>>
      BY <3>2, <3>3, <3>4, NoPlan DEF Reached
    <3>. QED
      BY <3>4, <3>6, <3>7, <3>8 DEF WritesInv, WritingGood
  <2>. QED
    BY <2>1, <2>2
<1>10. CASE SnapshotFails
  BY <1>2, <1>3, <1>10 DEF SnapshotFails, EndsWith
<1>11. CASE CommandSucceeds
  <2> DEFINE i == task.next
             run == Len(plans)
  <2>1. /\ task.stage = "writes" /\ ServeCommand(run, i) /\ UNCHANGED <<plans, lost>>
        /\ \/ Finishes
           \/ i # Len(plans[run]) /\ task' = [task EXCEPT !.next = @ + 1]
    BY <1>11 DEF CommandSucceeds, Run, LastCommand
  <2>2. Reached(plans, served, <<run, i>>) /\ plans # <<>>
    BY <2>1 DEF WritesInv, WritingGood
  <2>3. /\ served' = served \cup {<<run, i>>}
        /\ RequestsGood(plans', served', served') /\ LiveGood(plans', served', live')
    BY <2>1, <2>2, Serve
  <2>4. RequestsGood(plans', served', lost')
    BY <1>0, <2>1, <2>3, ReachedStays DEF RequestsGood
  <2>5. WritingGood(task', plans', served')
    <3>1. CASE Finishes
      BY <1>3, <3>1 DEF WritingGood
    <3>2. CASE i # Len(plans[run]) /\ task' = [task EXCEPT !.next = @ + 1]
      <4>1. i \in Nat /\ i \in 1..Len(plans[run]) /\ run \in 1..Len(plans)
            /\ plans \in Seq(Seq(PlanRow))
            /\ \A j \in 1..i - 1 : <<run, j>> \in served
        BY <1>0, <2>2 DEF Reached, PlansGood
      <4>2. Len(plans[run]) \in Nat
        BY <4>1, ElementOfSeq, LenProperties
      <4>3. task'.next = i + 1
        <5>1. task \in Task
          BY <1>0 DEF GoodTask
        <5>. QED
          BY <3>2, <5>1 DEF Task
      <4>4. i + 1 \in 1..Len(plans[run]) /\ i + 1 \in Nat
        BY <3>2, <4>1, <4>2
      <4>5. \A j \in 1..i : <<run, j>> \in served'
        BY <2>3, <4>1
      <4>6. Reached(plans, served', <<run, i + 1>>)
        BY <4>1, <4>4, <4>5 DEF Reached
      <4>. QED
        BY <2>1, <2>2, <4>3, <4>6 DEF WritingGood
    <3>. QED
      BY <2>1, <3>1, <3>2
  <2>. QED
    BY <1>0, <2>1, <2>3, <2>4, <2>5 DEF WritesInv
<1>12. CASE CommandFails
  <2>1. task.stage = "writes" /\ Lose /\ Finishes /\ UNCHANGED <<plans, served, live>>
    BY <1>12 DEF CommandFails
  <2>2. RequestsGood(plans', served', lost')
    BY <2>1, LoseKeeps
  <2>. QED
    BY <1>1, <1>3, <2>1, <2>2 DEF WritingGood
<1>13. CASE TaskKilled
  <2>1. Finishes /\ UNCHANGED <<plans, served, live>>
    BY <1>13 DEF TaskKilled
  <2>2. RequestsGood(plans', served', lost')
    BY <1>0, <1>13, <2>1, LoseKeeps DEF TaskKilled
  <2>. QED
    BY <1>1, <1>3, <2>1, <2>2 DEF WritingGood
<1>14. CASE LostArrives
  <2>1. PICK request \in lost :
          /\ lost' = lost \ {request}
          /\ ServeCommand(request[1], request[2]) \/ UNCHANGED <<served, live>>
          /\ UNCHANGED <<task, plans>>
    BY <1>14, Zenon DEF LostArrives
  <2>2. Reached(plans, served, request)
    BY <1>0 DEF RequestsGood
  <2>3. CASE UNCHANGED <<served, live>>
    <3>1. RequestsGood(plans', served', lost') /\ WritingGood(task', plans', served')
      BY <1>0, <2>1, <2>3 DEF RequestsGood, WritesInv
    <3>. QED
      BY <1>1, <2>1, <2>3, <3>1
  <2>4. CASE ServeCommand(request[1], request[2])
    <3>1. request = <<request[1], request[2]>>
      BY <2>2 DEF Reached
    <3>2. Reached(plans, served, <<request[1], request[2]>>)
      BY <2>2, <3>1, Zenon
    <3>3. /\ served' = served \cup {<<request[1], request[2]>>}
          /\ RequestsGood(plans', served', served') /\ LiveGood(plans', served', live')
      BY <2>1, <2>4, <3>2, Serve
    <3>4. served \subseteq served'
      BY <3>3
    <3>5. RequestsGood(plans', served', lost')
      BY <1>0, <2>1, <3>4, ReachedStays DEF RequestsGood
    <3>6. WritingGood(task', plans', served')
      BY <2>1, <3>4, ReachedStays DEF WritesInv, WritingGood
    <3>. QED
      BY <1>0, <2>1, <3>3, <3>5, <3>6 DEF WritesInv
  <2>. QED
    BY <2>1, <2>3, <2>4
<1>15. CASE Decide
  <2>1. PICK r \in Records, decision \in FinalStatus :
          /\ live' = [live EXCEPT ![r] = [status |-> decision, by |-> 0]]
          /\ UNCHANGED <<task, plans, served, lost>>
    BY <1>15 DEF Decide
  <2>2. decision \in Status
    BY DEF FinalStatus, Status
  <2>3. live = [q \in Records |-> live[q]] /\ \A q \in Records : Explained(plans, served, q, live[q])
    BY <1>0 DEF LiveGood
  <2>4. Explained(plans, served, r, [status |-> decision, by |-> 0])
    BY <1>0, <2>2, LenProperties DEF Explained, PlansGood
  <2>5. LiveGood(plans, served, live')
    <3>1. live' = [q \in Records |-> live'[q]]
      BY <2>1, <2>3
    <3>2. \A q \in Records : live'[q] = live[q] \/ (q = r /\ live'[q] = [status |-> decision, by |-> 0])
      BY <2>1, <2>3
    <3>. QED
      BY <2>3, <2>4, <3>1, <3>2 DEF LiveGood
  <2>. QED
    BY <1>0, <2>1, <2>5 DEF WritesInv
<1>. QED
  BY <1>4, <1>5, <1>6, <1>7, <1>8, <1>9, <1>10, <1>11, <1>12, <1>13, <1>14, <1>15, StartsOrTells
     DEF DatasetNext, TaskStep

(* A status served has the audit row before it, served before.              *)
LEMMA AuditServed ==
  ASSUME WritesInv, NEW r \in Records, live[r].by # 0
  PROVE  LET plan == plans[live[r].by]
         IN \E i \in DOMAIN plan :
              /\ <<live[r].by, i>> \in served
              /\ plan[i].record = r
              /\ plan[i].command.kind = "audit"
              /\ plan[i].command.run.after = live[r].status
<1> DEFINE run == live[r].by
           plan == plans[run]
<1>1. PICK i \in Nat : GivenBy(plans, served, r, live[r], i)
  BY DEF WritesInv, LiveGood, Explained
<1>2. /\ run \in 1..Len(plans) /\ i \in 1..Len(plan)
      /\ \A j \in 1..i - 1 : <<run, j>> \in served
      /\ plan[i].record = r /\ plan[i].command.kind = "status"
      /\ plan[i].command.to = live[r].status
  BY <1>1 DEF GivenBy, Reached
<1>3. Plan(plan)
  BY <1>2 DEF WritesInv, PlansGood
<1>4. AuditedIn(plan, i) /\ plan \in Seq(PlanRow)
  BY <1>2, <1>3 DEF Plan, AuditsLead
<1>5. PICK j \in 1..i - 1 : /\ plan[j].record = plan[i].record
                             /\ plan[j].command.kind = "audit"
                             /\ plan[j].command.run.after = plan[i].command.to
  BY <1>4 DEF AuditedIn
<1>6. j \in DOMAIN plan
  BY <1>2, <1>4, LenProperties
<1>. QED
  BY <1>2, <1>5, <1>6

-----------------------------------------------------------------------------
(* The operator, whichever way is taken: the three parts share no variable, *)
(* so each step is a step of one of them and a stutter of the others.       *)

DemoTyped == demo \in [{"jobs", "candidates"} -> 0..2]

OperationInv ==
  /\ route \in Routes
  /\ DemoTyped /\ OnceInv
  /\ JourneyInv
  /\ TaskInv /\ AnswerInv /\ WritesInv

LEMMA Steps ==
  [Next]_vars =>
    /\ [MvpNext]_mvpVars
    /\ [JourneyNext]_journeyVars
    /\ [DatasetNext]_datasetVars
    /\ UNCHANGED route
BY DEF Next, AlongMvp, AlongE2e, WithDatasets, vars

LEMMA InitOperation == Init => OperationInv
<1> SUFFICES ASSUME Init PROVE OperationInv
  OBVIOUS
<1>1. MvpInit /\ JourneyInit /\ DatasetInit /\ route \in Routes
  BY DEF Init
<1>2. DemoTyped
  BY <1>1 DEF MvpInit, DemoTyped
<1>3. OnceInv /\ JourneyInv
  BY <1>1, InitOnce, InitJourney
<1>4. TaskInv
  BY <1>1, NoTaskGood DEF DatasetInit, TaskInv
<1>5. AnswerInv
  <2>1. FileGood(NoFile)
    BY DEF FileGood
  <2>. QED
    BY <1>1, <2>1, NothingSaid DEF DatasetInit, AnswerInv
<1>6. WritesInv
  <2>1. plans = <<>> /\ served = {} /\ lost = {} /\ task.stage = "agents"
        /\ live = [r \in Records |-> [status |-> "new", by |-> 0]]
    BY <1>1, NoTaskGood DEF DatasetInit
  <2>2. PlansGood(plans) /\ Len(plans) = 0
    BY <2>1, DatasetAssumption DEF PlansGood
  <2>3. LiveGood(plans, served, live)
    BY <2>1, <2>2 DEF LiveGood, Explained, Status
  <2>. QED
    BY <2>1, <2>2, <2>3 DEF WritesInv, RequestsGood, WritingGood
<1>. QED
  BY <1>1, <1>2, <1>3, <1>4, <1>5, <1>6 DEF OperationInv

LEMMA DemoKept == DemoTyped /\ [MvpNext]_mvpVars => DemoTyped'
<1> SUFFICES ASSUME DemoTyped, [MvpNext]_mvpVars PROVE DemoTyped'
  OBVIOUS
<1>1. CASE Surroundings
  BY <1>1 DEF Surroundings, DemoTyped
<1>2. CASE UNCHANGED demo
  BY <1>2 DEF DemoTyped
<1>3. CASE UNCHANGED mvpVars
  BY <1>2, <1>3 DEF mvpVars
<1>4. CASE Reading \/ StartExecution
  BY <1>2, <1>4 DEF Reading, StartExecution, Start
<1>5. CASE ScriptStep
  BY <1>2, <1>5 DEF ScriptStep, Resolve, ResolveSample, Unresolved, ReportReadiness,
     ReportDryRun, ExecutionBlocked, BeginWrites, WriteSucceeds, WriteFails
<1>6. CASE Killed \/ LateArrives
  BY <1>2, <1>6 DEF Killed, LateArrives
<1>. QED
  BY <1>1, <1>3, <1>4, <1>5, <1>6 DEF MvpNext

LEMMA NextOperation == OperationInv /\ [Next]_vars => OperationInv'
<1> SUFFICES ASSUME OperationInv, [Next]_vars PROVE OperationInv'
  OBVIOUS
<1>1. [MvpNext]_mvpVars /\ [JourneyNext]_journeyVars /\ [DatasetNext]_datasetVars
      /\ UNCHANGED route
  BY Steps
<1>2. OnceInv' /\ DemoTyped' /\ JourneyInv'
  BY <1>1, NextOnce, DemoKept, NextJourney DEF OperationInv
<1>3. TaskInv' /\ AnswerInv' /\ WritesInv'
  BY <1>1, TaskKept, AnswerKept, WritesKept DEF OperationInv
<1>. QED
  BY <1>1, <1>2, <1>3 DEF OperationInv

THEOREM OperatesInOrder == Spec => []OperationInv
BY InitOperation, NextOperation, PTL DEF Spec

-----------------------------------------------------------------------------
LEMMA DatasetTyped == TaskInv /\ AnswerInv /\ WritesInv => DatasetType
<1> SUFFICES ASSUME TaskInv, AnswerInv, WritesInv PROVE DatasetType
  OBVIOUS
<1>1. provider \in Environments /\ [f \in ProviderFields |-> provider[f]] \in ProviderConfig
  BY DatasetAssumption DEF TaskInv, ProviderConfig
<1>2. task \in Task /\ FileGood(file) /\ answer.results \in Seq(PipelineResult)
  BY DEF TaskInv, GoodTask, AnswerInv, AnswerGood
<1>3. plans \in Seq(Seq(PlanRow)) /\ Len(plans) <= MaxPlans /\ Len(plans) \in Nat
  BY LenProperties DEF WritesInv, PlansGood
<1>4. served \subseteq (1..MaxPlans) \X Nat /\ lost \subseteq (1..MaxPlans) \X Nat
  <2>1. \A q \in served \cup lost : q \in (1..Len(plans)) \X Nat
    BY DEF WritesInv, RequestsGood, Reached
  <2>. QED
    BY <1>3, <2>1, DatasetAssumption
<1>5. live \in [Records -> [status : Status, by : 0..MaxPlans]]
  <2>1. live = [r \in Records |-> live[r]]
        /\ \A r \in Records : live[r] \in [status : Status, by : 0..Len(plans)]
    BY DEF WritesInv, LiveGood, Explained
  <2>2. [status : Status, by : 0..Len(plans)] \subseteq [status : Status, by : 0..MaxPlans]
    BY <1>3, DatasetAssumption
  <2>3. \A r \in Records : live[r] \in [status : Status, by : 0..MaxPlans]
    BY <2>1, <2>2
  <2>. QED
    BY <2>1, <2>3
<1>. QED
  BY <1>1, <1>2, <1>3, <1>4, <1>5 DEF DatasetType, FileGood

LEMMA MvpTyped == OnceInv /\ DemoTyped => MvpType
<1> SUFFICES ASSUME OnceInv, DemoTyped PROVE MvpType
  OBVIOUS
<1>1. config \in Config /\ script \in Script /\ notes \in Notes
  BY DEF OnceInv, Typed
<1>2. runs \in 0..MaxRuns
  BY DEF OnceInv, Nothing, WritingOnce, Over
<1>3. written \subseteq Runs \X Commands /\ late \subseteq Runs \X Commands
  <2>1. CASE Nothing
    BY <2>1 DEF Nothing
  <2>2. CASE WritingOnce
    BY <2>2 DEF WritingOnce, Runs, Commands
  <2>3. CASE Over
    BY <2>3 DEF Over, Runs
  <2>. QED
    BY <2>1, <2>2, <2>3 DEF OnceInv
<1>. QED
  BY <1>1, <1>2, <1>3 DEF MvpType, DemoTyped

(* The state of all three parts has its type, for any number of commands,   *)
(* attempts, candidates and runs.                                           *)
THEOREM OperationTyping == Spec => []TypeOK
<1>1. OperationInv => TypeOK
  BY DatasetTyped, MvpTyped DEF OperationInv, TypeOK, JourneyInv
<1>. QED
  BY <1>1, OperatesInOrder, PTL

(* What MvpOperation_proofs shows of the MVP scripts holds of them beside   *)
(* the other two ways of working.                                           *)
THEOREM RowsOnceAlongTheRunbook == Spec => []NoRowTwice
<1>1. OperationInv => NoRowTwice
  BY OneExecution DEF OperationInv
<1>. QED
  BY <1>1, OperatesInOrder, PTL

(* The recovery plan's likely written rows are in the Base, and at most one *)
(* row beside them, also here.                                              *)
THEOREM RecoveryPlanBounds == Spec => []RecoveryBounds
<1>1. OperationInv => RecoveryBounds
  BY PlanBounds DEF OperationInv
<1>. QED
  BY <1>1, OperatesInOrder, PTL

(* The E2E runbook leads to each write step at most once, for any number of *)
(* attempts the operator is willing to make: what a step that was tried has *)
(* left behind never lets the runbook show it as the step to take.          *)
THEOREM RunbookWritesOnce == Spec => []WriteStepsOnce
<1>1. OperationInv => WriteStepsOnce
  BY JourneyWritesOnce DEF OperationInv
<1>. QED
  BY <1>1, OperatesInOrder, PTL

(* A runbook that says completed has seen every write done.                 *)
THEOREM CompletedIsWritten == Spec => []CompletedMeansWritten
<1>1. OperationInv => CompletedMeansWritten
  BY JourneyCompleted DEF OperationInv
<1>. QED
  BY <1>1, OperatesInOrder, PTL

(* What a verification, a smoke and a demo say of the model is so, for any  *)
(* datasets and environments: while a script runs it has said nothing, and  *)
(* a result of the provider means that the provider was asked.              *)
THEOREM AnswersAreSo == Spec => []AnswersHold
<1>1. OperationInv => AnswersHold
  BY DEF OperationInv, AnswerInv, AnswerGood, AnswersHold
<1>. QED
  BY <1>1, OperatesInOrder, PTL

(* A status that a dataset run has written has its audit row, for any       *)
(* number of candidates, of runs and of requests that come through late: a  *)
(* plan has the audit row before the status row, and a command is sent when *)
(* all before it were served.                                               *)
THEOREM AuditBehindEveryStatus == Spec => []StatusHasAudit
<1>1. OperationInv => StatusHasAudit
  BY AuditServed DEF OperationInv, StatusHasAudit
<1>. QED
  BY <1>1, OperatesInOrder, PTL
=============================================================================
