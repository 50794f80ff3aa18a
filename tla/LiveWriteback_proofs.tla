------------------------ MODULE LiveWriteback_proofs ------------------------
(***************************************************************************)
(* Proofs about LiveWriteback for every number of records, links, servers, *)
(* scripts, deciders and data versions.                                    *)
(***************************************************************************)
EXTENDS LiveWriteback, SequenceTheorems, FiniteSetTheorems, TLAPS

-----------------------------------------------------------------------------
(* What the commands of a plan are.                                         *)

AuditRun ==
  [agent : Agent, stamp : Nat, data : DataVersions \cup {DemoData}]
    \cup [agent : {"analytics"}, stamp : Nat]

RowCommand ==
  [kind : {"audit"}, run : AuditRun]
    \cup [kind : {"insert"},
          table : {"resume_facts", "interview_kits", "evaluations", "reports"}]
    \cup [kind : {"recommend"}]

AgentCommand ==
  RowCommand \cup [kind : {"status"}, from : Status, to : Status \ FinalStatus,
                   actor : {"agent"}]

LEMMA LongerConcat ==
  ASSUME NEW S, NEW u \in Seq(S), NEW v \in Seq(S), Len(u) >= 1
  PROVE  u \o v \in Seq(S) /\ Len(u \o v) >= 1
BY ConcatProperties, LenProperties

LEMMA AgentNames ==
  Agent = {"resume_intake", "resume_extraction", "graph_builder",
           "interview_kit", "screening_reviewer", "hr_coordinator"}
BY DEF Agent, AgentOrder

(* An agent's plan never holds a final status or a decision; its audit row  *)
(* is always there.                                                         *)
LEMMA AgentPlanCommands ==
  ASSUME NEW a \in Agent, NEW audit \in AuditRun
  PROVE  /\ AgentPlan(a, audit, 1) \in Seq(AgentCommand)
         /\ Len(AgentPlan(a, audit, 1)) >= 1
<1>1. <<AuditCommand(audit)>> \in Seq(AgentCommand)
  BY DEF AuditCommand, AgentCommand, RowCommand
<1>2. /\ RecommendCommand \in AgentCommand
      /\ \A table \in {"resume_facts", "interview_kits", "evaluations"} :
           InsertCommand(table) \in AgentCommand
  BY DEF InsertCommand, RecommendCommand, AgentCommand, RowCommand
<1>3. \A b \in Agent \ {"graph_builder"} : AgentMove(b) \in AgentCommand
  <2>1. \A b \in Agent \ {"graph_builder"} :
          FromStatus[b] \in Status /\ ToStatus[b] \in Status \ FinalStatus
    BY AgentNames DEF FromStatus, ToStatus, Status, FinalStatus
  <2> QED  BY <2>1 DEF AgentMove, StatusCommand, AgentCommand
<1>4. BusinessWrites(a, 1) \in Seq(AgentCommand)
  <2>1. CASE a \in {"resume_intake", "hr_coordinator"}
    <3>1. <<AgentMove(a)>> \in Seq(AgentCommand) /\ <<>> \in Seq(AgentCommand)
      BY <1>3, <2>1, AgentNames
    <3>2. BusinessWrites(a, 1) = <<AgentMove(a)>> \/ BusinessWrites(a, 1) = <<>>
      BY <2>1 DEF BusinessWrites, IntakeWrites, HrCoordinatorWrites
    <3> QED  BY <3>1, <3>2
  <2>2. CASE a = "resume_extraction"
    <3>1. [i \in 1..1 |-> InsertCommand("resume_facts")] \in Seq(AgentCommand)
      BY <1>2
    <3>2. ExtractionWrites(1) \in Seq(AgentCommand)
      BY <1>3, <2>2, <3>1, AppendProperties DEF ExtractionWrites
    <3> QED  BY <2>2, <3>2 DEF BusinessWrites
  <2>3. CASE a = "graph_builder"
    BY <2>3 DEF BusinessWrites, GraphBuilderWrites
  <2>4. CASE a = "interview_kit"
    <3>1. <<InsertCommand("interview_kits"), AgentMove(a)>> \in Seq(AgentCommand)
      BY <1>2, <1>3, <2>4, AgentNames
    <3> QED  BY <2>4, <3>1 DEF BusinessWrites, InterviewKitWrites
  <2>5. CASE a = "screening_reviewer"
    <3>1. <<InsertCommand("evaluations"), RecommendCommand, AgentMove(a)>>
            \in Seq(AgentCommand)
      BY <1>2, <1>3, <2>5, AgentNames
    <3> QED  BY <2>5, <3>1 DEF BusinessWrites, ReviewerWrites
  <2> QED  BY <2>1, <2>2, <2>3, <2>4, <2>5, AgentNames
<1>5. Len(<<AuditCommand(audit)>>) >= 1
  OBVIOUS
<1> QED  BY <1>1, <1>4, <1>5, LongerConcat DEF AgentPlan

LEMMA PipelineCommandsTyped ==
  ASSUME NEW n \in Nat, NEW data \in DataVersions \cup {DemoData}
  PROVE  /\ PipelineCommands(n, data) \in Seq(AgentCommand)
         /\ Len(PipelineCommands(n, data)) >= 1
<1> DEFINE Audit(a) == [agent |-> a, stamp |-> n, data |-> data]
           Of(a) == AgentPlan(a, Audit(a), 1)
<1>1. \A a \in Agent : Of(a) \in Seq(AgentCommand) /\ Len(Of(a)) >= 1
  <2> TAKE a \in Agent
  <2>1. Audit(a) \in AuditRun
    BY DEF AuditRun
  <2> HIDE DEF Audit
  <2> QED  BY <2>1, AgentPlanCommands
<1>2. PipelineCommands(n, data) =
        Of("resume_intake") \o Of("resume_extraction") \o Of("graph_builder")
          \o Of("interview_kit") \o Of("screening_reviewer") \o Of("hr_coordinator")
  BY DEF PipelineCommands
<1> HIDE DEF Of
<1> QED  BY <1>1, <1>2, LongerConcat, AgentNames

(* What a command of each kind of plan can be.                              *)
LEMMA CommandsOfDecision ==
  ASSUME NEW plan \in DecisionPlans
  PROVE  /\ Commands(plan) = <<DecisionCommand(plan.input),
                               StatusCommand("decision_pending", plan.input.decision,
                                             "human_confirm")>>
         /\ Len(Commands(plan)) = 2
BY DEF DecisionPlans, Commands, DecisionCommands

LEMMA CommandsOfWrites ==
  ASSUME NEW plan \in WritePlans
  PROVE  Commands(plan) \in Seq(AgentCommand) /\ Len(Commands(plan)) >= 1
<1>1. Commands(plan) = PipelineCommands(plan.stamp, plan.data)
  BY DEF WritePlans, Commands
<1> QED  BY <1>1, PipelineCommandsTyped DEF WritePlans

ScriptCommand ==
  AgentCommand \cup {DecisionCommand(DemoInput),
                     StatusCommand("decision_pending", "offer", "human_confirm")}

LEMMA CommandsOfMvp ==
  ASSUME NEW plan \in MvpPlans
  PROVE  Commands(plan) \in Seq(ScriptCommand) /\ Len(Commands(plan)) >= 1
<1>1. Commands(plan) = PipelineCommands(plan.stamp, plan.data)
                         \o DecisionCommands(DemoInput) \o ReportCommands(plan.stamp)
  BY DEF MvpPlans, Commands
<1>2. /\ PipelineCommands(plan.stamp, plan.data) \in Seq(ScriptCommand)
      /\ Len(PipelineCommands(plan.stamp, plan.data)) >= 1
  <2>1. /\ PipelineCommands(plan.stamp, plan.data) \in Seq(AgentCommand)
        /\ Len(PipelineCommands(plan.stamp, plan.data)) >= 1
    BY PipelineCommandsTyped DEF MvpPlans
  <2>2. AgentCommand \subseteq ScriptCommand
    BY DEF ScriptCommand
  <2> QED  BY <2>1, <2>2, SeqMonotonic
<1>3. DecisionCommands(DemoInput) \in Seq(ScriptCommand)
  BY DEF DecisionCommands, ScriptCommand, DemoInput
<1>4. ReportCommands(plan.stamp) \in Seq(ScriptCommand)
  <2>1. AuditCommand([agent |-> "analytics", stamp |-> plan.stamp]) \in ScriptCommand
    BY DEF AuditCommand, ScriptCommand, AgentCommand, RowCommand, AuditRun, MvpPlans
  <2>2. InsertCommand("reports") \in ScriptCommand
    BY DEF InsertCommand, ScriptCommand, AgentCommand, RowCommand
  <2> QED  BY <2>1, <2>2 DEF ReportCommands
<1> QED  BY <1>1, <1>2, <1>3, <1>4, LongerConcat

LEMMA AgentCommandKinds ==
  ASSUME NEW cmd \in AgentCommand
  PROVE  /\ cmd.kind # "decision"
         /\ cmd.kind = "status" => cmd.to \in Status \ FinalStatus
BY DEF AgentCommand, RowCommand

(* The two commands that touch the modelled fields, by plan: only decision  *)
(* and script plans write a decision or a final status, and only their own. *)
LEMMA CommandKinds ==
  ASSUME NEW x \in Execution
  PROVE  LET plan == x.plan
             cmd == Commands(plan)[x.next]
         IN  /\ cmd.kind = "status" => cmd.to \in Status
             /\ cmd.kind = "decision" =>
                  plan.op \in {"decision", "mvp"} /\ cmd.input = plan.input
             /\ cmd.kind = "status" /\ cmd.to \in FinalStatus =>
                  plan.op \in {"decision", "mvp"} /\ cmd.to = plan.input.decision
<1> DEFINE plan == x.plan
           cmd == Commands(plan)[x.next]
<1>1. plan \in Plan /\ x.next \in 1..Len(Commands(plan))
  BY DEF Execution
<1>2. CASE plan \in DecisionPlans
  <2>1. plan.op = "decision" /\ plan.input.decision \in FinalStatus
    BY <1>2 DEF DecisionPlans, Inputs, FinalDecision, FinalStatus
  <2>2. x.next \in {1, 2}
    <3>1. Len(Commands(plan)) = 2
      BY <1>2, CommandsOfDecision
    <3> QED  BY <1>1, <3>1
  <2>3. CASE x.next = 1
    BY <1>2, <2>1, <2>3, CommandsOfDecision DEF DecisionCommand
  <2>4. CASE x.next = 2
    BY <1>2, <2>1, <2>4, CommandsOfDecision DEF StatusCommand, Status, FinalStatus
  <2> QED  BY <2>2, <2>3, <2>4
<1>3. CASE plan \in WritePlans
  <2>1. cmd \in AgentCommand
    BY <1>1, <1>3, CommandsOfWrites
  <2> QED  BY <2>1, AgentCommandKinds
<1>4. CASE plan \in MvpPlans
  <2>1. cmd \in ScriptCommand
    BY <1>1, <1>4, CommandsOfMvp
  <2>2. plan.op = "mvp" /\ plan.input = DemoInput
    BY <1>4 DEF MvpPlans
  <2>3. CASE cmd \in AgentCommand
    BY <2>3, AgentCommandKinds
  <2>4. CASE cmd = DecisionCommand(DemoInput)
    BY <2>2, <2>4 DEF DecisionCommand
  <2>5. CASE cmd = StatusCommand("decision_pending", "offer", "human_confirm")
    BY <2>2, <2>5 DEF StatusCommand, DemoInput, Status
  <2> QED  BY <2>1, <2>3, <2>4, <2>5 DEF ScriptCommand
<1> QED  BY <1>1, <1>2, <1>3, <1>4 DEF Plan

-----------------------------------------------------------------------------
(* Type correctness.                                                        *)

LEMMA WrittenTyped ==
  ASSUME base \in [Cands -> Row], NEW x \in Execution
  PROVE  Written(x.plan, x.next) \in [Cands -> Row]
<1> DEFINE plan == x.plan
           cmd == Commands(plan)[x.next]
<1>1. plan \in Plan
  BY DEF Execution
<1>2. plan.cand \in Cands /\ plan.input \in Inputs \cup {NoDecision, DemoInput}
  BY <1>1, ConstantsAssumption DEF Plan, DecisionPlans, WritePlans, MvpPlans
<1>3. CASE cmd.kind = "status"
  <2> DEFINE after == [base EXCEPT ![plan.cand].status = cmd.to]
  <2>1. Written(plan, x.next) = after
    BY <1>3 DEF Written
  <2>2. cmd.to \in Status
    BY <1>3, CommandKinds
  <2> HIDE DEF cmd, plan
  <2>3. base[plan.cand] \in Row
    BY <1>2
  <2>4. [base[plan.cand] EXCEPT !.status = cmd.to] \in Row
    BY <1>2, <2>2, <2>3 DEF Row
  <2>5. after \in [Cands -> Row]
    BY <1>2, <2>4
  <2> HIDE DEF after
  <2> QED  BY <2>1, <2>5 DEF plan
<1>4. CASE cmd.kind = "decision"
  <2> DEFINE after == [base EXCEPT ![plan.cand].decision = cmd.input]
  <2>1. Written(plan, x.next) = after
    BY <1>4 DEF Written
  <2>2. cmd.input = plan.input
    BY <1>4, CommandKinds
  <2> HIDE DEF cmd, plan
  <2>3. base[plan.cand] \in Row
    BY <1>2
  <2>4. [base[plan.cand] EXCEPT !.decision = cmd.input] \in Row
    BY <1>2, <2>2, <2>3 DEF Row
  <2>5. after \in [Cands -> Row]
    BY <1>2, <2>4
  <2> HIDE DEF after
  <2> QED  BY <2>1, <2>5 DEF plan
<1>5. CASE cmd.kind \notin {"status", "decision"}
  <2>1. Written(plan, x.next) = base
    BY <1>5 DEF Written
  <2> QED  BY <2>1
<1> QED  BY <1>3, <1>4, <1>5

(* A plan computed now is a plan, whoever asked for it. *)
LEMMA PlansTyped ==
  ASSUME TypeOK
  PROVE  /\ \A s \in Servers, l \in Links, input \in Inputs :
              Known(s, l) => CurrentDecisionPlan(l, input) \in DecisionPlans
         /\ \A s \in Servers, l \in Links :
              Known(s, l) => CurrentWritePlan(l) \in WritePlans
         /\ MvpPlan(stamp + 1) \in MvpPlans
<1>1. \A s \in Servers, l \in Links : Known(s, l) => registry[l].cand \in Cands
  BY DEF TypeOK, Known
<1>2. \A c \in Cands : base[c].data \in DataVersions
  BY DEF TypeOK, Row
<1>3. stamp + 1 \in Nat
  BY ConstantsAssumption DEF TypeOK
<1>4. \A s \in Servers, l \in Links, input \in Inputs :
        Known(s, l) => CurrentDecisionPlan(l, input) \in DecisionPlans
  BY <1>1, <1>2 DEF CurrentDecisionPlan, DecisionPlan, DecisionPlans
<1>5. \A s \in Servers, l \in Links :
        Known(s, l) => CurrentWritePlan(l) \in WritePlans
  BY <1>1, <1>2, <1>3 DEF CurrentWritePlan, WritePlan, WritePlans
<1>6. MvpPlan(stamp + 1) \in MvpPlans
  BY <1>2, <1>3, ConstantsAssumption DEF MvpPlan, MvpPlans
<1> QED  BY <1>4, <1>5, <1>6

(* The first command of a plan exists: an execution can start on it. *)
LEMMA FirstCommand ==
  ASSUME NEW plan \in Plan
  PROVE  [plan |-> plan, next |-> 1] \in Execution
<1>1. Len(Commands(plan)) \in Nat /\ Len(Commands(plan)) >= 1
  BY CommandsOfDecision, CommandsOfWrites, CommandsOfMvp, LenProperties DEF Plan
<1> QED  BY <1>1 DEF Execution

(* What starting, refusing and ending an execution do to the types.         *)
LEMMA RunStepsTyped ==
  ASSUME TypeOK, NEW p \in Procs
  PROVE  /\ \A plan \in Plan :
              StartRun(p, plan) => /\ run' \in [Procs -> Execution \cup {Idle}]
                                   /\ reply' \in [Procs -> Reply]
         /\ \A reason \in {"link", "status", "mismatch", "guard", "unread"},
               submitted \in Plan \cup {NoPlan}, plan \in Plan \cup {NoPlan} :
              Refuse(p, reason, submitted, plan) =>
                /\ run' \in [Procs -> Execution \cup {Idle}]
                /\ reply' \in [Procs -> Reply]
         /\ \A outcome \in {"success", "failed"}, n \in Nat :
              Busy(p) /\ StopRun(p, outcome, n) =>
                /\ run' \in [Procs -> Execution \cup {Idle}]
                /\ reply' \in [Procs -> Reply]
<1>1. ASSUME NEW plan \in Plan, StartRun(p, plan)
      PROVE  /\ run' \in [Procs -> Execution \cup {Idle}]
             /\ reply' \in [Procs -> Reply]
  <2>1. NoReply \in Reply
    BY DEF NoReply, Reply
  <2> QED  BY <1>1, <2>1, FirstCommand DEF TypeOK, StartRun
<1>2. ASSUME NEW reason \in {"link", "status", "mismatch", "guard", "unread"},
             NEW submitted \in Plan \cup {NoPlan}, NEW plan \in Plan \cup {NoPlan},
             Refuse(p, reason, submitted, plan)
      PROVE  /\ run' \in [Procs -> Execution \cup {Idle}]
             /\ reply' \in [Procs -> Reply]
  <2>1. Blocked(reason, submitted, plan) \in Reply
    BY DEF Blocked, Reply
  <2> QED  BY <1>2, <2>1 DEF TypeOK, Refuse
<1>3. ASSUME NEW outcome \in {"success", "failed"}, NEW n \in Nat,
             Busy(p), StopRun(p, outcome, n)
      PROVE  /\ run' \in [Procs -> Execution \cup {Idle}]
             /\ reply' \in [Procs -> Reply]
  <2>1. run[p].plan \in Plan
    BY <1>3 DEF TypeOK, Busy, Idle, Execution
  <2>2. Finished(outcome, run[p].plan, n) \in Reply
    BY <2>1 DEF Finished, Reply
  <2> QED  BY <1>3, <2>2 DEF TypeOK, StopRun
<1> QED  BY <1>1, <1>2, <1>3

LEMMA BusyRuns ==
  ASSUME TypeOK, NEW p \in Procs, Busy(p)
  PROVE  /\ run[p] \in Execution
         /\ run[p].next \in Nat \ {0}
         /\ run[p].next - 1 \in Nat
         /\ Len(Commands(run[p].plan)) \in Nat
<1>1. run[p] \in Execution
  BY DEF TypeOK, Busy, Idle
<1>2. run[p].plan \in Plan /\ run[p].next \in 1..Len(Commands(run[p].plan))
  BY <1>1 DEF Execution
<1>3. Len(Commands(run[p].plan)) \in Nat
  BY <1>2, CommandsOfDecision, CommandsOfWrites, CommandsOfMvp, LenProperties DEF Plan
<1> QED  BY <1>1, <1>2, <1>3

LEMMA TypeInit == Init => TypeOK
<1> SUFFICES ASSUME Init PROVE TypeOK
  OBVIOUS
<1>1. base \in [Cands -> Row]
  <2> PICK b \in [Cands -> {[status |-> st, decision |-> NoDecision, data |-> d] :
                               st \in InitialStatus, d \in DataVersions}] : base = b
    BY DEF Init
  <2>1. {[status |-> st, decision |-> NoDecision, data |-> d] :
            st \in InitialStatus, d \in DataVersions} \subseteq Row
    BY ConstantsAssumption DEF Row
  <2> QED  BY <2>1
<1>2. NoReply \in Reply
  BY DEF NoReply, Reply
<1>3. stamp \in 0..MaxPipelineRuns
  BY ConstantsAssumption DEF Init
<1> QED  BY <1>1, <1>2, <1>3 DEF Init, TypeOK

LEMMA TypeStep == TypeOK /\ [Next]_vars => TypeOK'
<1> SUFFICES ASSUME TypeOK, [Next]_vars
             PROVE  TypeOK'
  OBVIOUS
<1> USE DEF Procs
<1>1. ASSUME NEW s \in Servers, ListRecords(s)
      PROVE  TypeOK'
  <2>1. PICK fresh \in [Cands -> {l \in Links : registry[l] = Unissued}] :
          registry' = [l \in Links |->
                         IF \E c \in Cands : fresh[c] = l
                           THEN [server |-> s, cand |-> CHOOSE c \in Cands : fresh[c] = l]
                           ELSE registry[l]]
    BY <1>1 DEF ListRecords
  <2>2. ASSUME NEW l \in Links, \E c \in Cands : fresh[c] = l
        PROVE  [server |-> s, cand |-> CHOOSE c \in Cands : fresh[c] = l]
                 \in [server : Servers, cand : Cands]
    BY <2>2
  <2>3. registry' \in [Links -> {Unissued, Expired} \cup [server : Servers, cand : Cands]]
    BY <2>1, <2>2 DEF TypeOK
  <2> QED  BY <1>1, <2>3 DEF ListRecords, TypeOK
<1>2. ASSUME NEW l \in Links, ExpireLink(l)
      PROVE  TypeOK'
  BY <1>2 DEF ExpireLink, TypeOK
<1>3. ASSUME NEW s \in Servers, NEW l \in Links, NEW input \in Inputs,
             GenerateDecisionPlan(s, l, input)
      PROVE  TypeOK'
  BY <1>3, PlansTyped DEF GenerateDecisionPlan, TypeOK
<1>4. ASSUME NEW s \in Servers, NEW l \in Links, GenerateWritePlan(s, l)
      PROVE  TypeOK'
  <2>1. stamp' \in 0..MaxPipelineRuns
    BY <1>4, ConstantsAssumption DEF GenerateWritePlan, CountPipelineRun, TypeOK
  <2>2. plans' \subseteq DecisionPlans \cup WritePlans
    BY <1>4, PlansTyped DEF GenerateWritePlan, TypeOK
  <2> QED  BY <1>4, <2>1, <2>2 DEF GenerateWritePlan, TypeOK
<1>5. ASSUME NEW s \in Servers, RefuseRequest(s)
      PROVE  TypeOK'
  BY <1>5, RunStepsTyped DEF RefuseRequest, TypeOK
<1>6. ASSUME NEW s \in Servers, NEW l \in Links,
             RefuseUnknownLink(s, l) \/ RefuseNotPending(s, l)
      PROVE  TypeOK'
  BY <1>6, RunStepsTyped DEF RefuseUnknownLink, RefuseNotPending, TypeOK
<1>7. ASSUME NEW s \in Servers, NEW l \in Links, NEW input \in Inputs,
             NEW submitted \in plans \cup {NoPlan},
             ExecuteDecision(s, l, input, submitted)
      PROVE  TypeOK'
  <2>1. /\ CurrentDecisionPlan(l, input) \in DecisionPlans
        /\ CurrentDecisionPlan(l, input) \in Plan
        /\ submitted \in Plan \cup {NoPlan}
    BY <1>7, PlansTyped DEF ExecuteDecision, TypeOK, Plan
  <2>2. /\ run' \in [Procs -> Execution \cup {Idle}]
        /\ reply' \in [Procs -> Reply]
    BY <1>7, <2>1, RunStepsTyped DEF ExecuteDecision, RefuseMismatch
  <2>3. plans' \subseteq DecisionPlans \cup WritePlans
    BY <1>7, <2>1 DEF ExecuteDecision, RefuseMismatch, TypeOK
  <2> QED  BY <1>7, <2>2, <2>3 DEF ExecuteDecision, TypeOK
<1>8. ASSUME NEW s \in Servers, NEW l \in Links,
             NEW submitted \in plans \cup {NoPlan}, ExecuteWrites(s, l, submitted)
      PROVE  TypeOK'
  <2>1. /\ CurrentWritePlan(l) \in WritePlans
        /\ CurrentWritePlan(l) \in Plan
        /\ submitted \in Plan \cup {NoPlan}
    BY <1>8, PlansTyped DEF ExecuteWrites, TypeOK, Plan
  <2>2. /\ run' \in [Procs -> Execution \cup {Idle}]
        /\ reply' \in [Procs -> Reply]
    BY <1>8, <2>1, RunStepsTyped DEF ExecuteWrites, RefuseMismatch
  <2>3. stamp' \in 0..MaxPipelineRuns
    BY <1>8, ConstantsAssumption DEF ExecuteWrites, CountPipelineRun, TypeOK
  <2>4. plans' \subseteq DecisionPlans \cup WritePlans
    BY <1>8, <2>1 DEF ExecuteWrites, RefuseMismatch, TypeOK
  <2> QED  BY <1>8, <2>2, <2>3, <2>4 DEF ExecuteWrites, TypeOK
<1>9. ASSUME NEW p \in Scripts, StartMvp(p)
      PROVE  TypeOK'
  <2>1. MvpPlan(stamp + 1) \in Plan
    BY PlansTyped DEF Plan
  <2>2. /\ run' \in [Procs -> Execution \cup {Idle}]
        /\ reply' \in [Procs -> Reply]
    BY <1>9, <2>1, RunStepsTyped DEF StartMvp
  <2>3. stamp' \in 0..MaxPipelineRuns
    BY <1>9, ConstantsAssumption DEF StartMvp, CountPipelineRun, TypeOK
  <2> QED  BY <1>9, <2>2, <2>3 DEF StartMvp, TypeOK
<1>10. ASSUME NEW p \in Procs, CommandSucceeds(p)
       PROVE  TypeOK'
  <2>1. base' \in [Cands -> Row]
    BY <1>10, BusyRuns, WrittenTyped DEF CommandSucceeds, TypeOK
  <2>2. /\ run' \in [Procs -> Execution \cup {Idle}]
        /\ reply' \in [Procs -> Reply]
    <3>1. CASE LastCommand(run[p])
      BY <1>10, <3>1, BusyRuns, RunStepsTyped DEF CommandSucceeds
    <3>2. CASE ~LastCommand(run[p])
      <4>1. [run[p] EXCEPT !.next = @ + 1] \in Execution
        BY <1>10, <3>2, BusyRuns DEF CommandSucceeds, LastCommand, Execution
      <4> QED  BY <1>10, <3>2, <4>1 DEF CommandSucceeds, TypeOK
    <3> QED  BY <3>1, <3>2
  <2> QED  BY <1>10, <2>1, <2>2 DEF CommandSucceeds, TypeOK
<1>11. ASSUME NEW p \in Procs, CommandFails(p)
       PROVE  TypeOK'
  BY <1>11, BusyRuns, RunStepsTyped DEF CommandFails, TypeOK
<1>12. ASSUME NEW p \in Procs, Busy(p), RequestLeftBehind(p)
       PROVE  base' \in [Cands -> Row] /\ late' \subseteq Execution
  BY <1>12, BusyRuns, WrittenTyped DEF RequestLeftBehind, TypeOK
<1>13. ASSUME NEW p \in Procs, CommandTimesOut(p)
       PROVE  TypeOK'
  BY <1>12, <1>13, BusyRuns, RunStepsTyped DEF CommandTimesOut, TypeOK
<1>14. ASSUME NEW p \in Procs, Crash(p)
       PROVE  TypeOK'
  <2>1. NoReply \in Reply
    BY DEF NoReply, Reply
  <2>2. base' \in [Cands -> Row] /\ late' \subseteq Execution
    BY <1>12, <1>14 DEF Crash, TypeOK
  <2> QED  BY <1>14, <2>1, <2>2 DEF Crash, TypeOK
<1>15. ASSUME NEW x \in late, LateArrives(x)
       PROVE  TypeOK'
  BY <1>15, WrittenTyped DEF LateArrives, TypeOK
<1>16. ASSUME NEW c \in Cands, NEW st \in HandSet, EditStatus(c, st)
       PROVE  TypeOK'
  <2>1. [base[c] EXCEPT !.status = st] \in Row
    BY ConstantsAssumption DEF TypeOK, Row
  <2> QED  BY <1>16, <2>1 DEF EditStatus, TypeOK
<1>17. ASSUME NEW c \in Cands, NEW d \in DataVersions, EditData(c, d)
       PROVE  TypeOK'
  <2>1. [base[c] EXCEPT !.data = d] \in Row
    BY DEF TypeOK, Row
  <2> QED  BY <1>17, <2>1 DEF EditData, TypeOK
<1>18. CASE UNCHANGED vars
  BY <1>18 DEF vars, TypeOK
<1> QED
  BY <1>1, <1>2, <1>3, <1>4, <1>5, <1>6, <1>7, <1>8, <1>9, <1>10, <1>11, <1>13,
     <1>14, <1>15, <1>16, <1>17, <1>18
  DEF Next, RequestStep, DecisionStep, WritesStep, CommandStep

(* Every variable stays in its type: in particular an execution never runs  *)
(* past the end of its plan, and only statuses of the machine are written.  *)
THEOREM Typing == Spec => []TypeOK
BY TypeInit, TypeStep, PTL DEF Spec

-----------------------------------------------------------------------------
(* Only plans whose nonce was answered are executed.                        *)

(* A script executes its own plan and servers never execute one of those;   *)
(* what a killed command leaves behind is of either kind.                   *)
ScriptsRunMvp == \A p \in Scripts : Busy(p) => run[p].plan \in MvpPlans

AnswerInv == TypeOK /\ ScriptsRunMvp /\ AnsweredOnly

(* Nonces tell the plans of a server apart by what is executed.             *)
LEMMA NonceDetermines ==
  ASSUME NEW a \in DecisionPlans \cup WritePlans,
         NEW b \in DecisionPlans \cup WritePlans,
         NonceAccepted(a, b)
  PROVE  /\ a.op = b.op /\ a.link = b.link /\ a.cand = b.cand
         /\ Commands(a) = Commands(b)
<1>1. Nonce(a) = Nonce(b)
  BY DEF NonceAccepted
<1>2. a.op = b.op
  <2>1. \A x \in DecisionPlans : x.op = "decision" /\ "input" \in DOMAIN Nonce(x)
    BY DEF DecisionPlans, Nonce, DecisionNonce, WritesNonce
  <2>2. \A x \in WritePlans : x.op = "writes" /\ "input" \notin DOMAIN Nonce(x)
    BY DEF WritePlans, Nonce, DecisionNonce, WritesNonce
  <2> QED  BY <1>1, <2>1, <2>2
<1>3. /\ Nonce(a).link = a.link /\ Nonce(a).cand = a.cand
      /\ Nonce(a).commands = Commands(a)
  BY DEF Nonce, DecisionNonce, WritesNonce
<1>4. /\ Nonce(b).link = b.link /\ Nonce(b).cand = b.cand
      /\ Nonce(b).commands = Commands(b)
  BY DEF Nonce, DecisionNonce, WritesNonce
<1> QED  BY <1>1, <1>2, <1>3, <1>4

LEMMA AnswerInit == Init => AnswerInv
<1> SUFFICES ASSUME Init PROVE AnswerInv
  OBVIOUS
<1>1. TypeOK
  BY TypeInit
<1>2. ScriptsRunMvp
  BY DEF Init, ScriptsRunMvp, Procs, Busy, Idle
<1>3. AnsweredOnly
  BY DEF Init, AnsweredOnly, Procs, Busy, Idle, NoReply
<1> QED  BY <1>1, <1>2, <1>3 DEF AnswerInv

(* A step that starts nothing keeps the invariant, whatever else it does.   *)
StartsNothing ==
  /\ plans \subseteq plans'
  /\ \A p \in Procs :
       /\ \/ run'[p].next = 0
          \/ run'[p].plan = run[p].plan /\ Busy(p)
          \/ run'[p] = run[p]
       /\ \/ reply'[p].status \notin {"success", "failed"}
          \/ reply'[p] = reply[p]
          \/ reply'[p].plan = run[p].plan /\ Busy(p)
  /\ \A x \in late' : x \in late \/ (\E p \in Procs : x = run[p] /\ Busy(p))

LEMMA AnswerKept ==
  ASSUME AnswerInv, TypeOK', StartsNothing
  PROVE  AnswerInv'
<1>1. \A plan : IsAnswered(plan) => IsAnswered(plan)'
  BY DEF StartsNothing, IsAnswered
<1>2. ScriptsRunMvp'
  BY DEF StartsNothing, AnswerInv, ScriptsRunMvp, Busy, Procs
<1>3. ASSUME NEW s \in Servers, Busy(s)'
      PROVE  IsAnswered(run[s].plan)'
  <2>1. run'[s].plan = run[s].plan /\ Busy(s)
    BY <1>3 DEF StartsNothing, Procs, Busy
  <2>2. IsAnswered(run[s].plan)
    BY <2>1 DEF AnswerInv, AnsweredOnly
  <2> QED  BY <1>1, <2>1, <2>2
<1>4. ASSUME NEW s \in Servers, reply'[s].status \in {"success", "failed"}
      PROVE  IsAnswered(reply[s].plan)'
  <2>1. \/ reply'[s] = reply[s]
        \/ reply'[s].plan = run[s].plan /\ Busy(s)
    BY <1>4 DEF StartsNothing, Procs
  <2>2. IsAnswered(reply'[s].plan)
    BY <1>4, <2>1 DEF AnswerInv, AnsweredOnly
  <2> QED  BY <1>1, <2>2
<1>5. ASSUME NEW x \in late', x.plan.op # "mvp"
      PROVE  IsAnswered(x.plan)'
  <2>1. CASE x \in late
    BY <1>1, <1>5, <2>1 DEF AnswerInv, AnsweredOnly
  <2>2. CASE \E s \in Servers : x = run[s] /\ Busy(s)
    BY <1>1, <2>2 DEF AnswerInv, AnsweredOnly
  <2>3. CASE \E p \in Scripts : x = run[p] /\ Busy(p)
    BY <1>5, <2>3 DEF AnswerInv, ScriptsRunMvp, MvpPlans
  <2> QED  BY <1>5, <2>1, <2>2, <2>3 DEF StartsNothing, Procs
<1>6. AnsweredOnly'
  BY <1>3, <1>4, <1>5 DEF AnsweredOnly
<1> QED  BY <1>2, <1>6 DEF AnswerInv

(* An accepted execution starts on a plan with an answered one's nonce.     *)
LEMMA AnswerStart ==
  ASSUME AnswerInv, TypeOK', NEW s \in Servers, NEW submitted \in plans \cup {NoPlan},
         NEW plan \in DecisionPlans \cup WritePlans, NonceAccepted(plan, submitted),
         StartRun(s, plan), UNCHANGED <<plans, late>>
  PROVE  AnswerInv'
<1>1. IsAnswered(plan)'
  <2>1. submitted \in plans /\ submitted \in DecisionPlans \cup WritePlans
    BY DEF AnswerInv, TypeOK, NonceAccepted
  <2> QED  BY <2>1, NonceDetermines DEF IsAnswered
<1>2. \A p \in Procs \ {s} : run'[p] = run[p] /\ reply'[p] = reply[p]
  BY DEF StartRun, AnswerInv, TypeOK
<1>3. run'[s].plan = plan /\ reply'[s].status = "none"
  BY DEF StartRun, AnswerInv, TypeOK, Procs, NoReply
<1>4. \A q : IsAnswered(q) => IsAnswered(q)'
  BY DEF IsAnswered
<1>5. ScriptsRunMvp'
  BY <1>2, ConstantsAssumption DEF AnswerInv, ScriptsRunMvp, Procs, Busy
<1>6. ASSUME NEW t \in Servers, Busy(t)'
      PROVE  IsAnswered(run[t].plan)'
  <2>1. CASE t = s
    BY <1>1, <1>3, <2>1
  <2>2. CASE t # s
    <3>1. run'[t] = run[t]
      BY <1>2, <2>2 DEF Procs
    <3>2. IsAnswered(run[t].plan)
      BY <1>6, <3>1 DEF AnswerInv, AnsweredOnly, Busy
    <3> QED  BY <1>4, <3>1, <3>2
  <2> QED  BY <2>1, <2>2
<1>7. ASSUME NEW t \in Servers, reply'[t].status \in {"success", "failed"}
      PROVE  IsAnswered(reply[t].plan)'
  <2>1. reply'[t] = reply[t]
    BY <1>2, <1>3, <1>7 DEF Procs
  <2>2. IsAnswered(reply[t].plan)
    BY <1>7, <2>1 DEF AnswerInv, AnsweredOnly
  <2> QED  BY <1>4, <2>1, <2>2
<1>8. ASSUME NEW x \in late', x.plan.op # "mvp"
      PROVE  IsAnswered(x.plan)'
  BY <1>4, <1>8 DEF AnswerInv, AnsweredOnly
<1> QED  BY <1>5, <1>6, <1>7, <1>8 DEF AnswerInv, AnsweredOnly

LEMMA AnswerStep == AnswerInv /\ [Next]_vars => AnswerInv'
<1> SUFFICES ASSUME AnswerInv, [Next]_vars
             PROVE  AnswerInv'
  OBVIOUS
<1>1. TypeOK /\ TypeOK'
  BY TypeStep DEF AnswerInv
<1>2. ASSUME NEW s \in Servers, NEW l \in Links, NEW input \in Inputs,
             NEW submitted \in plans \cup {NoPlan},
             ExecuteDecision(s, l, input, submitted),
             NonceAccepted(CurrentDecisionPlan(l, input), submitted)
      PROVE  AnswerInv'
  <2>1. CurrentDecisionPlan(l, input) \in DecisionPlans
    BY <1>1, <1>2, PlansTyped DEF ExecuteDecision
  <2> QED  BY <1>1, <1>2, <2>1, AnswerStart DEF ExecuteDecision
<1>3. ASSUME NEW s \in Servers, NEW l \in Links,
             NEW submitted \in plans \cup {NoPlan}, ExecuteWrites(s, l, submitted),
             NonceAccepted(CurrentWritePlan(l), submitted)
      PROVE  AnswerInv'
  <2>1. CurrentWritePlan(l) \in WritePlans
    BY <1>1, <1>3, PlansTyped DEF ExecuteWrites
  <2> QED  BY <1>1, <1>3, <2>1, AnswerStart DEF ExecuteWrites
<1>4. ASSUME NEW p \in Scripts, StartMvp(p)
      PROVE  AnswerInv'
  <2>1. \A q \in Procs \ {p} : run'[q] = run[q] /\ reply'[q] = reply[q]
    BY <1>1, <1>4 DEF StartMvp, StartRun, TypeOK
  <2>2. run'[p].plan \in MvpPlans
    BY <1>1, <1>4, PlansTyped DEF StartMvp, StartRun, TypeOK, Procs
  <2>3. ScriptsRunMvp'
    BY <2>1, <2>2 DEF AnswerInv, ScriptsRunMvp, Procs, Busy
  <2>4. \A s \in Servers : run'[s] = run[s] /\ reply'[s] = reply[s]
    BY <2>1, ConstantsAssumption DEF Procs
  <2>5. UNCHANGED <<plans, late>>
    BY <1>4 DEF StartMvp
  <2>6. AnsweredOnly'
    BY <2>4, <2>5 DEF AnswerInv, AnsweredOnly, IsAnswered, Busy
  <2> QED  BY <1>1, <2>3, <2>6 DEF AnswerInv
<1>5. ASSUME NEW s \in Servers, NEW reason, NEW submitted, NEW plan,
             Refuse(s, reason, submitted, plan), plans \subseteq plans', late' = late
      PROVE  StartsNothing
  <2>1. \A p \in Procs : reply'[p] = reply[p] \/ reply'[p].status \in {"blocked", "unexecuted"}
    BY <1>1, <1>5 DEF Refuse, Blocked, TypeOK
  <2> QED  BY <1>5, <2>1 DEF StartsNothing, Refuse, Busy
<1>6. ASSUME NEW p \in Procs, NEW outcome, NEW n, Busy(p), StopRun(p, outcome, n),
             plans' = plans,
             late' \subseteq late \cup {run[p]}
      PROVE  StartsNothing
  <2>1. \A q \in Procs \ {p} : run'[q] = run[q] /\ reply'[q] = reply[q]
    BY <1>1, <1>6 DEF StopRun, TypeOK
  <2>2. run'[p].next = 0 /\ reply'[p].plan = run[p].plan
    BY <1>1, <1>6 DEF StopRun, TypeOK, Idle, Finished
  <2> QED  BY <1>6, <2>1, <2>2 DEF StartsNothing, Busy
<1>7. ASSUME NEW p \in Procs, RequestLeftBehind(p)
      PROVE  late' \subseteq late \cup {run[p]}
  BY <1>7 DEF RequestLeftBehind
<1>8. ASSUME plans \subseteq plans', UNCHANGED <<run, reply>>, late' \subseteq late
      PROVE  StartsNothing
  BY <1>8 DEF StartsNothing, Busy
<1>9. ASSUME NEW s \in Servers, RequestStep(s)
      PROVE  AnswerInv'
  <2>1. CASE ListRecords(s)
    BY <1>1, <1>8, <2>1, AnswerKept DEF ListRecords
  <2>2. CASE RefuseRequest(s)
    BY <1>1, <1>5, <2>2, AnswerKept DEF RefuseRequest
  <2>3. ASSUME NEW l \in Links, RefuseUnknownLink(s, l) \/ RefuseNotPending(s, l)
        PROVE  AnswerInv'
    BY <1>1, <1>5, <2>3, AnswerKept DEF RefuseUnknownLink, RefuseNotPending
  <2>4. ASSUME NEW l \in Links, NEW input \in Inputs, GenerateDecisionPlan(s, l, input)
        PROVE  AnswerInv'
    BY <1>1, <1>8, <2>4, AnswerKept DEF GenerateDecisionPlan
  <2>5. ASSUME NEW l \in Links, GenerateWritePlan(s, l)
        PROVE  AnswerInv'
    BY <1>1, <1>8, <2>5, AnswerKept DEF GenerateWritePlan
  <2>6. ASSUME NEW l \in Links, NEW input \in Inputs,
               NEW submitted \in plans \cup {NoPlan},
               ExecuteDecision(s, l, input, submitted)
        PROVE  AnswerInv'
    <3>1. CASE NonceAccepted(CurrentDecisionPlan(l, input), submitted)
      BY <1>2, <2>6, <3>1
    <3>2. CASE ~NonceAccepted(CurrentDecisionPlan(l, input), submitted)
      BY <1>1, <1>5, <2>6, <3>2, AnswerKept DEF ExecuteDecision, RefuseMismatch
    <3> QED  BY <3>1, <3>2
  <2>7. ASSUME NEW l \in Links, NEW submitted \in plans \cup {NoPlan},
               ExecuteWrites(s, l, submitted)
        PROVE  AnswerInv'
    <3>1. CASE NonceAccepted(CurrentWritePlan(l), submitted)
      BY <1>3, <2>7, <3>1
    <3>2. CASE ~NonceAccepted(CurrentWritePlan(l), submitted)
      BY <1>1, <1>5, <2>7, <3>2, AnswerKept DEF ExecuteWrites, RefuseMismatch
    <3> QED  BY <3>1, <3>2
  <2> QED  BY <1>9, <2>1, <2>2, <2>3, <2>4, <2>5, <2>6, <2>7
           DEF RequestStep, DecisionStep, WritesStep
<1>10. ASSUME NEW p \in Procs, CommandStep(p)
       PROVE  AnswerInv'
  <2>1. CASE CommandSucceeds(p) /\ LastCommand(run[p])
    BY <1>1, <1>6, <2>1, AnswerKept DEF CommandSucceeds
  <2>2. CASE CommandSucceeds(p) /\ ~LastCommand(run[p])
    <3>1. /\ Busy(p)
          /\ run' = [run EXCEPT ![p].next = @ + 1]
          /\ UNCHANGED <<reply, plans, late>>
      BY <2>2 DEF CommandSucceeds
    <3>2. run[p] \in [plan : Plan, next : Nat]
      BY <1>1, <3>1, BusyRuns DEF Execution
    <3>3. run'[p].plan = run[p].plan
      BY <1>1, <3>1, <3>2 DEF TypeOK
    <3>4. \A q \in Procs \ {p} : run'[q] = run[q]
      BY <1>1, <3>1 DEF TypeOK
    <3>5. StartsNothing
      BY <3>1, <3>3, <3>4 DEF StartsNothing
    <3> QED  BY <1>1, <3>5, AnswerKept
  <2>3. CASE CommandFails(p)
    BY <1>1, <1>6, <2>3, AnswerKept DEF CommandFails
  <2>4. CASE CommandTimesOut(p)
    BY <1>1, <1>6, <1>7, <2>4, AnswerKept DEF CommandTimesOut
  <2> QED  BY <1>10, <2>1, <2>2, <2>3, <2>4 DEF CommandStep
<1>11. ASSUME NEW p \in Procs, Crash(p)
       PROVE  AnswerInv'
  <2>1. \A q \in Procs \ {p} : run'[q] = run[q] /\ reply'[q] = reply[q]
    BY <1>1, <1>11 DEF Crash, TypeOK
  <2>2. run'[p].next = 0 /\ reply'[p].status = "none"
    BY <1>1, <1>11 DEF Crash, TypeOK, Idle, NoReply
  <2>3. late' = late \/ (Busy(p) /\ late' \subseteq late \cup {run[p]})
    BY <1>7, <1>11 DEF Crash
  <2>4. StartsNothing
    BY <1>11, <2>1, <2>2, <2>3 DEF Crash, StartsNothing, Busy
  <2> QED  BY <1>1, <2>4, AnswerKept
<1>12. ASSUME NEW x \in late, LateArrives(x)
       PROVE  AnswerInv'
  BY <1>1, <1>8, <1>12, AnswerKept DEF LateArrives
<1>13. ASSUME NEW l \in Links, ExpireLink(l)
       PROVE  AnswerInv'
  BY <1>1, <1>8, <1>13, AnswerKept DEF ExpireLink
<1>14. ASSUME NEW c \in Cands,
              (\E st \in HandSet : EditStatus(c, st))
                \/ (\E d \in DataVersions : EditData(c, d))
       PROVE  AnswerInv'
  BY <1>1, <1>8, <1>14, AnswerKept DEF EditStatus, EditData
<1>15. CASE UNCHANGED vars
  BY <1>1, <1>8, <1>15, AnswerKept DEF vars
<1> QED  BY <1>4, <1>9, <1>10, <1>11, <1>12, <1>13, <1>14, <1>15 DEF Next

(* Whatever a server executes, has executed or has left under way is a plan *)
(* whose nonce a server had answered with, through edits, restarts, other   *)
(* operators' plans and any number of servers and scripts at work at once.  *)
THEOREM OnlyAnsweredPlansRun == Spec => []AnsweredOnly
<1>1. AnswerInv => AnsweredOnly
  BY DEF AnswerInv
<1> QED  BY <1>1, AnswerInit, AnswerStep, PTL DEF Spec

-----------------------------------------------------------------------------
(* A decision's nonce is refused only when link or input differ.            *)

(* The link of a decision plan was issued for the record the plan is about; *)
(* a link is issued once, so that stays so for as long as it is known.      *)
LinkStillFor(plan) ==
  plan.op = "decision" =>
    /\ plan.link \in Links /\ registry[plan.link] # Unissued
    /\ registry[plan.link] # Expired => registry[plan.link].cand = plan.cand

MismatchExplained(answer) ==
  answer.reason = "mismatch" /\ answer.plan.op = "decision" =>
    \/ answer.submitted.op # "decision"
    \/ answer.submitted.link # answer.plan.link
    \/ answer.submitted.input # answer.plan.input

LinkInv ==
  /\ \A plan \in plans : LinkStillFor(plan)
  /\ \A s \in Servers : MismatchExplained(reply[s])

LEMMA CurrentPlanFields ==
  ASSUME NEW s \in Servers, NEW l \in Links, NEW input \in Inputs, Known(s, l)
  PROVE  LET plan == CurrentDecisionPlan(l, input)
         IN  /\ plan.op = "decision" /\ plan.link = l /\ plan.input = input
             /\ plan.cand = registry[l].cand
             /\ LinkStillFor(plan)
BY DEF CurrentDecisionPlan, DecisionPlan, LinkStillFor, Known

(* What a step may do to the links, the plans and the answers.              *)
LinkStep ==
  /\ \A l \in Links : registry[l] = Unissued \/ registry'[l] \in {registry[l], Expired}
  /\ \/ plans' = plans
     \/ registry' = registry /\ \E plan : plans' = plans \cup {plan} /\ LinkStillFor(plan)
  /\ \A s \in Servers : reply'[s] = reply[s] \/ MismatchExplained(reply'[s])

LEMMA LinkKept ==
  ASSUME TypeOK, LinkInv, LinkStep
  PROVE  LinkInv'
<1>1. ASSUME NEW plan, LinkStillFor(plan)
      PROVE  LinkStillFor(plan)'
  BY <1>1, ConstantsAssumption DEF LinkStillFor, LinkStep
<1>2. \A plan \in plans' : LinkStillFor(plan)
  BY DEF LinkStep, LinkInv
<1>3. \A plan \in plans' : LinkStillFor(plan)'
  BY <1>1, <1>2
<1>4. \A s \in Servers : MismatchExplained(reply'[s])
  BY DEF LinkStep, LinkInv
<1> QED  BY <1>3, <1>4 DEF LinkInv, MismatchExplained

(* The same link and the same input give the same nonce at any time.        *)
LEMMA RefusedIsExplained ==
  ASSUME TypeOK, LinkInv, NEW s \in Servers, NEW l \in Links, NEW input \in Inputs,
         NEW submitted \in plans \cup {NoPlan}, Known(s, l),
         ~NonceAccepted(CurrentDecisionPlan(l, input), submitted)
  PROVE  MismatchExplained(Blocked("mismatch", submitted, CurrentDecisionPlan(l, input)))
<1> DEFINE plan == CurrentDecisionPlan(l, input)
<1>1. /\ plan.op = "decision" /\ plan.link = l /\ plan.input = input
      /\ plan.cand = registry[l].cand
  BY CurrentPlanFields
<1> HIDE DEF plan
<1>2. SUFFICES ASSUME submitted.op = "decision", submitted.link = l, submitted.input = input
               PROVE  FALSE
  BY <1>1 DEF MismatchExplained, Blocked, plan
<1>3. submitted # NoPlan /\ submitted \in plans
  BY <1>2 DEF NoPlan
<1>4. LinkStillFor(submitted)
  BY <1>3 DEF LinkInv
<1>5. submitted.cand = plan.cand
  BY <1>1, <1>2, <1>4 DEF LinkStillFor, Known
<1>6. Commands(submitted) = Commands(plan)
  BY <1>1, <1>2 DEF Commands
<1>7. Nonce(submitted) = Nonce(plan)
  BY <1>1, <1>2, <1>5, <1>6 DEF Nonce, DecisionNonce
<1> QED  BY <1>3, <1>7 DEF NonceAccepted, plan

LEMMA LinkSteps ==
  ASSUME TypeOK, LinkInv, [Next]_vars
  PROVE  LinkStep
<1> DEFINE LinksStay == \A l \in Links :
             registry[l] = Unissued \/ registry'[l] \in {registry[l], Expired}
           AnswersStay == \A s \in Servers : reply'[s] = reply[s] \/ MismatchExplained(reply'[s])
<1>1. reply \in [Procs -> Reply] /\ Servers \subseteq Procs /\ Scripts \subseteq Procs
  BY DEF TypeOK, Procs
<1>2. ASSUME NEW p \in Procs, NEW answer, reply' = [reply EXCEPT ![p] = answer],
             MismatchExplained(answer)
      PROVE  AnswersStay
  BY <1>1, <1>2
<1>3. /\ MismatchExplained(NoReply)
      /\ \A reason \in {"link", "status", "guard", "unread"} :
           MismatchExplained(Blocked(reason, NoPlan, NoPlan))
      /\ \A outcome, plan, count : MismatchExplained(Finished(outcome, plan, count))
  BY DEF MismatchExplained, NoReply, Blocked, Finished
<1>4. UNCHANGED registry => LinksStay
  OBVIOUS
<1> HIDE DEF LinksStay, AnswersStay
<1>5. UNCHANGED reply => AnswersStay
  BY DEF AnswersStay
<1> USE DEF LinksStay, AnswersStay
<1>6. ASSUME NEW s \in Servers, RequestStep(s)
      PROVE  LinkStep
  <2>1. CASE ListRecords(s)
    BY <2>1 DEF LinkStep, ListRecords, TypeOK
  <2>2. CASE RefuseRequest(s) \/ \E l \in Links : RefuseUnknownLink(s, l) \/ RefuseNotPending(s, l)
    BY <1>1, <1>2, <1>3, <2>2
      DEF LinkStep, RefuseRequest, RefuseUnknownLink, RefuseNotPending, Refuse
  <2>3. ASSUME NEW l \in Links, NEW input \in Inputs, GenerateDecisionPlan(s, l, input)
        PROVE  LinkStep
    BY <2>3, CurrentPlanFields DEF LinkStep, GenerateDecisionPlan
  <2>4. ASSUME NEW l \in Links, NEW input \in Inputs, NEW submitted \in plans \cup {NoPlan},
               ExecuteDecision(s, l, input, submitted)
        PROVE  LinkStep
    <3> DEFINE plan == CurrentDecisionPlan(l, input)
    <3>1. Known(s, l) /\ LinkStillFor(plan) /\ UNCHANGED registry
      BY <2>4, CurrentPlanFields DEF ExecuteDecision
    <3>2. CASE NonceAccepted(plan, submitted)
      <4>1. reply' = [reply EXCEPT ![s] = NoReply] /\ UNCHANGED plans
        BY <2>4, <3>2 DEF ExecuteDecision, StartRun
      <4>2. AnswersStay
        BY <1>1, <1>2, <1>3, <4>1
      <4> QED  BY <3>1, <4>1, <4>2 DEF LinkStep
    <3>3. CASE ~NonceAccepted(plan, submitted)
      <4>1. /\ reply' = [reply EXCEPT ![s] = Blocked("mismatch", submitted, plan)]
            /\ plans' = plans \cup {plan}
        BY <2>4, <3>3 DEF ExecuteDecision, RefuseMismatch, Refuse
      <4>2. MismatchExplained(Blocked("mismatch", submitted, plan))
        BY <3>1, <3>3, RefusedIsExplained
      <4>3. AnswersStay
        BY <1>1, <1>2, <4>1, <4>2
      <4> HIDE DEF plan
      <4> QED  BY <3>1, <4>1, <4>3 DEF LinkStep
    <3> QED  BY <3>2, <3>3
  <2>5. ASSUME NEW l \in Links, GenerateWritePlan(s, l)
        PROVE  LinkStep
    <3>1. LinkStillFor(CurrentWritePlan(l))
      BY DEF LinkStillFor, CurrentWritePlan, WritePlan
    <3> QED  BY <2>5, <3>1 DEF LinkStep, GenerateWritePlan
  <2>6. ASSUME NEW l \in Links, NEW submitted \in plans \cup {NoPlan},
               ExecuteWrites(s, l, submitted)
        PROVE  LinkStep
    <3> DEFINE plan == CurrentWritePlan(l)
    <3>1. plan.op = "writes" /\ LinkStillFor(plan)
      BY DEF LinkStillFor, CurrentWritePlan, WritePlan
    <3>2. \/ reply' = [reply EXCEPT ![s] = NoReply] /\ UNCHANGED plans
          \/ /\ reply' = [reply EXCEPT ![s] = Blocked("mismatch", submitted, plan)]
             /\ plans' = plans \cup {plan}
      BY <2>6 DEF ExecuteWrites, StartRun, RefuseMismatch, Refuse
    <3>3. MismatchExplained(Blocked("mismatch", submitted, plan))
      BY <3>1 DEF MismatchExplained, Blocked
    <3>4. AnswersStay
      BY <1>1, <1>2, <1>3, <3>2, <3>3
    <3>5. UNCHANGED registry
      BY <2>6 DEF ExecuteWrites
    <3> HIDE DEF plan
    <3> QED  BY <3>1, <3>2, <3>4, <3>5 DEF LinkStep
  <2> QED  BY <1>6, <2>1, <2>2, <2>3, <2>4, <2>5, <2>6 DEF RequestStep, DecisionStep, WritesStep
<1>7. ASSUME NEW p \in Scripts, StartMvp(p)
      PROVE  LinkStep
  BY <1>1, <1>2, <1>3, <1>7 DEF LinkStep, StartMvp, StartRun
<1>8. ASSUME NEW p \in Procs, CommandStep(p)
      PROVE  LinkStep
  <2>1. UNCHANGED <<registry, plans>>
    BY <1>8 DEF CommandStep, CommandSucceeds, CommandFails, CommandTimesOut
  <2>2. \/ UNCHANGED reply
        \/ \E outcome, count : reply' = [reply EXCEPT ![p] = Finished(outcome, run[p].plan, count)]
    BY <1>8 DEF CommandStep, CommandSucceeds, CommandFails, CommandTimesOut, StopRun
  <2>3. AnswersStay
    BY <1>2, <1>3, <2>2
  <2> QED  BY <2>1, <2>3 DEF LinkStep
<1>9. ASSUME NEW p \in Procs, Crash(p)
      PROVE  LinkStep
  <2>1. LinksStay /\ UNCHANGED plans
    BY <1>9 DEF Crash
  <2>2. AnswersStay
    BY <1>2, <1>3, <1>9 DEF Crash
  <2> QED  BY <2>1, <2>2 DEF LinkStep
<1>10. ASSUME NEW l \in Links, ExpireLink(l)
       PROVE  LinkStep
  BY <1>10 DEF LinkStep, ExpireLink, TypeOK
<1>11. ASSUME UNCHANGED <<registry, plans, reply>>
       PROVE  LinkStep
  BY <1>11 DEF LinkStep
<1>12. CASE \/ \E x \in late : LateArrives(x)
            \/ \E c \in Cands : \/ \E st \in HandSet : EditStatus(c, st)
                                \/ \E d \in DataVersions : EditData(c, d)
            \/ UNCHANGED vars
  BY <1>11, <1>12 DEF LateArrives, EditStatus, EditData, vars
<1> QED  BY <1>6, <1>7, <1>8, <1>9, <1>10, <1>12 DEF Next

(* Of a decision refused for its nonce: the nonce was of no decision plan,  *)
(* or of one for another link or another input.                             *)
MismatchIsOfInput == \A s \in Servers : MismatchExplained(reply[s])

(* The guard on a decision never refuses because of the candidate's data,   *)
(* which its message names as a cause ("候选人数据或决策参数可能已变更",    *)
(* live-human-decision-runner.ts:427): for any number of servers, edits,    *)
(* restarts and expired links a mismatch comes from the link or the input   *)
(* submitted, since a link is issued for one record only and the nonce      *)
(* holds nothing that is read from the record.                              *)
THEOREM DecisionMismatchExplained == Spec => []MismatchIsOfInput
<1>1. Init => LinkInv
  BY DEF Init, LinkInv, MismatchExplained, NoReply, Procs
<1>2. TypeOK /\ LinkInv /\ [Next]_vars => LinkInv'
  BY LinkSteps, LinkKept
<1>3. LinkInv => MismatchIsOfInput
  BY DEF LinkInv, MismatchIsOfInput
<1> QED  BY <1>1, <1>2, <1>3, Typing, PTL DEF Spec
-----------------------------------------------------------------------------
(* A write plan is never executed.                                          *)

LEMMA HeadOfConcat ==
  ASSUME NEW S, NEW u \in Seq(S), NEW v \in Seq(S), Len(u) >= 1
  PROVE  (u \o v)[1] = u[1] /\ u \o v \in Seq(S) /\ Len(u \o v) >= 1
BY ConcatProperties, LenProperties

(* The plan opens with the intake agent's audit row, which names the run.   *)
LEMMA PipelineOpensWithItsRun ==
  ASSUME NEW n \in Nat, NEW data \in DataVersions
  PROVE  PipelineCommands(n, data)[1].run.stamp = n
<1> DEFINE Audit(a) == [agent |-> a, stamp |-> n, data |-> data]
           Of(a) == AgentPlan(a, Audit(a), 1)
<1>1. \A a \in Agent : Of(a) \in Seq(AgentCommand) /\ Len(Of(a)) >= 1
  <2> TAKE a \in Agent
  <2>1. Audit(a) \in AuditRun
    BY DEF AuditRun
  <2> HIDE DEF Audit
  <2> QED  BY <2>1, AgentPlanCommands
<1>2. Of("resume_intake") =
        <<AuditCommand(Audit("resume_intake"))>> \o <<AgentMove("resume_intake")>>
  <2>1. BusinessWrites("resume_intake", 1) = <<AgentMove("resume_intake")>>
    BY DEF BusinessWrites, IntakeWrites
  <2> QED  BY <2>1 DEF AgentPlan
<1>3. Of("resume_intake")[1].run.stamp = n
  <2>1. Of("resume_intake")[1] = AuditCommand(Audit("resume_intake"))
    <3> HIDE DEF Audit, Of
    <3> QED  BY <1>2
  <2> QED  BY <2>1 DEF AuditCommand
<1>4. PipelineCommands(n, data) =
        Of("resume_intake") \o Of("resume_extraction") \o Of("graph_builder")
          \o Of("interview_kit") \o Of("screening_reviewer") \o Of("hr_coordinator")
  BY DEF PipelineCommands
<1> HIDE DEF Of
<1>5. PipelineCommands(n, data)[1] = Of("resume_intake")[1]
  <2> DEFINE two   == Of("resume_intake") \o Of("resume_extraction")
             three == two \o Of("graph_builder")
             four  == three \o Of("interview_kit")
             five  == four \o Of("screening_reviewer")
             Opens(u) == /\ u \in Seq(AgentCommand) /\ Len(u) >= 1
                         /\ u[1] = Of("resume_intake")[1]
  <2>1. ASSUME NEW u, NEW a \in Agent, Opens(u)
        PROVE  Opens(u \o Of(a))
    <3>1. Of(a) \in Seq(AgentCommand)
      BY <1>1
    <3> QED  BY <2>1, <3>1, HeadOfConcat
  <2>2. Opens(Of("resume_intake"))
    BY <1>1, AgentNames
  <2> HIDE DEF Opens
  <2>3. Opens(two)
    BY <2>1, <2>2, AgentNames
  <2> HIDE DEF two
  <2>4. Opens(three)
    BY <2>1, <2>3, AgentNames
  <2> HIDE DEF three
  <2>5. Opens(four)
    BY <2>1, <2>4, AgentNames
  <2> HIDE DEF four
  <2>6. Opens(five)
    BY <2>1, <2>5, AgentNames
  <2> HIDE DEF five
  <2>7. Opens(five \o Of("hr_coordinator"))
    BY <2>1, <2>6, AgentNames
  <2>8. PipelineCommands(n, data) = five \o Of("hr_coordinator")
    BY <1>4 DEF two, three, four, five
  <2> QED  BY <2>7, <2>8 DEF Opens
<1> QED  BY <1>3, <1>5

(* Two pipeline runs never have the same nonce, on whatever data.           *)
LEMMA RunsTellPlansApart ==
  ASSUME NEW a \in WritePlans, NEW b \in DecisionPlans \cup WritePlans,
         NonceAccepted(a, b)
  PROVE  b \in WritePlans /\ b.stamp = a.stamp
<1>1. a.op = b.op /\ Commands(a) = Commands(b)
  BY NonceDetermines
<1>2. b \in WritePlans
  BY <1>1 DEF WritePlans, DecisionPlans
<1>3. \A x \in WritePlans : Commands(x)[1].run.stamp = x.stamp
  BY PipelineOpensWithItsRun DEF WritePlans, Commands
<1> QED  BY <1>1, <1>2, <1>3

(* No process is in the execution of a write plan, none has reported of one *)
(* and no command of one is under way.                                      *)
NoWritePlanRuns ==
  /\ \A p \in Procs :
       /\ run[p].plan.op # "writes"
       /\ reply[p].status \in {"success", "failed"} => reply[p].plan.op # "writes"
  /\ \A x \in late : x.plan.op # "writes"

(* Every write plan a nonce was answered for is of an earlier pipeline run. *)
PlansOfPastRuns == \A plan \in plans : plan.op = "writes" => plan.stamp <= stamp

WritePlanInv == NoWritePlanRuns /\ PlansOfPastRuns

(* What a step may do to the executions, the answers and the plans.         *)
WritePlanStep ==
  /\ stamp' >= stamp
  /\ \A p \in Procs :
       /\ run'[p].plan \in {run[p].plan, NoPlan} \/ run'[p].plan.op # "writes"
       /\ \/ reply'[p] = reply[p]
          \/ reply'[p].status \notin {"success", "failed"}
          \/ reply'[p].plan = run[p].plan
  /\ \A x \in late' : x \in late \/ \E p \in Procs : x = run[p]
  /\ \A plan \in plans' \ plans : plan.op = "writes" => plan.stamp <= stamp'

LEMMA WritePlanKept ==
  ASSUME TypeOK, TypeOK', WritePlanInv, WritePlanStep
  PROVE  WritePlanInv'
<1>1. NoWritePlanRuns'
  <2>1. NoPlan.op # "writes"
    BY DEF NoPlan
  <2>2. \A p \in Procs : run'[p].plan.op # "writes"
    BY <2>1 DEF WritePlanStep, WritePlanInv, NoWritePlanRuns
  <2>3. \A p \in Procs : reply'[p].status \in {"success", "failed"} =>
                           reply'[p].plan.op # "writes"
    BY DEF WritePlanStep, WritePlanInv, NoWritePlanRuns
  <2>4. \A x \in late' : x.plan.op # "writes"
    BY DEF WritePlanStep, WritePlanInv, NoWritePlanRuns
  <2> QED  BY <2>2, <2>3, <2>4 DEF NoWritePlanRuns
<1>2. PlansOfPastRuns'
  <2> SUFFICES ASSUME NEW plan \in plans', plan.op = "writes"
               PROVE  plan.stamp <= stamp'
    BY DEF PlansOfPastRuns
  <2>1. CASE plan \notin plans
    BY <2>1 DEF WritePlanStep
  <2>2. CASE plan \in plans
    <3>1. plan.stamp <= stamp /\ stamp <= stamp'
      BY <2>2 DEF WritePlanInv, PlansOfPastRuns, WritePlanStep
    <3>2. stamp \in Nat /\ stamp' \in Nat
      BY ConstantsAssumption DEF TypeOK
    <3>3. plan.stamp \in Nat
      BY <2>2 DEF TypeOK, DecisionPlans, WritePlans
    <3> QED  BY <3>1, <3>2, <3>3
  <2> QED  BY <2>1, <2>2
<1> QED  BY <1>1, <1>2 DEF WritePlanInv

LEMMA WritePlanSteps ==
  ASSUME TypeOK, TypeOK', WritePlanInv, [Next]_vars
  PROVE  WritePlanStep
<1> DEFINE Runs == \A p \in Procs :
             run'[p].plan \in {run[p].plan, NoPlan} \/ run'[p].plan.op # "writes"
           Answers == \A p \in Procs :
             \/ reply'[p] = reply[p]
             \/ reply'[p].status \notin {"success", "failed"}
             \/ reply'[p].plan = run[p].plan
           Requests == \A x \in late' : x \in late \/ \E p \in Procs : x = run[p]
           Plans == \A plan \in plans' \ plans : plan.op = "writes" => plan.stamp <= stamp'
<1>1. /\ run \in [Procs -> Execution \cup {Idle}] /\ reply \in [Procs -> Reply]
      /\ Servers \subseteq Procs /\ Scripts \subseteq Procs /\ stamp \in Nat
  BY ConstantsAssumption DEF TypeOK, Procs
<1>2. SUFFICES stamp' >= stamp /\ Runs /\ Answers /\ Requests /\ Plans
  BY DEF WritePlanStep
<1>3. ASSUME NEW p \in Procs, NEW plan, plan.op # "writes", StartRun(p, plan)
      PROVE  Runs /\ Answers
  <2>1. run' = [run EXCEPT ![p] = [plan |-> plan, next |-> 1]]
    BY <1>3 DEF StartRun
  <2>2. reply' = [reply EXCEPT ![p] = NoReply] /\ NoReply.status = "none"
    BY <1>3 DEF StartRun, NoReply
  <2>3. Runs
    BY <1>1, <1>3, <2>1
  <2>4. Answers
    BY <1>1, <2>2
  <2> QED  BY <2>3, <2>4
<1>4. ASSUME NEW p \in Procs, NEW reason, NEW submitted, NEW plan,
             Refuse(p, reason, submitted, plan)
      PROVE  Runs /\ Answers
  <2>1. reply' = [reply EXCEPT ![p] = Blocked(reason, submitted, plan)] /\ run' = run
    BY <1>4 DEF Refuse
  <2>2. Blocked(reason, submitted, plan).status \in {"blocked", "unexecuted"}
    BY DEF Blocked
  <2> QED  BY <1>1, <2>1, <2>2
<1>5. ASSUME NEW p \in Procs, NEW outcome, NEW n, StopRun(p, outcome, n)
      PROVE  Runs /\ Answers
  <2>1. /\ run' = [run EXCEPT ![p] = Idle]
        /\ reply' = [reply EXCEPT ![p] = Finished(outcome, run[p].plan, n)]
    BY <1>5 DEF StopRun
  <2>2. Idle.plan = NoPlan /\ Finished(outcome, run[p].plan, n).plan = run[p].plan
    BY DEF Idle, Finished
  <2> QED  BY <1>1, <2>1, <2>2
<1>6. ASSUME NEW p \in Procs, RequestLeftBehind(p)
      PROVE  Requests
  BY <1>6 DEF RequestLeftBehind
<1>7. /\ UNCHANGED <<run, reply>> => Runs /\ Answers
      /\ late' \subseteq late => Requests
      /\ UNCHANGED plans => Plans
      /\ UNCHANGED stamp => stamp' >= stamp
      /\ CountPipelineRun => stamp' >= stamp
  BY <1>1 DEF CountPipelineRun
<1> HIDE DEF Runs, Answers, Requests, Plans
<1>8. ASSUME NEW s \in Servers, NEW l \in Links, NEW input \in Inputs
      PROVE  /\ CurrentDecisionPlan(l, input).op = "decision"
             /\ plans' = plans \cup {CurrentDecisionPlan(l, input)} => Plans
  BY DEF CurrentDecisionPlan, DecisionPlan, Plans
<1>9. ASSUME NEW s \in Servers, NEW l \in Links, CountPipelineRun,
             plans' = plans \cup {CurrentWritePlan(l)}
      PROVE  Plans
  BY <1>1, <1>9 DEF CurrentWritePlan, WritePlan, CountPipelineRun, Plans
<1>10. ASSUME NEW s \in Servers, RequestStep(s)
       PROVE  stamp' >= stamp /\ Runs /\ Answers /\ Requests /\ Plans
  <2>1. CASE ListRecords(s)
    BY <1>7, <2>1 DEF ListRecords
  <2>2. CASE RefuseRequest(s)
    BY <1>1, <1>4, <1>7, <2>2 DEF RefuseRequest
  <2>3. ASSUME NEW l \in Links, RefuseUnknownLink(s, l) \/ RefuseNotPending(s, l)
        PROVE  stamp' >= stamp /\ Runs /\ Answers /\ Requests /\ Plans
    BY <1>1, <1>4, <1>7, <2>3 DEF RefuseUnknownLink, RefuseNotPending
  <2>4. ASSUME NEW l \in Links, NEW input \in Inputs, GenerateDecisionPlan(s, l, input)
        PROVE  stamp' >= stamp /\ Runs /\ Answers /\ Requests /\ Plans
    BY <1>7, <1>8, <2>4 DEF GenerateDecisionPlan
  <2>5. ASSUME NEW l \in Links, GenerateWritePlan(s, l)
        PROVE  stamp' >= stamp /\ Runs /\ Answers /\ Requests /\ Plans
    BY <1>7, <1>9, <2>5 DEF GenerateWritePlan
  <2>6. ASSUME NEW l \in Links, NEW input \in Inputs,
               NEW submitted \in plans \cup {NoPlan},
               ExecuteDecision(s, l, input, submitted)
        PROVE  stamp' >= stamp /\ Runs /\ Answers /\ Requests /\ Plans
    <3>1. \/ StartRun(s, CurrentDecisionPlan(l, input)) /\ UNCHANGED plans
          \/ RefuseMismatch(s, submitted, CurrentDecisionPlan(l, input))
      BY <2>6 DEF ExecuteDecision
    <3>2. Runs /\ Answers /\ Plans
      BY <1>1, <1>3, <1>4, <1>7, <1>8, <3>1 DEF RefuseMismatch
    <3> QED  BY <1>7, <2>6, <3>2 DEF ExecuteDecision
  <2>7. ASSUME NEW l \in Links, NEW submitted \in plans \cup {NoPlan},
               ExecuteWrites(s, l, submitted)
        PROVE  stamp' >= stamp /\ Runs /\ Answers /\ Requests /\ Plans
    <3>1. CurrentWritePlan(l) \in WritePlans /\ CurrentWritePlan(l).stamp = stamp + 1
      BY <2>7, PlansTyped DEF ExecuteWrites, CurrentWritePlan, WritePlan
    <3>2. ~NonceAccepted(CurrentWritePlan(l), submitted)
      <4> SUFFICES ASSUME NonceAccepted(CurrentWritePlan(l), submitted)
                   PROVE  FALSE
        OBVIOUS
      <4>1. submitted \in plans /\ submitted \in DecisionPlans \cup WritePlans
        BY DEF NonceAccepted, TypeOK
      <4>2. submitted \in WritePlans /\ submitted.stamp = stamp + 1
        BY <3>1, <4>1, RunsTellPlansApart
      <4>3. submitted.stamp <= stamp
        BY <4>1, <4>2 DEF WritePlanInv, PlansOfPastRuns, WritePlans
      <4> QED  BY <1>1, <4>2, <4>3
    <3>3. RefuseMismatch(s, submitted, CurrentWritePlan(l))
      BY <2>7, <3>2 DEF ExecuteWrites
    <3>4. Runs /\ Answers
      BY <1>1, <1>4, <3>3 DEF RefuseMismatch
    <3>5. Plans
      BY <1>9, <2>7, <3>3 DEF RefuseMismatch, ExecuteWrites
    <3> QED  BY <1>7, <2>7, <3>4, <3>5 DEF ExecuteWrites
  <2> QED  BY <1>10, <2>1, <2>2, <2>3, <2>4, <2>5, <2>6, <2>7
           DEF RequestStep, DecisionStep, WritesStep
<1>11. ASSUME NEW p \in Scripts, StartMvp(p)
       PROVE  stamp' >= stamp /\ Runs /\ Answers /\ Requests /\ Plans
  <2>1. MvpPlan(stamp + 1).op = "mvp"
    BY DEF MvpPlan
  <2> QED  BY <1>1, <1>3, <1>7, <1>11, <2>1 DEF StartMvp
<1>12. ASSUME NEW p \in Procs, CommandStep(p)
       PROVE  stamp' >= stamp /\ Runs /\ Answers /\ Requests /\ Plans
  <2>1. CASE CommandSucceeds(p) /\ LastCommand(run[p])
    BY <1>5, <1>7, <2>1 DEF CommandSucceeds
  <2>2. CASE CommandSucceeds(p) /\ ~LastCommand(run[p])
    <3>1. /\ Busy(p) /\ UNCHANGED <<reply, plans, late, stamp>>
          /\ run' = [run EXCEPT ![p].next = @ + 1]
      BY <2>2 DEF CommandSucceeds
    <3>2. run[p] \in [plan : Plan, next : Nat]
      BY <3>1, BusyRuns DEF Execution
    <3>3. \A q \in Procs : run'[q].plan = run[q].plan
      BY <1>1, <3>1, <3>2
    <3>4. Runs /\ Answers
      BY <3>1, <3>3 DEF Runs, Answers
    <3> QED  BY <1>7, <3>1, <3>4
  <2>3. CASE CommandFails(p)
    BY <1>5, <1>7, <2>3 DEF CommandFails
  <2>4. CASE CommandTimesOut(p)
    BY <1>5, <1>6, <1>7, <2>4 DEF CommandTimesOut
  <2> QED  BY <1>12, <2>1, <2>2, <2>3, <2>4 DEF CommandStep
<1>13. ASSUME NEW p \in Procs, Crash(p)
       PROVE  stamp' >= stamp /\ Runs /\ Answers /\ Requests /\ Plans
  <2>1. /\ run' = [run EXCEPT ![p] = Idle] /\ Idle.plan = NoPlan
        /\ reply' = [reply EXCEPT ![p] = NoReply] /\ NoReply.status = "none"
    BY <1>13 DEF Crash, Idle, NoReply
  <2>2. Runs /\ Answers
    BY <1>1, <2>1 DEF Runs, Answers
  <2>3. Requests
    BY <1>6, <1>7, <1>13 DEF Crash
  <2> QED  BY <1>7, <1>13, <2>2, <2>3 DEF Crash
<1>14. ASSUME UNCHANGED <<run, reply, plans, stamp>>, late' \subseteq late
       PROVE  stamp' >= stamp /\ Runs /\ Answers /\ Requests /\ Plans
  BY <1>7, <1>14
<1>15. CASE \/ \E x \in late : LateArrives(x)
            \/ \E l \in Links : ExpireLink(l)
            \/ \E c \in Cands : \/ \E st \in HandSet : EditStatus(c, st)
                                \/ \E d \in DataVersions : EditData(c, d)
            \/ UNCHANGED vars
  BY <1>14, <1>15 DEF LateArrives, ExpireLink, EditStatus, EditData, vars
<1> QED  BY <1>10, <1>11, <1>12, <1>13, <1>15 DEF Next

(* A write plan is never executed, by no process and on no data: the nonce  *)
(* is compared with that of another pipeline run, whose audit rows carry    *)
(* another run_id.  live_mismatch shows one such refusal; this says that    *)
(* the candidate write-back refuses every plan it is ever given, and that   *)
(* nothing an operator does, no edit and no restart makes it write.         *)
THEOREM WritePlansNeverRun == Spec => []NoWritePlanRuns
<1>1. Init => WritePlanInv
  BY DEF Init, WritePlanInv, NoWritePlanRuns, PlansOfPastRuns, Idle, NoPlan, NoReply
<1>2. TypeOK /\ TypeOK' /\ WritePlanInv /\ [Next]_vars => WritePlanInv'
  BY WritePlanSteps, WritePlanKept
<1>3. WritePlanInv => NoWritePlanRuns
  BY DEF WritePlanInv
<1> QED  BY <1>1, <1>2, <1>3, Typing, PTL DEF Spec
=============================================================================
