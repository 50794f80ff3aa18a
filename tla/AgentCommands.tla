--------------------------- MODULE AgentCommands ---------------------------
(***************************************************************************)
(* The Base write commands that the agents of the candidate pipeline and   *)
(* the human decision plan emit (src/base/runtime.ts builds them, the      *)
(* files of src/agents and src/orchestrator/human-decision.ts choose       *)
(* them).  A command keeps what the runners and the properties tell apart: *)
(* its kind, the table or status it writes, who claims to write it.  The   *)
(* record identifier and the payload text are abstracted.                  *)
(***************************************************************************)
EXTENDS CandidateStatus, Naturals, Sequences

AgentOrder ==
  <<"resume_intake", "resume_extraction", "graph_builder",
    "interview_kit", "screening_reviewer", "hr_coordinator">>

Agent == {AgentOrder[i] : i \in 1..6}

(* resume_intake is deterministic, every other agent asks the model. *)
LlmAgent == Agent \ {"resume_intake"}

(* The fromStatus that runCandidatePipeline passes to each agent, and the   *)
(* status the agent moves the candidate to when its run succeeds.  The      *)
(* graph builder is given none and writes none.                             *)
FromStatus ==
  [a \in Agent |-> CASE a = "resume_intake" -> "new"
                     [] a = "resume_extraction" -> "parsed"
                     [] a = "graph_builder" -> "none"
                     [] a = "interview_kit" -> "screened"
                     [] a = "screening_reviewer" -> "interview_kit_ready"
                     [] a = "hr_coordinator" -> "decision_pending"]

ToStatus ==
  [a \in Agent |-> CASE a = "resume_intake" -> "parsed"
                     [] a = "resume_extraction" -> "screened"
                     [] a = "graph_builder" -> "none"
                     [] a = "interview_kit" -> "interview_kit_ready"
                     [] a \in {"screening_reviewer", "hr_coordinator"} ->
                          "decision_pending"]

-----------------------------------------------------------------------------
(* The five kinds of upsert.  "audit" appends a row to Agent Runs,          *)
(* "insert" adds a row to another table; "recommend", "decision" and        *)
(* "status" update the candidate's own record.                              *)

AuditCommand(run)  == [kind |-> "audit", run |-> run]
InsertCommand(tbl) == [kind |-> "insert", table |-> tbl]
RecommendCommand   == [kind |-> "recommend"]
DecisionCommand(input) == [kind |-> "decision", input |-> input]
StatusCommand(from, to, actor) ==
  [kind |-> "status", from |-> from, to |-> to, actor |-> actor]

(* What each agent writes after its audit row when its run succeeds: rows   *)
(* first, the status is the last business write.                            *)

AgentMove(a) == StatusCommand(FromStatus[a], ToStatus[a], "agent")

IntakeWrites == <<AgentMove("resume_intake")>>

(* facts is the number of skills and features found that become rows. *)
ExtractionWrites(facts) ==
  Append([i \in 1..facts |-> InsertCommand("resume_facts")],
         AgentMove("resume_extraction"))

GraphBuilderWrites == <<>>

InterviewKitWrites == <<InsertCommand("interview_kits"), AgentMove("interview_kit")>>

ReviewerWrites ==
  << InsertCommand("evaluations"), RecommendCommand,
     AgentMove("screening_reviewer") >>

(* The coordinator leaves out a move to where the candidate already is. *)
HrCoordinatorWrites ==
  IF FromStatus["hr_coordinator"] = "decision_pending"
    THEN <<>>
    ELSE <<AgentMove("hr_coordinator")>>

BusinessWrites(a, facts) ==
  CASE a = "resume_intake"      -> IntakeWrites
    [] a = "resume_extraction"  -> ExtractionWrites(facts)
    [] a = "graph_builder"      -> GraphBuilderWrites
    [] a = "interview_kit"      -> InterviewKitWrites
    [] a = "screening_reviewer" -> ReviewerWrites
    [] a = "hr_coordinator"     -> HrCoordinatorWrites

(* The status written before the decision it stands on. *)
DecisionCommandsStatusFirst(input) ==
  << StatusCommand("decision_pending", input.decision, "human_confirm"),
     DecisionCommand(input) >>

(* The plan of a human decision: the three decision fields in one upsert,   *)
(* then the status.                                                         *)
DecisionCommands(input) ==
  << DecisionCommand(input),
     StatusCommand("decision_pending", input.decision, "human_confirm") >>

(* The whole plan of an agent whose run succeeded. *)
AgentPlan(a, run, facts) == <<AuditCommand(run)>> \o BusinessWrites(a, facts)
=============================================================================
