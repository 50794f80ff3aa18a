------------------------- MODULE CandidatePipeline -------------------------
(***************************************************************************)
(* runCandidatePipeline of src/orchestrator/candidate-pipeline.ts with the *)
(* six agents of src/agents: each agent asks the model once, once more     *)
(* with a correction prompt when the answer does not fit its schema, then  *)
(* appends its audit row, its business writes and its status write to the  *)
(* plan.  The pipeline returns at the first agent whose run failed.        *)
(* Nothing is written to the Base here: the result is a list of commands.  *)
(*                                                                         *)
(* The decode steps between agents parse what an agent has just            *)
(* serialised.  The parsers of src/agents/schemas.ts accept their own      *)
(* output, so their catch branches are unreachable and are left out.       *)
(***************************************************************************)
EXTENDS AgentCommands

CONSTANT MaxFacts  \* most rows one extraction adds (10 in the code: 5 + 5)

ASSUME MaxFactsAssumption == MaxFacts \in Nat

VARIABLES
  agent,     \* the agent running, or "returned"
  calls,     \* model calls this agent has got an unusable answer from
  commands,  \* the plan so far
  runs,      \* the agent runs so far
  result     \* what runCandidatePipeline returned

vars == <<agent, calls, commands, runs, result>>

RunStatus == {"success", "retried", "failed"}

AgentRun ==
  [agent : Agent, runStatus : RunStatus, retries : 0..1,
   before : Status \cup {"none"}, after : Status \cup {"none"}]

Result == [finalStatus : Status, completed : BOOLEAN, failedAgent : Agent \cup {"none"}]

NoResult == [finalStatus |-> "none", completed |-> FALSE, failedAgent |-> "none"]

Command ==
  [kind : {"audit"}, run : AgentRun]
    \cup [kind : {"insert"}, table : {"resume_facts", "interview_kits", "evaluations"}]
    \cup [kind : {"recommend"}]
    \cup [kind : {"status"}, from : Status, to : Status, actor : Actor]

(* How far the pipeline is, and what it holds, in every state.              *)
TypeOK ==
  /\ agent \in Agent \cup {"returned"}
  /\ calls \in 0..1
  /\ commands \in Seq(Command)
  /\ runs \in Seq(AgentRun)
  /\ result \in Result \cup {NoResult}

Init ==
  /\ agent = "resume_intake"
  /\ calls = 0
  /\ commands = <<>>
  /\ runs = <<>>
  /\ result = NoResult

-----------------------------------------------------------------------------
(* The pipeline's bookkeeping around an agent.                              *)

(* Two mistakes in the chain: the graph builder or the interview kit is     *)
(* left out.                                                                *)
NextAgentSkipsGraph(a) ==
  IF a = "hr_coordinator" THEN "returned"
  ELSE LET i == CHOOSE k \in 1..5 : AgentOrder[k] = a
       IN  IF i = 2 THEN AgentOrder[4] ELSE AgentOrder[i + 1]

NextAgentSkipsKit(a) ==
  IF a = "hr_coordinator" THEN "returned"
  ELSE LET i == CHOOSE k \in 1..5 : AgentOrder[k] = a
       IN  IF i = 3 THEN AgentOrder[5] ELSE AgentOrder[i + 1]

(* The agent after a, "returned" after the last. *)
NextAgent(a) ==
  CASE a = "resume_intake" -> "resume_extraction"
    [] a = "resume_extraction" -> "graph_builder"
    [] a = "graph_builder" -> "interview_kit"
    [] a = "interview_kit" -> "screening_reviewer"
    [] a = "screening_reviewer" -> "hr_coordinator"
    [] a = "hr_coordinator" -> "returned"

(* The literal of a decode branch pasted into the early return above it. *)
StoppedAtPasted(a) ==
  CASE a = "resume_intake" -> "new"
    [] a = "resume_extraction" -> "parsed"
    [] a \in {"graph_builder", "interview_kit"} -> "screened"
    [] a \in {"screening_reviewer", "hr_coordinator"} -> "decision_pending"

(* The finalStatus literal of the early return that follows each agent. *)
StoppedAt(a) ==
  CASE a = "resume_intake" -> "new"
    [] a = "resume_extraction" -> "parsed"
    [] a \in {"graph_builder", "interview_kit"} -> "screened"
    [] a = "screening_reviewer" -> "interview_kit_ready"
    [] a = "hr_coordinator" -> "decision_pending"

(* The audit row after the writes it accounts for. *)
AgentResultAuditLast(run, writes) ==
  /\ commands' = commands \o Append(writes, AuditCommand(run))
  /\ runs' = Append(runs, run)

(* An agent's result joins the plan; its audit row comes first. *)
AgentResult(run, writes) ==
  /\ commands' = Append(commands, AuditCommand(run)) \o writes
  /\ runs' = Append(runs, run)

RunOf(a, outcome, retries) ==
  [agent |-> a, runStatus |-> outcome, retries |-> retries,
   before |-> FromStatus[a],
   after |-> IF outcome = "failed" THEN FromStatus[a] ELSE ToStatus[a]]

(* The test of run_status before the business writes forgotten. *)
AgentFailsAndWrites(a) ==
  /\ AgentResult(RunOf(a, "failed", 0), BusinessWrites(a, 0))
  /\ result' = [finalStatus |-> StoppedAt(a), completed |-> FALSE, failedAgent |-> a]
  /\ agent' = "returned"
  /\ calls' = 0

(* The agent's run failed: only its audit row, and the pipeline returns. *)
AgentFails(a) ==
  /\ AgentResult(RunOf(a, "failed", 0), <<>>)
  /\ result' = [finalStatus |-> StoppedAt(a), completed |-> FALSE, failedAgent |-> a]
  /\ agent' = "returned"
  /\ calls' = 0

(* The agent's output was usable after `retries` corrections. *)
AgentSucceeds(a, retries, facts) ==
  /\ AgentResult(RunOf(a, IF retries = 0 THEN "success" ELSE "retried", retries),
                 BusinessWrites(a, facts))
  /\ agent' = NextAgent(a)
  /\ calls' = 0
  /\ result' = IF NextAgent(a) = "returned"
                 THEN [finalStatus |-> "decision_pending", completed |-> TRUE,
                       failedAgent |-> "none"]
                 ELSE result

(* updateCandidateStatus throws on a move the state machine refuses, and    *)
(* the agent then reports a failed run in place of its writes.              *)
MoveAllowed(a) ==
  \A i \in 1..Len(BusinessWrites(a, 0)) :
    LET write == BusinessWrites(a, 0)[i]
    IN  write.kind = "status" => CanTransition(write.from, write.to, write.actor)

AgentFinishes(a, retries, facts) ==
  IF MoveAllowed(a) THEN AgentSucceeds(a, retries, facts) ELSE AgentFails(a)

-----------------------------------------------------------------------------
(* Resume intake packages the raw text; no model call, it cannot fail. *)
RunIntake ==
  /\ agent = "resume_intake"
  /\ AgentFinishes(agent, 0, 0)

(* The model's answer parses under the agent's schema. *)
LlmAnswers ==
  /\ agent \in LlmAgent
  /\ \E facts \in 0..MaxFacts :
       /\ agent # "resume_extraction" => facts = 0
       /\ AgentFinishes(agent, calls, facts)

(* The retry never counted. *)
MayRetryAlways(unusable) == unusable < 3

(* Whether an unusable answer is asked again: completeWithSchemaRetry does  *)
(* so once.                                                                 *)
MayRetry(unusable) == unusable = 0

(* A correction loop without a limit. *)
LlmAnswersBadlyForever ==
  /\ agent \in LlmAgent
  /\ calls' = 1 - calls
  /\ UNCHANGED <<agent, commands, runs, result>>

(* The first answer is no JSON or misses the schema: ask again. *)
LlmAnswersBadlyOnce ==
  /\ agent \in LlmAgent
  /\ MayRetry(calls)
  /\ calls' = calls + 1
  /\ UNCHANGED <<agent, commands, runs, result>>

(* The second answer is unusable as well (SchemaRetryFailedError). *)
LlmAnswersBadlyAgain ==
  /\ agent \in LlmAgent
  /\ ~MayRetry(calls)
  /\ AgentFails(agent)

(* The client throws on either call: an HTTP error, or its own timeout. *)
LlmThrows ==
  /\ agent \in LlmAgent
  /\ AgentFails(agent)

Next ==
  \/ RunIntake
  \/ LlmAnswers
  \/ LlmAnswersBadlyOnce
  \/ LlmAnswersBadlyAgain
  \/ LlmThrows

Spec == Init /\ [][Next]_vars

(* The pipeline is one async function that awaits one call at a time, and   *)
(* the client bounds every call with an abort timer, so it always goes on.  *)
FairSpec == Spec /\ WF_vars(Next)

-----------------------------------------------------------------------------
(* Properties.                                                              *)

IsStatusCommand(c) == c.kind = "status"
IsAuditCommand(c)  == c.kind = "audit"

(* The candidate's status once the plan's first n commands are written. *)
StatusWritten(n) ==
  LET writes == {i \in 1..n : IsStatusCommand(commands[i])}
  IN  IF writes = {} THEN "new"
      ELSE commands[CHOOSE i \in writes : \A j \in writes : j <= i].to

CurrentStatus == StatusWritten(Len(commands))

(* The finalStatus the pipeline reports, a literal at each of its returns,  *)
(* is the status its commands leave the candidate in: a caller that writes  *)
(* the plan and shows finalStatus shows what the Base then holds.           *)
FinalStatusMatchesWrites ==
  agent = "returned" => result.finalStatus = CurrentStatus

(* A failed agent leaves its audit row and nothing after it: no row and no  *)
(* status of a failed run reaches the plan, whatever failed and on whichever *)
(* model call.                                                              *)
FailureLeavesNoWrites ==
  \A i \in 1..Len(commands) :
    IsAuditCommand(commands[i]) /\ commands[i].run.runStatus = "failed"
      => i = Len(commands)

(* The audit trail leads the writes: runners stop at the first command that *)
(* fails, so every status must come after the audit row of the agent that   *)
(* claims it, and that row names exactly the move that is then written from *)
(* the status the plan has reached.                                         *)
AuditPrecedesStatus ==
  \A i \in 1..Len(commands) :
    IsStatusCommand(commands[i]) =>
      /\ commands[i].from = StatusWritten(i - 1)
      /\ \E j \in 1..(i - 1) :
           /\ IsAuditCommand(commands[j])
           /\ commands[j].run.before = commands[i].from
           /\ commands[j].run.after = commands[i].to
           /\ \A k \in (j + 1)..(i - 1) :
                ~ IsAuditCommand(commands[k]) /\ ~ IsStatusCommand(commands[k])

(* What the caller is told agrees with the agent runs: completed means six  *)
(* runs in the agents' order, none failed; otherwise exactly the last run   *)
(* failed and it is the one named.                                          *)
ResultAgreesWithRuns ==
  agent = "returned" =>
    /\ \A i \in 1..Len(runs) : runs[i].agent = AgentOrder[i]
    /\ \A i \in 1..(Len(runs) - 1) : runs[i].runStatus # "failed"
    /\ IF result.completed
         THEN Len(runs) = Len(AgentOrder) /\ runs[Len(runs)].runStatus # "failed"
         ELSE runs[Len(runs)].runStatus = "failed"
              /\ runs[Len(runs)].agent = result.failedAgent

(* Written in order, the plan moves the candidate through the state machine *)
(* as an agent may, one transition per agent at most: no agent's write      *)
(* skips a status, repeats one or makes the final decision.                 *)
Lifecycle == INSTANCE CandidateLifecycle
               WITH status <- CurrentStatus, Start <- {"new"}, Movers <- {"agent"}

ImplementsLifecycle == Lifecycle!Spec

(* The pipeline returns whatever the model answers: retries are bounded.    *)
Returns == <>(agent = "returned")
=============================================================================
