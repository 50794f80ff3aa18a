---------------------------- MODULE AgentDataset ----------------------------
(***************************************************************************)
(* The scripts that call the model from a terminal: the dataset runner     *)
(* (run-live-agent-dataset.ts), its verification, which runs it with the   *)
(* provider and no Base writes (run-provider-dataset-verify.ts), the       *)
(* pipeline script, the connectivity smoke and the provider agent demo.    *)
(*                                                                         *)
(* The dataset runner takes each entry through the candidate pipeline,     *)
(* writes one snapshot of the last, and then, when asked to, the commands  *)
(* of all entries as one plan.  Which status a record has it never reads.  *)
(***************************************************************************)
EXTENDS AgentCommands, ProviderGate, FiniteSets

CONSTANTS
  Records,     \* candidate records of the Base
  NoRecord,    \* an entry that does not parse
  Inputs,      \* the datasets: sequences of records and NoRecord
  Outcomes,    \* after how many agents a pipeline with the provider may end
  ResumeFacts, \* rows that one extraction adds
  Environments, \* what the environment may give
  MaxPlans,    \* bound on the runs that come to their Base writes
  MaxLost      \* bound on the requests given up and still under way

ASSUME DatasetAssumption ==
  /\ NoRecord \notin Records
  /\ Inputs \subseteq Seq(Records \cup {NoRecord})
  /\ Outcomes \subseteq 0..6
  /\ ResumeFacts \in Nat
  /\ Environments \subseteq [ProviderFields \cup {"write"} -> BOOLEAN]
  /\ MaxPlans \in Nat
  /\ MaxLost \in Nat

VARIABLES
  provider,  \* the environment: the provider's fields, HIRELOOP_ALLOW_LARK_WRITE
  task,      \* the script that runs
  file,      \* the runtime snapshot file
  answer,    \* what the last script said, and what it had done
  plans,     \* history: the plan of each run that came to its writes
  served,    \* the commands served, with the run they are of
  lost,      \* commands given up and still under way
  live       \* of each record, its status in the Base and the run that wrote it

datasetVars == <<provider, task, file, answer, plans, served, lost, live>>

Agents == Len(AgentOrder)
Modes == {"deterministic", "provider"}

(* A CandidatePipelineResult: the agents that succeeded, and the plan.      *)
PipelineResult == [record : Records, agents : 0..Agents]

CompletedResult(r) == r.agents = Agents

AuditOf(a, succeeded) ==
  AuditCommand([agent |-> a, after |-> IF succeeded THEN ToStatus[a] ELSE FromStatus[a]])

(* What agent n of the pipeline adds to its plan: the first that fails adds *)
(* its audit row alone, and those behind it do not run.                     *)
CommandsBy(r, n) ==
  IF n <= r.agents
  THEN <<AuditOf(AgentOrder[n], TRUE)>> \o BusinessWrites(AgentOrder[n], ResumeFacts)
  ELSE IF n = r.agents + 1 THEN <<AuditOf(AgentOrder[n], FALSE)>> ELSE <<>>

(* The same with the record that each command is about.                     *)
RowsBy(r, n) ==
  [i \in 1..Len(CommandsBy(r, n)) |->
     [record |-> r.record, command |-> CommandsBy(r, n)[i]]]

RowsFor ==
  [r \in PipelineResult |->
     RowsBy(r, 1) \o RowsBy(r, 2) \o RowsBy(r, 3)
       \o RowsBy(r, 4) \o RowsBy(r, 5) \o RowsBy(r, 6)]

PlanCommand ==
  {AuditOf(a, succeeded) : a \in Agent, succeeded \in BOOLEAN}
    \cup {InsertCommand(table) : table \in {"resume_facts", "interview_kits", "evaluations"}}
    \cup {RecommendCommand}
    \cup {AgentMove(a) : a \in Agent \ {"graph_builder"}}

PlanRow == [record : Records, command : PlanCommand]

Task ==
  [kind : {"none", "dataset", "verify", "pipeline", "smoke", "demo"}, mode : Modes,
   stage : {"agents", "snapshot", "writes", "request"}, writes : BOOLEAN,
   entries : Seq(Records), results : Seq(PipelineResult), commands : Seq(PlanRow),
   next : Nat, asked : BOOLEAN]

NoTask ==
  [kind |-> "none", mode |-> "deterministic", stage |-> "agents", writes |-> FALSE,
   entries |-> <<>>, results |-> <<>>, commands |-> <<>>, next |-> 1, asked |-> FALSE]

(* No file, one cut short, or the snapshot of a pipeline.                   *)
Snapshot(mode, result) == [state |-> "whole", mode |-> mode, result |-> result]
NoResult == [record |-> NoRecord, agents |-> 0]
NoFile == [Snapshot("deterministic", NoResult) EXCEPT !.state = "none"]
TornFile == [NoFile EXCEPT !.state = "torn"]

(* A verification's externalModelCalls and snapshotWritten are equal in all *)
(* of its results: disclosed stands for both.                               *)
Answer(status, disclosed) ==
  [kind |-> task.kind, status |-> status, disclosed |-> disclosed,
   results |-> task.results, asked |-> task.asked]
NoAnswer ==
  [kind |-> "none", status |-> "none", disclosed |-> FALSE, results |-> <<>>,
   asked |-> FALSE]

DatasetType ==
  /\ provider \in Environments
  /\ [f \in ProviderFields |-> provider[f]] \in ProviderConfig
  /\ task \in Task
  /\ file \in {NoFile, TornFile} \cup {Snapshot(m, r) : m \in Modes, r \in PipelineResult}
  /\ answer.results \in Seq(PipelineResult)
  /\ plans \in Seq(Seq(PlanRow)) /\ Len(plans) <= MaxPlans
  /\ served \subseteq (1..MaxPlans) \X Nat
  /\ lost \subseteq (1..MaxPlans) \X Nat
  /\ live \in [Records -> [status : Status, by : 0..MaxPlans]]

DatasetInit ==
  /\ provider \in Environments
  /\ task = NoTask
  /\ file = NoFile
  /\ answer = NoAnswer
  /\ plans = <<>>
  /\ served = {}
  /\ lost = {}
  /\ live = [r \in Records |-> [status |-> "new", by |-> 0]]

-----------------------------------------------------------------------------
(* A script starts: its gate is judged at once, in the environment that it  *)
(* keeps.  One that is blocked only says so.                                *)

Idle == task.kind = "none"

Begin(t) ==
  /\ Idle
  /\ task' = t
  /\ answer' = NoAnswer
  /\ UNCHANGED <<provider, file, plans, served, lost, live>>

Says(kind, status) ==
  /\ Idle
  /\ answer' = [NoAnswer EXCEPT !.kind = kind, !.status = status]
  /\ UNCHANGED <<provider, task, file, plans, served, lost, live>>

(* loadDataset leaves out the entries that do not parse, and throws when    *)
(* none does.                                                               *)
Loaded(input) ==
  LET f[n \in 0..Len(input)] ==
        IF n = 0 THEN <<>>
        ELSE IF input[n] = NoRecord THEN f[n - 1] ELSE Append(f[n - 1], input[n])
  IN f[Len(input)]

Entries(kind, mode, writes, entries) ==
  [NoTask EXCEPT !.kind = kind, !.mode = mode, !.writes = writes, !.entries = entries]

(* useProvider without the flag and the phrase of its gate is blocked;      *)
(* --write-base without its flag and its phrase blocks only the writes,     *)
(* which then do not happen, as if not asked for.                           *)
StartDataset ==
  \E input \in Inputs, useProvider, confirmed, writeConfirmed \in BOOLEAN :
    IF useProvider /\ ~DatasetGate(provider, confirmed)
    THEN Says("dataset", "blocked")
    ELSE /\ Loaded(input) # <<>>
         /\ Begin(Entries("dataset", IF useProvider THEN "provider" ELSE "deterministic",
                          writeConfirmed /\ provider.write, Loaded(input)))

StartVerify ==
  \E input \in Inputs, confirmed \in BOOLEAN :
    IF ~DatasetGate(provider, confirmed) THEN Says("verify", "blocked")
    ELSE IF Loaded(input) = <<>> THEN Says("verify", "failed")
    ELSE Begin(Entries("verify", "provider", FALSE, Loaded(input)))

(* The pipeline script takes one record and the deterministic client.       *)
StartPipeline ==
  \E r \in Records : Begin(Entries("pipeline", "deterministic", FALSE, <<r>>))

StartSmoke ==
  \E execute, confirmed \in BOOLEAN :
    LET plan == SmokePlan(provider, execute, confirmed)
    IN IF plan # "run" THEN Says("smoke", plan)
       ELSE Begin([NoTask EXCEPT !.kind = "smoke", !.stage = "request"])

StartDemo ==
  \E useProvider, execute, confirmed, input \in BOOLEAN :
    LET plan == DemoPlan(provider, useProvider, execute, confirmed, input)
    IN IF plan # "run" THEN Says("demo", plan)
       ELSE Begin([NoTask EXCEPT !.kind = "demo", !.stage = "request"])

-----------------------------------------------------------------------------
(* A script goes on.                                                        *)

Finishes == task' = NoTask

(* Of the answers at the end only a verification's says how the model did.  *)
EndsWith(status, disclosed) ==
  /\ Finishes
  /\ IF task.kind = "verify" THEN answer' = Answer(status, disclosed) ELSE UNCHANGED answer

(* The smoke makes one request.                                             *)
SmokeRequest ==
  /\ task.kind = "smoke"
  /\ \E end \in CallEnds :
       answer' = [Answer(SmokeStatus(end), FALSE) EXCEPT !.asked = TRUE]
  /\ Finishes
  /\ UNCHANGED <<provider, file, plans, served, lost, live>>

(* The demo's agent, the resume parser, asks once more when content does    *)
(* not fit its schema.                                                      *)
AsksAgain(end, fits) == ClientAnswers(end) /\ ~fits /\ task.next = 1

DemoRequest ==
  /\ task.kind = "demo"
  /\ \E end \in CallEnds, fits \in BOOLEAN :
       IF AsksAgain(end, fits)
       THEN /\ task' = [task EXCEPT !.next = 2, !.asked = TRUE]
            /\ UNCHANGED answer
       ELSE /\ answer' = [Answer(IF ClientAnswers(end) /\ fits THEN "success" ELSE "failed",
                                 FALSE) EXCEPT !.asked = TRUE]
            /\ Finishes
  /\ UNCHANGED <<provider, file, plans, served, lost, live>>

(* The deterministic client has an answer for every agent of the pipeline.  *)
PipelineEnds == IF task.mode = "provider" THEN Outcomes ELSE {Agents}

(* One entry goes through the pipeline, and its commands are put behind     *)
(* those of the entries before it; intake asks nothing, so the first        *)
(* request is extraction's.                                                 *)
RunEntry ==
  /\ task.stage = "agents"
  /\ task.kind # "none"
  /\ \E n \in PipelineEnds :
       LET result == [record |-> task.entries[task.next], agents |-> n]
       IN task' = [task EXCEPT !.results = Append(@, result),
                     !.commands = @ \o RowsFor[result], !.next = @ + 1,
                     !.asked = @ \/ task.mode = "provider",
                     !.stage = IF task.next = Len(task.entries) THEN "snapshot" ELSE @]
  /\ UNCHANGED <<provider, file, answer, plans, served, lost, live>>

(* A verification that passes when any candidate came through. *)
VerifyStatusSome(results) ==
  IF \E e \in DOMAIN results : CompletedResult(results[e]) THEN "passed" ELSE "failed"

VerifyStatus(results) ==
  IF \A e \in DOMAIN results : CompletedResult(results[e]) THEN "passed" ELSE "failed"

(* The snapshot shows the last result; after it a dataset run may write.    *)
WriteSnapshot ==
  /\ task.stage = "snapshot"
  /\ file' = Snapshot(task.mode, task.results[Len(task.results)])
  /\ IF task.writes
     THEN /\ Len(plans) < MaxPlans
          /\ task' = [task EXCEPT !.stage = "writes", !.next = 1]
          /\ plans' = Append(plans, task.commands)
          /\ UNCHANGED answer
     ELSE /\ EndsWith(VerifyStatus(task.results), TRUE)
          /\ UNCHANGED plans
  /\ UNCHANGED <<provider, served, lost, live>>

(* The file cannot be written, or not to its end: the script throws, and a  *)
(* verification answers with a fixed text that discloses nothing.           *)
SnapshotFails ==
  /\ task.stage = "snapshot"
  /\ file' \in {file, TornFile}
  /\ EndsWith("failed", FALSE)
  /\ UNCHANGED <<provider, plans, served, lost, live>>

(* What the Base does with command i of a run's plan.                       *)
ServeCommand(run, i) ==
  LET row == plans[run][i]
  IN /\ served' = served \cup {<<run, i>>}
     /\ live' = IF row.command.kind = "status"
                THEN [live EXCEPT ![row.record] = [status |-> row.command.to, by |-> run]]
                ELSE live

Run == Len(plans)
LastCommand == task.next = Len(plans[Run])

CommandSucceeds ==
  /\ task.stage = "writes"
  /\ ServeCommand(Run, task.next)
  /\ IF LastCommand THEN Finishes /\ UNCHANGED answer
     ELSE task' = [task EXCEPT !.next = @ + 1] /\ UNCHANGED answer
  /\ UNCHANGED <<provider, file, plans, lost>>

(* A command that failed by its timeout may still be under way.             *)
Lose ==
  \/ UNCHANGED lost
  \/ /\ Cardinality(lost) < MaxLost
     /\ lost' = lost \cup {<<Run, task.next>>}

(* A runner that goes on after a command that failed. *)
CommandFailsGoesOn ==
  /\ task.stage = "writes"
  /\ Lose
  /\ IF LastCommand THEN Finishes /\ UNCHANGED answer
     ELSE task' = [task EXCEPT !.next = @ + 1] /\ UNCHANGED answer
  /\ UNCHANGED <<provider, file, plans, served, live>>

(* The first failure ends the run; the answer counts it.                    *)
CommandFails ==
  /\ task.stage = "writes"
  /\ Lose
  /\ Finishes /\ UNCHANGED answer
  /\ UNCHANGED <<provider, file, plans, served, live>>

(* A killed script says nothing.                                            *)
TaskKilled ==
  /\ ~Idle
  /\ Finishes
  /\ IF task.stage = "writes" THEN Lose ELSE UNCHANGED lost
  /\ file' \in IF task.stage = "snapshot" THEN {file, TornFile} ELSE {file}
  /\ UNCHANGED <<provider, answer, plans, served, live>>

TaskStep ==
  \/ SmokeRequest \/ DemoRequest
  \/ RunEntry \/ WriteSnapshot \/ SnapshotFails
  \/ CommandSucceeds \/ CommandFails

-----------------------------------------------------------------------------
(* The surroundings.                                                        *)

LostArrives ==
  \E request \in lost :
    /\ lost' = lost \ {request}
    /\ ServeCommand(request[1], request[2]) \/ UNCHANGED <<served, live>>
    /\ UNCHANGED <<provider, task, file, answer, plans>>

(* A human decision goes through the server and is written to the Base.     *)
Decide ==
  \E r \in Records, decision \in FinalStatus :
    /\ live[r].status = "decision_pending"
    /\ live' = [live EXCEPT ![r] = [status |-> decision, by |-> 0]]
    /\ UNCHANGED <<provider, task, file, answer, plans, served, lost>>

ChangeProvider ==
  /\ Idle
  /\ provider' \in Environments
  /\ UNCHANGED <<task, file, answer, plans, served, lost, live>>

DatasetNext ==
  \/ StartDataset \/ StartVerify \/ StartPipeline \/ StartSmoke \/ StartDemo
  \/ TaskStep
  \/ TaskKilled
  \/ LostArrives
  \/ Decide
  \/ ChangeProvider
=============================================================================
