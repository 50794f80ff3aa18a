------------------------------ MODULE Operation ------------------------------
(***************************************************************************)
(* An operator works along one of two runbooks, the operator runbook of    *)
(* the MVP scripts or the E2E runbook of the server, or with the scripts   *)
(* that take a dataset of candidates through the agents.                   *)
(***************************************************************************)
EXTENDS MvpOperation, E2eRunbook, AgentDataset

VARIABLE route   \* what the operator works along

vars == <<mvpVars, journeyVars, datasetVars, route>>

Routes == {"mvp", "e2e", "dataset"}

(* Where the operator, the scripts and the reports are, in every state.     *)
TypeOK ==
  /\ MvpType
  /\ JourneyType
  /\ DatasetType
  /\ route \in Routes

Init == MvpInit /\ JourneyInit /\ DatasetInit /\ route \in Routes

AlongMvp == route = "mvp" /\ MvpNext /\ UNCHANGED <<journeyVars, datasetVars, route>>

AlongE2e == route = "e2e" /\ JourneyNext /\ UNCHANGED <<mvpVars, datasetVars, route>>

WithDatasets ==
  route = "dataset" /\ DatasetNext /\ UNCHANGED <<mvpVars, journeyVars, route>>

Next == AlongMvp \/ AlongE2e \/ WithDatasets

(* A script goes on: each lark-cli call ends, with its timeout at the       *)
(* latest, and nothing waits for anybody.                                   *)
Spec == Init /\ [][Next]_vars /\ WF_vars(ScriptStep /\ UNCHANGED <<journeyVars, datasetVars, route>>)

-----------------------------------------------------------------------------
(* A script that was started ends, whatever the Base answers.               *)
ScriptEnds == (script.kind # "none") ~> (script.kind = "none")

(* The E2E runbook leads to each write step at most once that writes, also  *)
(* when it failed in the middle, and never shows two of the steps to be     *)
(* done by hand at the same time, nor one behind a write step that failed.  *)
WriteStepsOnce ==
  /\ \A i \in WriteSteps : executed[i] <= 1
  /\ \A i, j \in WriteSteps \cup {3} :
       (StepStatus[i] = "manual" /\ StepStatus[j] \in {"manual", "failed"}) => i = j

(* A journey that the runbook calls completed has seeded the Base and       *)
(* written the candidate, the decision and the report, each to the end.     *)
CompletedMeansWritten ==
  OverallStatus = "completed" =>
    /\ Seeded /\ Written /\ Decided /\ Reported
    /\ \A i \in WriteSteps : executed[i] > 0

(* A verification that passed took every entry of its dataset through all   *)
(* six agents with the provider, and left the snapshot of the last; an      *)
(* answer that says success or discloses model calls comes from a script    *)
(* that made some, and one that was blocked or only planned made none.      *)
AnswersHold ==
  /\ answer.status = "passed" =>
       /\ answer.results # <<>>
       /\ \A e \in DOMAIN answer.results : CompletedResult(answer.results[e])
       /\ file = Snapshot("provider", answer.results[Len(answer.results)])
  /\ answer.disclosed \/ answer.status \in {"passed", "success"} => answer.asked
  /\ answer.status \in {"blocked", "planned"} => ~answer.asked

(* A candidate's status that a dataset run has written has its audit row in *)
(* the Base, in the same run and for the same record, whatever failed, was  *)
(* killed or came through late.                                             *)
StatusHasAudit ==
  \A r \in Records :
    live[r].by # 0 =>
      LET plan == plans[live[r].by]
      IN \E i \in DOMAIN plan :
           /\ <<live[r].by, i>> \in served
           /\ plan[i].record = r
           /\ plan[i].command.kind = "audit" /\ plan[i].command.run.after = live[r].status

(* docs/current-state.md calls offer and rejected terminal states.          *)
DecisionIsFinal ==
  [][\A r \in Records : live[r].status \in FinalStatus =>
       live'[r].status = live[r].status]_vars
=============================================================================
