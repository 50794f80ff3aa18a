---------------------------- MODULE MCLiveShown ----------------------------
(* LiveWriteback with a history variable: the decision plans an operator    *)
(* asked for and was shown, as against those whose nonce came with a refusal.*)
EXTENDS LiveWriteback

VARIABLE generated

ShownInit == Init /\ generated = {}

(* The plans a step of generate-human-decision-plan answers with. *)
GeneratedNow ==
  {CurrentDecisionPlan(x[2], x[3]) : x \in
     {y \in Servers \X Links \X Inputs : GenerateDecisionPlan(y[1], y[2], y[3])}}

ShownNext == Next /\ generated' = generated \cup GeneratedNow

ShownSpec == ShownInit /\ [][ShownNext]_<<vars, generated>>

(* "planNonce: the nonce generate-human-decision-plan returned"             *)
(* (docs/operations-runbook.md:247).  A decision a server executes is a     *)
(* plan it generated and showed for review; a refused request adds none.    *)
ShownBeforeRun ==
  \A s \in Servers :
    Busy(s) /\ run[s].plan.op = "decision" => run[s].plan \in generated
=============================================================================
