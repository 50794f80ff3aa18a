-------------------------- MODULE CandidateStatus --------------------------
(***************************************************************************)
(* The candidate state machine of src/orchestrator/state-machine.ts: the   *)
(* statuses, the transition table with the actors each row allows, and the *)
(* lookups made in it.  Constant level only: every module that moves a     *)
(* candidate uses these operators.                                         *)
(***************************************************************************)

Status == {"new", "parsed", "screened", "interview_kit_ready",
           "decision_pending", "offer", "rejected"}

Actor == {"agent", "human_confirm"}

(* The statuses a human decision leads to; no row of the table leaves them. *)
FinalStatus == {"offer", "rejected"}

Transitions ==
  { [from |-> "new", to |-> "parsed", actors |-> Actor],
    [from |-> "parsed", to |-> "screened", actors |-> Actor],
    [from |-> "screened", to |-> "interview_kit_ready", actors |-> Actor],
    [from |-> "interview_kit_ready", to |-> "decision_pending",
     actors |-> Actor],
    [from |-> "decision_pending", to |-> "offer",
     actors |-> {"human_confirm"}],
    [from |-> "decision_pending", to |-> "rejected",
     actors |-> {"human_confirm"}] }

(* assertTransition lets exactly these through and throws on the others. *)
CanTransition(from, to, actor) ==
  \E rule \in Transitions :
    rule.from = from /\ rule.to = to /\ actor \in rule.actors

NextStates(from) == {rule.to : rule \in {r \in Transitions : r.from = from}}
=============================================================================
