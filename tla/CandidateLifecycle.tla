------------------------ MODULE CandidateLifecycle ------------------------
(***************************************************************************)
(* What the state machine promises about one candidate, with nothing said  *)
(* about who runs or how: it starts in one of Start and then only makes    *)
(* moves of the transition table that one of Movers may make.  The         *)
(* pipeline and the decision runner are shown to implement it.             *)
(***************************************************************************)
EXTENDS CandidateStatus

CONSTANTS
  Start,    \* statuses the candidate may be found in, a subset of Status
  Movers    \* actors that act on it, a subset of Actor

VARIABLE status

Init == status \in Start

Move ==
  \E to \in NextStates(status) :
    /\ \E actor \in Movers : CanTransition(status, to, actor)
    /\ status' = to

Spec == Init /\ [][Move]_status
=============================================================================
