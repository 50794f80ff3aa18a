------------------------- MODULE MCDatasetDecision -------------------------
EXTENDS Operation

CONSTANT c1

(* One candidate, whom the agents always take to the decision.              *)
MCInputs == {<<c1>>}
MCOutcomes == {6}
MCEnvironments == {[f \in ProviderFields \cup {"write"} |-> TRUE]}
=============================================================================
