---------------------------- MODULE MCOperation ----------------------------
EXTENDS Operation

CONSTANTS c1, c2

(* Two candidates, and a dataset in which nothing parses.                   *)
MCInputs == {<<c1, NoRecord, c2>>, <<NoRecord>>}

(* The provider's pipelines end in the middle or go through.                *)
MCOutcomes == {2, 6}

(* All is set; or neither the key of the provider nor the leave to write.   *)
MCEnvironments ==
  {[f \in ProviderFields \cup {"write"} |-> TRUE],
   [f \in ProviderFields \cup {"write"} |-> f \notin {"apiKey", "write"}]}
=============================================================================
