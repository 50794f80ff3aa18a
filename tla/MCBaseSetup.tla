---------------------------- MODULE MCBaseSetup ----------------------------
EXTENDS BaseSetup

CONSTANTS c1, f1, f2

MCTableOrder == <<"jobs", "candidates", "resume_facts">>

(* One candidate, whose two resume facts have the candidate's key.          *)
MCImportRows ==
  <<[table |-> "candidates", key |-> c1, content |-> NoContent],
    [table |-> "resume_facts", key |-> c1, content |-> f1],
    [table |-> "resume_facts", key |-> c1, content |-> f2]>>

(* One name at a time has several tables.                                   *)
OneNameTwice ==
  Cardinality({n \in TableNames : tables[n] \in {"several_bare", "several"}}) <= 1
=============================================================================
