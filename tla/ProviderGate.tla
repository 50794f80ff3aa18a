---------------------------- MODULE ProviderGate ----------------------------
(***************************************************************************)
(* What has to be given before a script may call the external model: a     *)
(* complete provider configuration, its flags and its confirmation phrase; *)
(* and what a script says of a call that failed (src/llm).                 *)
(***************************************************************************)

ProviderFields == {"endpoint", "modelId", "apiKey"}

ProviderConfig == [ProviderFields -> BOOLEAN]

(* buildProviderAdapterReadiness; the scripts pass enabled = true.          *)
Readiness(enabled, config) ==
  IF ~enabled THEN "disabled"
  ELSE IF \A f \in ProviderFields : config[f] THEN "ready" ELSE "blocked"

ProviderReady(config) == Readiness(TRUE, config) = "ready"

(* The plan of a connectivity smoke: "run" when it goes on to the request.  *)
SmokePlan(config, execute, confirmed) ==
  IF ~execute THEN "planned"
  ELSE IF ProviderReady(config) /\ confirmed THEN "run" ELSE "blocked"

(* The plan of the agent demo, which needs a resume as well.                *)
DemoPlan(config, useProvider, execute, confirmed, input) ==
  IF ~execute THEN "planned"
  ELSE IF useProvider /\ ProviderReady(config) /\ confirmed /\ input
       THEN "run" ELSE "blocked"

(* The gate of the dataset runner and of its verification, each with a flag *)
(* and a phrase of its own: confirmed when both are given.                  *)
DatasetGate(config, confirmed) == confirmed /\ ProviderReady(config)

-----------------------------------------------------------------------------
(* How one request to the model ends: 2xx with a body that has content, 2xx *)
(* with JSON without it, 2xx with no JSON, another HTTP status, an abort by *)
(* the timer, or no connection.                                             *)

CallEnds == {"content", "no_content", "no_json", "http", "abort", "network"}

(* The smoke takes any JSON for an answer; the client asks for content.     *)
SmokeStatus(end) == IF end \in {"content", "no_content"} THEN "success" ELSE "failed"

ClientAnswers(end) == end = "content"
=============================================================================
