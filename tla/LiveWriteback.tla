--------------------------- MODULE LiveWriteback ---------------------------
(***************************************************************************)
(* The live write paths to the Feishu Base and what they do to a           *)
(* candidate's status and decision:                                        *)
(*   - the two-step human decision (live-human-decision-runner.ts) and the *)
(*     two-step candidate write-back (live-candidate-write-runner.ts),     *)
(*     behind the HTTP routes of a server process;                         *)
(*   - the MVP write script (live-mvp-runner.ts), a process of its own;    *)
(*   - the link registry that stands between a listing and a plan;         *)
(*   - people editing the same table in Feishu, crashes, timeouts.         *)
(* Every write is a spawnSync of lark-cli: within one process nothing      *)
(* interleaves with an execution, other processes and Feishu do.           *)
(***************************************************************************)
EXTENDS AgentCommands, FiniteSets

CONSTANTS
  Cands,          \* candidate records of the Base
  Links,          \* link identifiers: each is issued at most once
  Servers,        \* server processes, each with a registry of its own
  Scripts,        \* invocations of the MVP write script
  Deciders,       \* the people a decision may name, the script's one excepted
  DataVersions,   \* what the fields a pipeline run reads may hold
  DemoCand,       \* the record the MVP identity resolves to
  Ops,            \* the runners in use, of {"decision", "writes"}
  HandSet,        \* statuses people set by hand in Feishu
  InitialStatus,  \* statuses a candidate may start with
  MaxLate,        \* bound on the requests of killed lark-cli processes under way
  MaxPipelineRuns,\* bound on pipeline runs, each with a stamp of its own
  Unissued, Expired, NoLink

FinalDecision == {"offer", "rejected"}

Inputs == [decision : FinalDecision, by : Deciders]

NoDecision == [decision |-> "none", by |-> "none"]

(* The script's decision is a literal, and so are the resume and the job    *)
(* its pipeline runs on.                                                    *)
DemoInput == [decision |-> "offer", by |-> "demo_hiring_manager"]

DemoData == "demo"

ASSUME ConstantsAssumption ==
  /\ DemoCand \in Cands
  /\ DemoInput \notin Inputs
  /\ Ops \subseteq {"decision", "writes"}
  /\ HandSet \subseteq Status
  /\ InitialStatus \subseteq Status
  /\ MaxLate \in Nat
  /\ MaxPipelineRuns \in Nat
  /\ Unissued # Expired
  /\ {Unissued, Expired} \cap [server : Servers, cand : Cands] = {}
  /\ Servers \cap Scripts = {}

VARIABLES
  base,      \* the Candidates table
  registry,  \* what a link stands for, and on which server
  plans,     \* the plans whose nonce a server has answered with
  run,       \* the execution a process is in
  reply,     \* the answer a process gave last
  late,      \* requests of killed lark-cli processes still under way
  stamp      \* pipeline runs so far; run_id and intake time differ in each

vars == <<base, registry, plans, run, reply, late, stamp>>

Procs == Servers \cup Scripts

-----------------------------------------------------------------------------
(* Plans.  A plan is kept as what it is computed from; its commands and its *)
(* nonce are functions of that.                                             *)

DecisionPlans ==
  [op : {"decision"}, link : Links, cand : Cands, input : Inputs, stamp : {0},
   data : DataVersions]

WritePlans ==
  [op : {"writes"}, link : Links, cand : Cands, input : {NoDecision}, stamp : Nat,
   data : DataVersions]

MvpPlans ==
  [op : {"mvp"}, link : {NoLink}, cand : {DemoCand}, input : {DemoInput},
   stamp : Nat, data : {DemoData}]

Plan == DecisionPlans \cup WritePlans \cup MvpPlans

(* A decision plan depends on the record and the operator's input only. *)
DecisionPlan(link, cand, input, data) ==
  [op |-> "decision", link |-> link, cand |-> cand, input |-> input,
   stamp |-> 0, data |-> data]

WritePlan(link, cand, data, n) ==
  [op |-> "writes", link |-> link, cand |-> cand, input |-> NoDecision,
   stamp |-> n, data |-> data]

MvpPlan(n) ==
  [op |-> "mvp", link |-> NoLink, cand |-> DemoCand, input |-> DemoInput,
   stamp |-> n, data |-> DemoData]

(* The plan of a completed pipeline run.  The audit rows carry run_id,      *)
(* which holds Date.now() and Math.random(), and the agents' output.  One   *)
(* fact row stands for the rows the extraction adds.                        *)
PipelineCommands(n, data) ==
  LET Audit(a) == [agent |-> a, stamp |-> n, data |-> data]
      Of(a) == AgentPlan(a, Audit(a), 1)
  IN  Of("resume_intake") \o Of("resume_extraction") \o Of("graph_builder")
        \o Of("interview_kit") \o Of("screening_reviewer") \o Of("hr_coordinator")

ReportCommands(n) ==
  <<AuditCommand([agent |-> "analytics", stamp |-> n]), InsertCommand("reports")>>

Commands(plan) ==
  CASE plan.op = "decision" -> DecisionCommands(plan.input)
    [] plan.op = "writes" -> PipelineCommands(plan.stamp, plan.data)
    [] plan.op = "mvp" ->
         PipelineCommands(plan.stamp, plan.data)
           \o DecisionCommands(plan.input) \o ReportCommands(plan.stamp)

NoPlan ==
  [op |-> "none", link |-> NoLink, cand |-> "none", input |-> NoDecision,
   stamp |-> 0, data |-> "none"]

(* A nonce that only says whose plan it is. *)
NonceOfRecord(plan) == [link |-> plan.link, cand |-> plan.cand]

(* computePlanNonce of each runner hashes these; the hash is taken to be    *)
(* injective.                                                               *)
DecisionNonce(plan) ==
  [link |-> plan.link, cand |-> plan.cand, input |-> plan.input,
   commands |-> Commands(plan)]

WritesNonce(plan) ==
  [link |-> plan.link, cand |-> plan.cand, commands |-> Commands(plan)]

Nonce(plan) ==
  IF plan.op = "decision" THEN DecisionNonce(plan) ELSE WritesNonce(plan)

(* The comparison with the submitted nonce forgotten. *)
NonceIgnored(recomputed, submitted) == TRUE

(* The TOCTOU guard: the plan just recomputed has the nonce submitted.      *)
(* NoPlan stands for a nonce that no server has answered with.              *)
NonceAccepted(recomputed, submitted) ==
  submitted # NoPlan /\ Nonce(recomputed) = Nonce(submitted)

(* The status checked when the plan is generated and not again: the check   *)
(* is written once for both handlers.                                       *)
MayDecideAnything(status) == TRUE

(* buildHumanDecisionPlan and executeLiveHumanDecision take no other status. *)
MayDecide(status) == status = "decision_pending"

-----------------------------------------------------------------------------
(* State.                                                                   *)

(* An execution is at the command numbered next of its plan. *)
Execution == {x \in [plan : Plan, next : Nat] : x.next \in 1..Len(Commands(x.plan))}

Idle == [plan |-> NoPlan, next |-> 0]

Busy(p) == run[p].next # 0

(* A reply to an execution keeps the plan the handler recomputed and, when  *)
(* it was refused, the one whose nonce was submitted.  A handler that could *)
(* not read the candidate answers "failed" with executed false: unexecuted. *)
Reply ==
  [status : {"none", "blocked", "unexecuted", "success", "failed"},
   reason : {"none", "link", "status", "mismatch", "guard", "unread"},
   submitted : Plan \cup {NoPlan}, plan : Plan \cup {NoPlan}, successCount : Nat]

NoReply ==
  [status |-> "none", reason |-> "none", submitted |-> NoPlan, plan |-> NoPlan,
   successCount |-> 0]

Blocked(reason, submitted, plan) ==
  [status |-> IF reason = "unread" THEN "unexecuted" ELSE "blocked",
   reason |-> reason, submitted |-> submitted, plan |-> plan, successCount |-> 0]

Finished(outcome, plan, acknowledged) ==
  [status |-> outcome, reason |-> "none", submitted |-> NoPlan, plan |-> plan,
   successCount |-> acknowledged]

Row == [status : Status, decision : Inputs \cup {NoDecision, DemoInput},
        data : DataVersions]

(* The records, the links, and the process of each server and script, in    *)
(* every state.                                                             *)
TypeOK ==
  /\ base \in [Cands -> Row]
  /\ registry \in [Links -> {Unissued, Expired} \cup [server : Servers, cand : Cands]]
  /\ plans \subseteq DecisionPlans \cup WritePlans
  /\ run \in [Procs -> Execution \cup {Idle}]
  /\ reply \in [Procs -> Reply]
  /\ late \subseteq Execution
  /\ stamp \in 0..MaxPipelineRuns

Init ==
  /\ base \in [Cands -> {[status |-> st, decision |-> NoDecision, data |-> d] :
                            st \in InitialStatus, d \in DataVersions}]
  /\ registry = [l \in Links |-> Unissued]
  /\ plans = {}
  /\ run = [p \in Procs |-> Idle]
  /\ reply = [p \in Procs |-> NoReply]
  /\ late = {}
  /\ stamp = 0

-----------------------------------------------------------------------------
(* The link registry: a Map in the memory of a server.                      *)

Known(s, l) == registry[l] \notin {Unissued, Expired} /\ registry[l].server = s

(* A listing registers a new link for every record it shows. *)
ListRecords(s) ==
  /\ ~Busy(s)
  /\ \E fresh \in [Cands -> {l \in Links : registry[l] = Unissued}] :
       /\ \A c, d \in Cands : c # d => fresh[c] # fresh[d]
       /\ registry' = [l \in Links |->
                         IF \E c \in Cands : fresh[c] = l
                           THEN [server |-> s, cand |-> CHOOSE c \in Cands : fresh[c] = l]
                           ELSE registry[l]]
  /\ UNCHANGED <<base, plans, run, reply, late, stamp>>

(* A link is dropped after a day, or as one of the oldest of a full map. *)
ExpireLink(l) ==
  /\ registry[l] \notin {Unissued, Expired}
  /\ registry' = [registry EXCEPT ![l] = Expired]
  /\ UNCHANGED <<base, plans, run, reply, late, stamp>>

-----------------------------------------------------------------------------
(* Generating a plan reads the Base and writes nothing.                     *)

(* The decision plan the server computes for link l from what it reads now. *)
CurrentDecisionPlan(l, input) ==
  DecisionPlan(l, registry[l].cand, input, base[registry[l].cand].data)

(* A pipeline run on link l, now. *)
CurrentWritePlan(l) ==
  WritePlan(l, registry[l].cand, base[registry[l].cand].data, stamp + 1)

CountPipelineRun == stamp < MaxPipelineRuns /\ stamp' = stamp + 1

GenerateDecisionPlan(s, l, input) ==
  /\ ~Busy(s)
  /\ Known(s, l)
  /\ MayDecide(base[registry[l].cand].status)
  /\ plans' = plans \cup {CurrentDecisionPlan(l, input)}
  /\ UNCHANGED <<base, registry, run, reply, late, stamp>>

(* The candidate's status is not looked at, here or when the plan is executed. *)
GenerateWritePlan(s, l) ==
  /\ ~Busy(s)
  /\ Known(s, l)
  /\ CountPipelineRun
  /\ plans' = plans \cup {CurrentWritePlan(l)}
  /\ UNCHANGED <<base, registry, run, reply, late>>

-----------------------------------------------------------------------------
(* The execute handlers, up to their first write: no other handler of the   *)
(* process runs in between.                                                 *)

StartRun(p, plan) ==
  /\ run' = [run EXCEPT ![p] = [plan |-> plan, next |-> 1]]
  /\ reply' = [reply EXCEPT ![p] = NoReply]

Refuse(s, reason, submitted, plan) ==
  /\ reply' = [reply EXCEPT ![s] = Blocked(reason, submitted, plan)]
  /\ UNCHANGED run

(* The nonce does not match.  The answer holds the nonce of the plan that   *)
(* was just recomputed and refused.                                         *)
RefuseMismatch(s, submitted, plan) ==
  /\ Refuse(s, "mismatch", submitted, plan)
  /\ plans' = plans \cup {plan}

(* Refused on grounds that leave no trace in this state: a wrong confirm    *)
(* phrase, an empty nonce, bad input, no permission, or a candidate that    *)
(* could not be read.                                                       *)
RefuseRequest(s) ==
  /\ ~Busy(s)
  /\ \E reason \in {"guard", "unread"} : Refuse(s, reason, NoPlan, NoPlan)
  /\ UNCHANGED <<base, registry, plans, late, stamp>>

RefuseUnknownLink(s, l) ==
  /\ ~Busy(s)
  /\ ~Known(s, l)
  /\ Refuse(s, "link", NoPlan, NoPlan)
  /\ UNCHANGED <<base, registry, plans, late, stamp>>

RefuseNotPending(s, l) ==
  /\ ~Busy(s)
  /\ Known(s, l)
  /\ ~MayDecide(base[registry[l].cand].status)
  /\ Refuse(s, "status", NoPlan, NoPlan)
  /\ UNCHANGED <<base, registry, plans, late, stamp>>

(* The candidate is read again, the plan recomputed from the operator's     *)
(* input and its nonce compared with the one submitted.                     *)
ExecuteDecision(s, l, input, submitted) ==
  /\ ~Busy(s)
  /\ Known(s, l)
  /\ MayDecide(base[registry[l].cand].status)
  /\ LET plan == CurrentDecisionPlan(l, input)
     IN  IF NonceAccepted(plan, submitted)
           THEN StartRun(s, plan) /\ UNCHANGED plans
           ELSE RefuseMismatch(s, submitted, plan)
  /\ UNCHANGED <<base, registry, late, stamp>>

(* The pipeline is run again on what is read again. *)
ExecuteWrites(s, l, submitted) ==
  /\ ~Busy(s)
  /\ Known(s, l)
  /\ CountPipelineRun
  /\ LET plan == CurrentWritePlan(l)
     IN  IF NonceAccepted(plan, submitted)
           THEN StartRun(s, plan) /\ UNCHANGED plans
           ELSE RefuseMismatch(s, submitted, plan)
  /\ UNCHANGED <<base, registry, late>>

(* The script resolves the demo candidate's record, plans and executes in   *)
(* one go; it looks at no field of that record.                             *)
StartMvp(p) ==
  /\ ~Busy(p)
  /\ CountPipelineRun
  /\ StartRun(p, MvpPlan(stamp + 1))
  /\ UNCHANGED <<base, registry, plans, late>>

-----------------------------------------------------------------------------
(* The command loop, the same in the three runners.                         *)

(* The table after a command: an upsert sets its fields and checks nothing. *)
Written(plan, i) ==
  LET cmd == Commands(plan)[i]
  IN  CASE cmd.kind = "status" -> [base EXCEPT ![plan.cand].status = cmd.to]
        [] cmd.kind = "decision" -> [base EXCEPT ![plan.cand].decision = cmd.input]
        [] OTHER -> base

(* A loop that ends one command early. *)
LastButOne(x) == x.next >= Len(Commands(x.plan)) - 1

(* A loop that goes one command too far. *)
OnePastLast(x) == x.next > Len(Commands(x.plan))

LastCommand(x) == x.next = Len(Commands(x.plan))

StopRun(p, outcome, acknowledged) ==
  /\ run' = [run EXCEPT ![p] = Idle]
  /\ reply' = [reply EXCEPT ![p] = Finished(outcome, run[p].plan, acknowledged)]

CommandSucceeds(p) ==
  /\ Busy(p)
  /\ base' = Written(run[p].plan, run[p].next)
  /\ IF LastCommand(run[p])
       THEN StopRun(p, "success", run[p].next)
       ELSE /\ run' = [run EXCEPT ![p].next = @ + 1]
            /\ UNCHANGED reply
  /\ UNCHANGED <<registry, plans, late, stamp>>

(* The loop counts the failed command among the successful ones. *)
CommandFailsCounted(p) ==
  /\ Busy(p)
  /\ StopRun(p, "failed", run[p].next)
  /\ UNCHANGED <<base, registry, plans, late, stamp>>

(* A failed command makes the loop start the plan again. *)
CommandFailsRestarts(p) ==
  /\ Busy(p)
  /\ run' = [run EXCEPT ![p].next = 1]
  /\ UNCHANGED <<base, registry, plans, reply, late, stamp>>

(* lark-cli exits with an error and the Base has not changed: stop. *)
CommandFails(p) ==
  /\ Busy(p)
  /\ StopRun(p, "failed", run[p].next - 1)
  /\ UNCHANGED <<base, registry, plans, late, stamp>>

(* The request was sent and the process is gone: it may have been served,   *)
(* or still be under way.                                                   *)
RequestLeftBehind(p) ==
  \/ /\ base' = Written(run[p].plan, run[p].next)
     /\ UNCHANGED late
  \/ /\ Cardinality(late) < MaxLate
     /\ late' = late \cup {run[p]}
     /\ UNCHANGED base

(* spawnSync kills lark-cli after 30 s; to the runner that is a failure. *)
CommandTimesOut(p) ==
  /\ Busy(p)
  /\ StopRun(p, "failed", run[p].next - 1)
  /\ RequestLeftBehind(p)
  /\ UNCHANGED <<registry, plans, stamp>>

LateArrives(x) ==
  /\ base' = Written(x.plan, x.next)
  /\ late' = late \ {x}
  /\ UNCHANGED <<registry, plans, run, reply, stamp>>

(* The process dies and is started again: a server's links are gone, and    *)
(* the command that was running may have been served.                       *)
Crash(p) ==
  /\ registry' = [l \in Links |-> IF Known(p, l) THEN Expired ELSE registry[l]]
  /\ run' = [run EXCEPT ![p] = Idle]
  /\ reply' = [reply EXCEPT ![p] = NoReply]
  /\ \/ UNCHANGED <<base, late>>
     \/ Busy(p) /\ RequestLeftBehind(p)
  /\ UNCHANGED <<plans, stamp>>

-----------------------------------------------------------------------------
(* People edit the candidate's record in Feishu whenever they like.         *)

EditStatus(c, st) ==
  /\ base' = [base EXCEPT ![c].status = st]
  /\ UNCHANGED <<registry, plans, run, reply, late, stamp>>

EditData(c, d) ==
  /\ base' = [base EXCEPT ![c].data = d]
  /\ UNCHANGED <<registry, plans, run, reply, late, stamp>>

-----------------------------------------------------------------------------
DecisionStep(s) ==
  \/ \E l \in Links, input \in Inputs :
       \/ GenerateDecisionPlan(s, l, input)
       \/ \E submitted \in plans \cup {NoPlan} : ExecuteDecision(s, l, input, submitted)
  \/ \E l \in Links : RefuseNotPending(s, l)

WritesStep(s) ==
  \E l \in Links :
    \/ GenerateWritePlan(s, l)
    \/ \E submitted \in plans \cup {NoPlan} : ExecuteWrites(s, l, submitted)

(* What a server does for an operator. *)
RequestStep(s) ==
  \/ ListRecords(s)
  \/ RefuseRequest(s)
  \/ \E l \in Links : RefuseUnknownLink(s, l)
  \/ "decision" \in Ops /\ DecisionStep(s)
  \/ "writes" \in Ops /\ WritesStep(s)

CommandStep(p) == CommandSucceeds(p) \/ CommandFails(p) \/ CommandTimesOut(p)

Next ==
  \/ \E s \in Servers : RequestStep(s)
  \/ \E p \in Scripts : StartMvp(p)
  \/ \E p \in Procs : CommandStep(p) \/ Crash(p)
  \/ \E x \in late : LateArrives(x)
  \/ \E l \in Links : ExpireLink(l)
  \/ \E c \in Cands : \/ \E st \in HandSet : EditStatus(c, st)
                      \/ \E d \in DataVersions : EditData(c, d)

Spec == Init /\ [][Next]_vars

(* spawnSync returns within its timeout; nobody has to send a request. *)
FairSpec == Spec /\ \A p \in Procs : WF_vars(CommandStep(p))

-----------------------------------------------------------------------------
(* Properties.                                                              *)

IsAnswered(plan) ==
  \E seen \in plans :
    /\ seen.op = plan.op /\ seen.link = plan.link /\ seen.cand = plan.cand
    /\ Commands(seen) = Commands(plan)

(* Whatever a server executes, has executed or has left behind in Feishu is *)
(* a plan whose nonce a server had answered with: same link, same record,   *)
(* the same commands to the letter.  Between the two lie a second read of   *)
(* the Base, edits, restarts and other operators' plans.  (A refusal is an  *)
(* answer with a nonce too: see MCLiveShown.)                               *)
AnsweredOnly ==
  /\ \A s \in Servers :
       /\ Busy(s) => IsAnswered(run[s].plan)
       /\ reply[s].status \in {"success", "failed"} => IsAnswered(reply[s].plan)
  /\ \A x \in late : x.plan.op # "mvp" => IsAnswered(x.plan)

(* Nobody is rejected, and nobody's decision is signed by a person, without *)
(* the nonce of a decision plan for that very record and input having been  *)
(* answered: also with the script at work, restarts, late requests and      *)
(* people reopening candidates by hand.  (The script's own is an offer.)    *)
OutcomeWasAnswered ==
  \A c \in Cands :
    LET Answered(input) ==
          \E plan \in plans : plan.op = "decision" /\ plan.cand = c /\ plan.input = input
    IN  /\ base[c].decision \in Inputs => Answered(base[c].decision)
        /\ base[c].status = "rejected" =>
             \E d \in Deciders : Answered([decision |-> "rejected", by |-> d])

(* Nobody gives a candidate a final status by hand. *)
NoFinalByHand == (HandSet \cup InitialStatus) \cap FinalDecision = {}

(* The next four are about decisions that one server makes with nobody else *)
(* at work on the table; see OneWriter.                                     *)

(* A final status stands next to the decision it came from, through every   *)
(* failed, timed out or interrupted execution and every retry with the same *)
(* or the opposite decision.                                                *)
DecisionConsistent ==
  \A c \in Cands :
    base[c].status \in FinalDecision => base[c].decision.decision = base[c].status

(* What the operator is told of an execution that failed: as many commands  *)
(* as it counts are in the Base, and of the next one at most that one, so   *)
(* the candidate can be decided again or holds this very decision.          *)
FailureReportTruthful ==
  \A s \in Servers :
    LET plan == reply[s].plan
        row == base[plan.cand]
    IN  reply[s].status = "failed" /\ ~Busy(s) =>
          IF reply[s].successCount = 0
            THEN row.status = "decision_pending"
            ELSE /\ row.decision = plan.input
                 /\ row.status \in {"decision_pending", plan.input.decision}

(* Success is answered in a state where both the decision and the status    *)
(* are in the Base, and not before.                                         *)
SuccessMeansWritten ==
  [][\A s \in Servers :
       reply'[s].status = "success" /\ reply[s].status # "success" =>
         LET plan == reply'[s].plan
         IN  /\ base'[plan.cand].decision = plan.input
             /\ base'[plan.cand].status = plan.input.decision]_vars

(* The status only moves as the state machine lets a human move it, and a   *)
(* final status stays: the status is checked long before it is written and  *)
(* the write checks nothing.                                                *)
Lifecycle(c) == INSTANCE CandidateLifecycle
                  WITH status <- base[c].status, Start <- InitialStatus,
                       Movers <- {"human_confirm"}

ImplementsLifecycle ==
  /\ \A c \in Cands : Lifecycle(c)!Init
  /\ [][\A c \in Cands : [Lifecycle(c)!Move]_(base[c].status)]_vars

(* Every execution ends, with an answer or with its process: no failure or  *)
(* timeout leaves the loop waiting.                                         *)
RunEnds == \A p \in Procs : Busy(p) ~> ~Busy(p)

(* One server, decisions only, no script, nobody editing the status and no  *)
(* request that outlives its process.                                       *)
OneWriter ==
  /\ \E s \in Servers : Servers = {s}
  /\ Scripts = {}
  /\ Ops = {"decision"}
  /\ HandSet = {}
  /\ MaxLate = 0
  /\ InitialStatus \cap FinalDecision = {}

-----------------------------------------------------------------------------
(* Statements of the repository's own text that the code does not meet.     *)

(* "planNonce mismatch: the candidate's data may have changed"              *)
(* (live-candidate-write-runner.ts:350).  A write plan refused by its nonce *)
(* was submitted for another link, or the data it was made from changed.    *)
MismatchMeansChanged ==
  \A s \in Servers :
    reply[s].reason = "mismatch" /\ reply[s].plan.op = "writes" =>
      \/ reply[s].submitted.op # "writes"
      \/ reply[s].submitted.link # reply[s].plan.link
      \/ reply[s].submitted.data # reply[s].plan.data

(* "planNonce mismatch: the candidate's data or the decision's parameters   *)
(* may have changed", the TOCTOU guard (live-human-decision-runner.ts:424,  *)
(* 427).  A decision a server executes is a plan it answered with, made     *)
(* from the data the candidate had then: changed data is refused.           *)
DecidedOnAnsweredData ==
  \A s \in Servers :
    Busy(s) /\ run[s].plan.op = "decision" => run[s].plan \in plans

(* "offer and rejected are terminal states" (docs/current-state.md:61).     *)
FinalStatusIsTerminal ==
  [][\A c \in Cands : base[c].status \in FinalDecision
       => base'[c].status = base[c].status]_vars
=============================================================================
