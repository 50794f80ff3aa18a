------------------------ MODULE LiveDecision_proofs ------------------------
(***************************************************************************)
(* Proofs about what the executions of LiveWriteback leave in the Base:    *)
(* first with any number of servers, scripts and late requests, then for   *)
(* one server that decides alone.                                          *)
(***************************************************************************)
EXTENDS LiveWriteback_proofs

-----------------------------------------------------------------------------
(* The ways a step can change the table.                                    *)

WrittenByPlan(x) ==
  /\ base' = Written(x.plan, x.next)
  /\ \/ x \in late
     \/ \E p \in Procs : Busy(p) /\ x = run[p]

TableStep ==
  /\ plans \subseteq plans'
  /\ \/ base' = base
     \/ \E x \in Execution : WrittenByPlan(x)
     \/ \E c \in Cands, st \in HandSet : EditStatus(c, st)
     \/ \E c \in Cands, d \in DataVersions : EditData(c, d)

LEMMA TableSteps ==
  ASSUME TypeOK, [Next]_vars
  PROVE  TableStep
<1>1. ASSUME NEW s \in Servers, RequestStep(s)
      PROVE  TableStep
  BY <1>1 DEF TableStep, RequestStep, ListRecords, RefuseRequest, RefuseUnknownLink, DecisionStep,
       WritesStep, GenerateDecisionPlan, GenerateWritePlan, ExecuteDecision,
       ExecuteWrites, RefuseMismatch, RefuseNotPending
<1>2. ASSUME NEW p \in Scripts, StartMvp(p)
      PROVE  TableStep
  BY <1>2 DEF TableStep, StartMvp
<1>3. ASSUME NEW p \in Procs, Busy(p), base' = Written(run[p].plan, run[p].next)
      PROVE  \E x \in Execution : WrittenByPlan(x)
  <2>1. run[p] \in Execution
    BY <1>3, BusyRuns
  <2> QED  BY <1>3, <2>1 DEF WrittenByPlan
<1>4. ASSUME NEW p \in Procs, CommandStep(p)
      PROVE  TableStep
  BY <1>3, <1>4 DEF TableStep, CommandStep, CommandSucceeds, CommandFails,
       CommandTimesOut, RequestLeftBehind
<1>5. ASSUME NEW p \in Procs, Crash(p)
      PROVE  TableStep
  BY <1>3, <1>5 DEF TableStep, Crash, RequestLeftBehind
<1>6. ASSUME NEW x \in late, LateArrives(x)
      PROVE  TableStep
  <2>1. x \in Execution
    BY DEF TypeOK
  <2> QED  BY <1>6, <2>1 DEF TableStep, LateArrives, WrittenByPlan
<1>7. ASSUME NEW l \in Links, ExpireLink(l)
      PROVE  TableStep
  BY <1>7 DEF TableStep, ExpireLink
<1>8. ASSUME NEW c \in Cands, (\E st \in HandSet : EditStatus(c, st))
                               \/ (\E d \in DataVersions : EditData(c, d))
      PROVE  TableStep
  BY <1>8 DEF TableStep, EditStatus, EditData
<1>9. CASE UNCHANGED vars
  BY <1>9 DEF TableStep, vars
<1> QED  BY <1>1, <1>2, <1>4, <1>5, <1>6, <1>7, <1>8, <1>9 DEF Next

(* The candidate's row after a command: its status or its decision may      *)
(* change, and to what; no other row changes.                               *)
LEMMA WrittenRow ==
  ASSUME base \in [Cands -> Row], NEW x \in Execution, NEW c \in Cands
  PROVE  LET cmd == Commands(x.plan)[x.next]
             row == Written(x.plan, x.next)[c]
         IN  /\ row.decision = IF c = x.plan.cand /\ cmd.kind = "decision"
                                 THEN cmd.input ELSE base[c].decision
             /\ row.status = IF c = x.plan.cand /\ cmd.kind = "status"
                               THEN cmd.to ELSE base[c].status
<1> DEFINE plan == x.plan
           cmd == Commands(plan)[x.next]
<1>1. plan.cand \in Cands
  BY ConstantsAssumption DEF Execution, Plan, DecisionPlans, WritePlans, MvpPlans
<1>2. CASE cmd.kind = "status"
  <2>1. Written(plan, x.next) = [base EXCEPT ![plan.cand].status = cmd.to]
    BY <1>2 DEF Written
  <2> HIDE DEF cmd, plan
  <2>2. \A b \in Cands : base[b] \in Row
    OBVIOUS
  <2>3. \A b \in Cands :
          Written(plan, x.next)[b] = IF b = plan.cand THEN [base[b] EXCEPT !.status = cmd.to]
                                     ELSE base[b]
    BY <1>1, <2>1
  <2>4. \A r \in Row : /\ [r EXCEPT !.status = cmd.to].status = cmd.to
                       /\ [r EXCEPT !.status = cmd.to].decision = r.decision
    BY DEF Row
  <2> QED  BY <1>2, <2>2, <2>3, <2>4 DEF plan, cmd
<1>3. CASE cmd.kind = "decision"
  <2>1. Written(plan, x.next) = [base EXCEPT ![plan.cand].decision = cmd.input]
    BY <1>3 DEF Written
  <2> HIDE DEF cmd, plan
  <2>2. \A b \in Cands : base[b] \in Row
    OBVIOUS
  <2>3. \A b \in Cands :
          Written(plan, x.next)[b] = IF b = plan.cand
                                       THEN [base[b] EXCEPT !.decision = cmd.input]
                                       ELSE base[b]
    BY <1>1, <2>1
  <2>4. \A r \in Row : /\ [r EXCEPT !.decision = cmd.input].decision = cmd.input
                       /\ [r EXCEPT !.decision = cmd.input].status = r.status
    BY DEF Row
  <2> QED  BY <1>3, <2>2, <2>3, <2>4 DEF plan, cmd
<1>4. CASE cmd.kind \notin {"status", "decision"}
  <2>1. Written(plan, x.next) = base
    BY <1>4 DEF Written
  <2> QED  BY <1>4, <2>1
<1> QED  BY <1>2, <1>3, <1>4

-----------------------------------------------------------------------------
(* Every outcome's nonce was answered.                                      *)

Answered(c, input) ==
  \E plan \in plans : plan.op = "decision" /\ plan.cand = c /\ plan.input = input

LEMMA AnsweredDecision ==
  ASSUME TypeOK, NEW plan \in DecisionPlans, IsAnswered(plan)
  PROVE  Answered(plan.cand, plan.input)
<1>1. PICK seen \in plans : /\ seen.op = plan.op /\ seen.link = plan.link
                            /\ seen.cand = plan.cand
                            /\ Commands(seen) = Commands(plan)
  BY DEF IsAnswered
<1>2. seen \in DecisionPlans
  BY <1>1 DEF TypeOK, DecisionPlans, WritePlans
<1>3. Commands(seen)[1] = DecisionCommand(seen.input)
  BY <1>2, CommandsOfDecision
<1>4. Commands(plan)[1] = DecisionCommand(plan.input)
  BY CommandsOfDecision
<1>5. seen.input = plan.input
  BY <1>1, <1>3, <1>4 DEF DecisionCommand
<1>6. seen.op = "decision"
  BY <1>2 DEF DecisionPlans
<1> QED  BY <1>1, <1>5, <1>6 DEF Answered

OutcomeInv ==
  \A c \in Cands :
    /\ base[c].decision \in Inputs => Answered(c, base[c].decision)
    /\ base[c].status = "rejected" =>
         \E d \in Deciders : Answered(c, [decision |-> "rejected", by |-> d])

(* A decision or rejection that a plan writes is that of an answered plan.  *)
LEMMA OutcomeWritten ==
  ASSUME AnswerInv, OutcomeInv, plans \subseteq plans',
         NEW x \in Execution, WrittenByPlan(x)
  PROVE  OutcomeInv'
<1> DEFINE plan == x.plan
           cmd == Commands(plan)[x.next]
<1>1. plan \in Plan
  BY DEF Execution
<1>2. plan \in DecisionPlans => Answered(plan.cand, plan.input)
  <2> SUFFICES ASSUME plan \in DecisionPlans PROVE Answered(plan.cand, plan.input)
    OBVIOUS
  <2>1. IsAnswered(plan)
    <3>1. CASE x \in late
      BY <3>1 DEF AnswerInv, AnsweredOnly, DecisionPlans
    <3>2. CASE \E p \in Servers : Busy(p) /\ x = run[p]
      BY <3>2 DEF AnswerInv, AnsweredOnly
    <3>3. CASE \E p \in Scripts : Busy(p) /\ x = run[p]
      BY <3>3 DEF AnswerInv, ScriptsRunMvp, MvpPlans, DecisionPlans
    <3> QED  BY <3>1, <3>2, <3>3 DEF WrittenByPlan, Procs
  <2> QED  BY <2>1, AnsweredDecision DEF AnswerInv
<1>3. \A c, input : Answered(c, input) => Answered(c, input)'
  BY DEF Answered
<1>4. /\ plan.op \in {"decision", "mvp"} =>
           plan \in DecisionPlans \/ plan.input = DemoInput
      /\ plan \in DecisionPlans =>
           plan.input = [decision |-> plan.input.decision, by |-> plan.input.by]
             /\ plan.input.by \in Deciders
  BY <1>1 DEF Plan, DecisionPlans, WritePlans, MvpPlans, Inputs
<1>5. /\ cmd.kind = "decision" =>
           plan.op \in {"decision", "mvp"} /\ cmd.input = plan.input
      /\ cmd.kind = "status" /\ cmd.to \in FinalStatus =>
           plan.op \in {"decision", "mvp"} /\ cmd.to = plan.input.decision
  BY CommandKinds
<1>6. ASSUME NEW c \in Cands
      PROVE  /\ base'[c].decision = IF c = plan.cand /\ cmd.kind = "decision"
                                      THEN cmd.input ELSE base[c].decision
             /\ base'[c].status = IF c = plan.cand /\ cmd.kind = "status"
                                    THEN cmd.to ELSE base[c].status
  BY WrittenRow DEF WrittenByPlan, AnswerInv, TypeOK
<1> HIDE DEF plan, cmd
<1>7. ASSUME NEW c \in Cands, base'[c].decision \in Inputs
      PROVE  Answered(c, base[c].decision)'
  <2>1. Answered(c, base'[c].decision)
    BY <1>2, <1>4, <1>5, <1>6, <1>7, ConstantsAssumption DEF OutcomeInv
  <2> QED  BY <1>3, <2>1
<1>8. ASSUME NEW c \in Cands, base'[c].status = "rejected"
      PROVE  \E d \in Deciders : Answered(c, [decision |-> "rejected", by |-> d])'
  <2>1. CASE c = plan.cand /\ cmd.kind = "status"
    <3>1. cmd.to = "rejected" /\ plan.op \in {"decision", "mvp"}
          /\ plan.input.decision = "rejected"
      BY <1>5, <1>6, <1>8, <2>1 DEF FinalStatus
    <3>2. plan \in DecisionPlans
      BY <1>4, <3>1 DEF DemoInput
    <3>3. Answered(c, [decision |-> "rejected", by |-> plan.input.by])
      BY <1>2, <1>4, <2>1, <3>1, <3>2
    <3> QED  BY <1>3, <1>4, <3>2, <3>3
  <2>2. CASE ~(c = plan.cand /\ cmd.kind = "status")
    <3>1. \E d \in Deciders : Answered(c, [decision |-> "rejected", by |-> d])
      BY <1>6, <1>8, <2>2 DEF OutcomeInv
    <3> QED  BY <1>3, <3>1
  <2> QED  BY <2>1, <2>2
<1> QED  BY <1>7, <1>8 DEF OutcomeInv

LEMMA OutcomeStep ==
  ASSUME NoFinalByHand, AnswerInv, OutcomeInv, [Next]_vars
  PROVE  OutcomeInv'
<1>1. TableStep
  BY TableSteps DEF AnswerInv
<1>2. \A c, input : Answered(c, input) => Answered(c, input)'
  BY <1>1 DEF Answered, TableStep
<1>3. CASE \E x \in Execution : WrittenByPlan(x)
  BY <1>1, <1>3, OutcomeWritten DEF TableStep
<1>4. CASE base' = base
  BY <1>2, <1>4 DEF OutcomeInv
<1>5. ASSUME NEW c \in Cands, NEW st \in HandSet, EditStatus(c, st)
      PROVE  OutcomeInv'
  <2>1. st # "rejected"
    BY DEF NoFinalByHand, FinalDecision
  <2>2. \A b \in Cands : base[b] \in Row
    BY DEF AnswerInv, TypeOK
  <2>3. \A r \in Row : /\ [r EXCEPT !.status = st].status = st
                       /\ [r EXCEPT !.status = st].decision = r.decision
    BY DEF Row
  <2>4. \A b \in Cands : base'[b] = IF b = c THEN [base[b] EXCEPT !.status = st]
                                    ELSE base[b]
    BY <1>5 DEF EditStatus, AnswerInv, TypeOK
  <2>5. \A b \in Cands : /\ base'[b].decision = base[b].decision
                         /\ base'[b].status = "rejected" => base[b].status = "rejected"
    BY <2>1, <2>2, <2>3, <2>4
  <2> QED  BY <1>2, <2>5 DEF OutcomeInv
<1>6. ASSUME NEW c \in Cands, NEW d \in DataVersions, EditData(c, d)
      PROVE  OutcomeInv'
  <2>1. \A b \in Cands : base[b] \in Row
    BY DEF AnswerInv, TypeOK
  <2>2. \A r \in Row : /\ [r EXCEPT !.data = d].status = r.status
                       /\ [r EXCEPT !.data = d].decision = r.decision
    BY DEF Row
  <2>3. \A b \in Cands : base'[b] = IF b = c THEN [base[b] EXCEPT !.data = d]
                                    ELSE base[b]
    BY <1>6 DEF EditData, AnswerInv, TypeOK
  <2>4. \A b \in Cands : /\ base'[b].decision = base[b].decision
                         /\ base'[b].status = base[b].status
    BY <2>1, <2>2, <2>3
  <2> QED  BY <1>2, <2>4 DEF OutcomeInv
<1> QED  BY <1>1, <1>3, <1>4, <1>5, <1>6 DEF TableStep

(* As long as nobody gives a final status by hand, every rejection, and     *)
(* every decision signed by a person, is that of a decision plan whose      *)
(* nonce a server answered with for that very record, however many servers  *)
(* and scripts write to the table and however late their requests arrive.   *)
THEOREM OutcomesWereAnswered ==
  ASSUME NoFinalByHand
  PROVE  Spec => []OutcomeWasAnswered
<1>1. Init => OutcomeInv
  <2> SUFFICES ASSUME Init PROVE OutcomeInv
    OBVIOUS
  <2>1. \A c \in Cands : base[c].decision = NoDecision /\ base[c].status \in InitialStatus
    BY DEF Init
  <2>2. NoDecision \notin Inputs
    BY DEF NoDecision, Inputs, FinalDecision
  <2> QED  BY <2>1, <2>2 DEF OutcomeInv, NoFinalByHand, FinalDecision
<1>2. AnswerInv /\ OutcomeInv /\ [Next]_vars => (AnswerInv /\ OutcomeInv)'
  BY AnswerStep, OutcomeStep
<1>3. OutcomeInv => OutcomeWasAnswered
  BY DEF OutcomeInv, OutcomeWasAnswered, Answered
<1> QED  BY <1>1, <1>2, <1>3, AnswerInit, PTL DEF Spec

-----------------------------------------------------------------------------
(* One server deciding alone.  The invariant: an execution that is going on *)
(* decides a pending candidate, and once its first command is through the   *)
(* decision is in the Base.                                                 *)

Deciding(s) ==
  /\ run[s].plan \in DecisionPlans
  /\ base[run[s].plan.cand].status = "decision_pending"
  /\ run[s].next = 2 => base[run[s].plan.cand].decision = run[s].plan.input

SingleInv ==
  /\ late = {}
  /\ \A s \in Servers : Busy(s) => Deciding(s)
  /\ \A s \in Servers : reply[s].status = "failed" => reply[s].plan \in DecisionPlans
  /\ DecisionConsistent
  /\ FailureReportTruthful

LEMMA DecisionPlanFields ==
  ASSUME NEW plan \in DecisionPlans
  PROVE  /\ plan.cand \in Cands /\ plan.input \in Inputs
         /\ plan.input.decision \in FinalDecision
BY DEF DecisionPlans, Inputs

LEMMA SingleInit == OneWriter /\ Init => SingleInv
<1> SUFFICES ASSUME OneWriter, Init PROVE SingleInv
  OBVIOUS
<1>1. \A c \in Cands : base[c].status \notin FinalDecision
  BY DEF Init, OneWriter
<1>2. \A s \in Servers : ~Busy(s) /\ reply[s].status = "none"
  BY DEF Init, Procs, Busy, Idle, NoReply
<1>3. late = {}
  BY DEF Init
<1> QED  BY <1>1, <1>2, <1>3 DEF SingleInv, DecisionConsistent, FailureReportTruthful

(* A step that leaves the table's status and decision and the executions    *)
(* as they are, and gives no failure report.                                *)
LEMMA SingleQuiet ==
  ASSUME SingleInv, late' = late,
         \A c \in Cands : /\ base'[c].status = base[c].status
                          /\ base'[c].decision = base[c].decision,
         \A s \in Servers : /\ run'[s] = run[s]
                            /\ reply'[s] = reply[s] \/ reply'[s].status # "failed"
  PROVE  SingleInv'
<1>1. \A s \in Servers : Busy(s)' => Deciding(s)'
  BY DecisionPlanFields DEF SingleInv, Busy, Deciding
<1>2. \A s \in Servers :
        reply'[s].status = "failed" => reply'[s] = reply[s] /\ reply'[s].plan \in DecisionPlans
  BY DEF SingleInv
<1>3. DecisionConsistent'
  BY DEF SingleInv, DecisionConsistent
<1>4. FailureReportTruthful'
  <2> SUFFICES ASSUME NEW s \in Servers, reply'[s].status = "failed", ~Busy(s)'
               PROVE  LET plan == reply'[s].plan
                          row == base'[plan.cand]
                      IN  IF reply'[s].successCount = 0
                            THEN row.status = "decision_pending"
                            ELSE /\ row.decision = plan.input
                                 /\ row.status \in {"decision_pending", plan.input.decision}
    BY DEF FailureReportTruthful
  <2>1. reply'[s] = reply[s] /\ reply[s].plan.cand \in Cands /\ ~Busy(s)
    BY <1>2, DecisionPlanFields DEF Busy
  <2> QED  BY <2>1 DEF SingleInv, FailureReportTruthful
<1> QED  BY <1>1, <1>2, <1>3, <1>4 DEF SingleInv

(* What the command an execution is at does to the table.                   *)
LEMMA CommandRows ==
  ASSUME TypeOK, SingleInv, NEW s \in Servers, Busy(s)
  PROVE  LET plan == run[s].plan
             w == Written(plan, run[s].next)
         IN  /\ run[s].next \in {1, 2} /\ Len(Commands(plan)) = 2
             /\ run[s].next = 1 => \A c \in Cands :
                  /\ w[c].status = base[c].status
                  /\ w[c].decision = IF c = plan.cand THEN plan.input
                                     ELSE base[c].decision
             /\ run[s].next = 2 => \A c \in Cands :
                  /\ w[c].decision = base[c].decision
                  /\ w[c].status = IF c = plan.cand THEN plan.input.decision
                                   ELSE base[c].status
<1> DEFINE x == run[s]
           plan == x.plan
<1>1. x \in Execution
  BY BusyRuns DEF Procs
<1>2. plan \in DecisionPlans
  BY DEF SingleInv, Deciding
<1>3. Len(Commands(plan)) = 2
  BY <1>2, CommandsOfDecision
<1>4. x.next \in {1, 2}
  <2>1. x.next \in 1..Len(Commands(plan))
    BY <1>1 DEF Execution
  <2> QED  BY <1>3, <2>1
<1>5. /\ Commands(plan)[1] = DecisionCommand(plan.input)
      /\ Commands(plan)[2] = StatusCommand("decision_pending", plan.input.decision,
                                           "human_confirm")
  BY <1>2, CommandsOfDecision
<1>6. /\ Commands(plan)[1].kind = "decision" /\ Commands(plan)[1].input = plan.input
      /\ Commands(plan)[2].kind = "status"
      /\ Commands(plan)[2].to = plan.input.decision
  BY <1>5 DEF DecisionCommand, StatusCommand
<1>7. base \in [Cands -> Row]
  BY DEF TypeOK
<1> HIDE DEF x
<1>8. x.next = 1 => \A c \in Cands :
        /\ Written(plan, x.next)[c].status = base[c].status
        /\ Written(plan, x.next)[c].decision =
             IF c = plan.cand THEN plan.input ELSE base[c].decision
  BY <1>1, <1>6, <1>7, WrittenRow
<1>9. x.next = 2 => \A c \in Cands :
        /\ Written(plan, x.next)[c].decision = base[c].decision
        /\ Written(plan, x.next)[c].status =
             IF c = plan.cand THEN plan.input.decision ELSE base[c].status
  BY <1>1, <1>6, <1>7, WrittenRow
<1> QED  BY <1>3, <1>4, <1>8, <1>9 DEF x

(* An execution ends, before its command or after it, with a report of the  *)
(* commands acknowledged or with none.                                      *)
LEMMA SingleEnds ==
  ASSUME TypeOK, SingleInv, NEW s, Servers = {s}, Busy(s), late' = {},
         base' = base \/ base' = Written(run[s].plan, run[s].next),
         run'[s].next = 0,
         \/ reply'[s].status # "failed"
         \/ reply'[s] = Finished("failed", run[s].plan, run[s].next - 1)
  PROVE  SingleInv'
<1> DEFINE plan == run[s].plan
           row == base'[plan.cand]
<1>1. /\ plan \in DecisionPlans /\ plan.cand \in Cands
      /\ plan.input.decision \in FinalDecision
      /\ base[plan.cand].status = "decision_pending"
      /\ run[s].next = 2 => base[plan.cand].decision = plan.input
  BY DecisionPlanFields DEF SingleInv, Deciding
<1>2. run[s].next \in {1, 2}
  BY CommandRows
<1>3. /\ run[s].next = 1 => row.status = "decision_pending"
      /\ run[s].next = 2 => /\ row.decision = plan.input
                            /\ row.status \in {"decision_pending", plan.input.decision}
  BY <1>1, CommandRows
<1>4. \A c \in Cands \ {plan.cand} : /\ base'[c].status = base[c].status
                                     /\ base'[c].decision = base[c].decision
  BY <1>2, CommandRows
<1>5. ~Busy(s)'
  BY DEF Busy
<1>6. DecisionConsistent'
  <2> SUFFICES ASSUME NEW c \in Cands, base'[c].status \in FinalDecision
               PROVE  base'[c].decision.decision = base'[c].status
    BY DEF DecisionConsistent
  <2>1. CASE c = plan.cand
    BY <1>2, <1>3, <2>1 DEF FinalDecision
  <2>2. CASE c # plan.cand
    BY <1>4, <2>2 DEF SingleInv, DecisionConsistent
  <2> QED  BY <2>1, <2>2
<1>7. reply'[s].status = "failed" =>
        reply'[s].plan = plan /\ reply'[s].successCount = run[s].next - 1
  BY DEF Finished
<1> HIDE DEF plan
<1>8. FailureReportTruthful'
  <2> SUFFICES ASSUME reply'[s].status = "failed"
               PROVE  IF reply'[s].successCount = 0
                        THEN row.status = "decision_pending"
                        ELSE /\ row.decision = plan.input
                             /\ row.status \in {"decision_pending", plan.input.decision}
    BY <1>7 DEF FailureReportTruthful
  <2>1. CASE run[s].next = 1
    BY <1>3, <1>7, <2>1
  <2>2. CASE run[s].next = 2
    BY <1>3, <1>7, <2>2
  <2> QED  BY <1>2, <2>1, <2>2
<1> QED  BY <1>1, <1>5, <1>6, <1>7, <1>8 DEF SingleInv

(* The first command of a decision succeeds.                                *)
LEMMA SingleAdvances ==
  ASSUME TypeOK, SingleInv, NEW s, Servers = {s}, Busy(s), late' = {},
         base' = Written(run[s].plan, run[s].next), run[s].next = 1,
         run'[s].plan = run[s].plan, run'[s].next = 2, reply' = reply
  PROVE  SingleInv'
<1> DEFINE plan == run[s].plan
<1>1. /\ plan \in DecisionPlans /\ plan.cand \in Cands
      /\ base[plan.cand].status = "decision_pending"
  BY DecisionPlanFields DEF SingleInv, Deciding
<1>2. \A c \in Cands :
        /\ base'[c].status = base[c].status
        /\ base'[c].decision = IF c = plan.cand THEN plan.input ELSE base[c].decision
  BY CommandRows
<1>3. Deciding(s)'
  BY <1>1, <1>2 DEF Deciding
<1>4. DecisionConsistent'
  BY <1>1, <1>2 DEF SingleInv, DecisionConsistent, FinalDecision
<1>5. FailureReportTruthful'
  BY DEF FailureReportTruthful, Busy
<1> QED  BY <1>3, <1>4, <1>5 DEF SingleInv

(* One server: the other processes and other people's edits are gone.       *)
LEMMA AloneActs ==
  ASSUME OneWriter, TypeOK, [Next]_vars, NEW s, Servers = {s}
  PROVE  \/ RequestStep(s) \/ CommandStep(s) \/ Crash(s)
         \/ \E x \in late : LateArrives(x)
         \/ \E l \in Links : ExpireLink(l)
         \/ \E c \in Cands, d \in DataVersions : EditData(c, d)
         \/ UNCHANGED vars
<1>1. Scripts = {} /\ HandSet = {} /\ Procs = {s}
  BY DEF OneWriter, Procs
<1> QED  BY <1>1 DEF Next

(* A killed command leaves no request behind: it was served or it was not.  *)
LEMMA NothingLeftBehind ==
  ASSUME OneWriter, late = {}, NEW p, RequestLeftBehind(p)
  PROVE  base' = Written(run[p].plan, run[p].next) /\ late' = {}
<1>1. Cardinality(late) = 0 /\ MaxLate = 0
  BY FS_EmptySet DEF OneWriter
<1> QED  BY <1>1 DEF RequestLeftBehind

LEMMA SingleRequest ==
  ASSUME OneWriter, TypeOK, SingleInv, NEW s, Servers = {s}, RequestStep(s)
  PROVE  SingleInv'
<1>1. Procs = {s} /\ run \in [Procs -> Execution \cup {Idle}] /\ reply \in [Procs -> Reply]
  BY DEF OneWriter, Procs, TypeOK
<1>2. ASSUME UNCHANGED <<base, run, late>>,
             reply' = reply \/ reply'[s].status # "failed"
      PROVE  SingleInv'
  BY <1>2, SingleQuiet
<1>3. ASSUME NEW reason, NEW submitted, NEW plan, Refuse(s, reason, submitted, plan),
             UNCHANGED <<base, late>>
      PROVE  SingleInv'
  BY <1>1, <1>2, <1>3 DEF Refuse, Blocked
<1>4. CASE ListRecords(s)
  BY <1>2, <1>4 DEF ListRecords
<1>5. CASE RefuseRequest(s)
  BY <1>3, <1>5 DEF RefuseRequest
<1>6. ASSUME NEW l \in Links, RefuseUnknownLink(s, l) \/ RefuseNotPending(s, l)
      PROVE  SingleInv'
  BY <1>3, <1>6 DEF RefuseUnknownLink, RefuseNotPending
<1>7. ASSUME NEW l \in Links, NEW input \in Inputs, GenerateDecisionPlan(s, l, input)
      PROVE  SingleInv'
  BY <1>2, <1>7 DEF GenerateDecisionPlan
<1>8. ASSUME NEW l \in Links, NEW input \in Inputs,
             NEW submitted \in plans \cup {NoPlan},
             ExecuteDecision(s, l, input, submitted)
      PROVE  SingleInv'
  <2> DEFINE plan == CurrentDecisionPlan(l, input)
  <2>1. plan \in DecisionPlans
    BY <1>8, PlansTyped DEF ExecuteDecision
  <2>2. plan.cand = registry[l].cand
    BY DEF CurrentDecisionPlan, DecisionPlan
  <2>3. base[plan.cand].status = "decision_pending" /\ UNCHANGED <<base, late>>
    BY <1>8, <2>2 DEF ExecuteDecision, MayDecide
  <2>4. CASE ~NonceAccepted(plan, submitted)
    BY <1>3, <1>8, <2>3, <2>4 DEF ExecuteDecision, RefuseMismatch
  <2>5. CASE NonceAccepted(plan, submitted)
    <3>1. StartRun(s, plan)
      BY <1>8, <2>5 DEF ExecuteDecision
    <3> HIDE DEF plan
    <3>2. run'[s].plan = plan /\ run'[s].next = 1 /\ reply'[s].status = "none"
      BY <1>1, <3>1 DEF StartRun, NoReply
    <3>3. Deciding(s)'
      BY <2>1, <2>3, <3>2 DEF Deciding
    <3>4. DecisionConsistent'
      BY <2>3 DEF SingleInv, DecisionConsistent
    <3>5. FailureReportTruthful'
      BY <3>2 DEF FailureReportTruthful
    <3> QED  BY <2>3, <3>2, <3>3, <3>4, <3>5 DEF SingleInv
  <2> QED  BY <2>4, <2>5
<1> QED  BY <1>4, <1>5, <1>6, <1>7, <1>8 DEF RequestStep, DecisionStep, OneWriter

LEMMA SingleStep ==
  ASSUME OneWriter, TypeOK, SingleInv, [Next]_vars
  PROVE  SingleInv'
<1>1. PICK s \in Servers : Servers = {s}
  BY DEF OneWriter
<1>2. /\ Procs = {s} /\ late = {}
      /\ run \in [Procs -> Execution \cup {Idle}] /\ reply \in [Procs -> Reply]
  BY <1>1 DEF OneWriter, Procs, TypeOK, SingleInv
<1>3. CASE RequestStep(s)
  BY <1>1, <1>3, SingleRequest
<1>4. CASE CommandSucceeds(s)
  <2>1. /\ Busy(s) /\ base' = Written(run[s].plan, run[s].next) /\ late' = {}
    BY <1>2, <1>4 DEF CommandSucceeds
  <2>2. CASE LastCommand(run[s])
    <3>1. run'[s].next = 0 /\ reply'[s].status = "success"
      BY <1>2, <1>4, <2>2 DEF CommandSucceeds, StopRun, Idle, Finished
    <3> QED  BY <1>1, <2>1, <3>1, SingleEnds
  <2>3. CASE ~LastCommand(run[s])
    <3>1. run' = [run EXCEPT ![s].next = @ + 1] /\ reply' = reply
      BY <1>4, <2>3 DEF CommandSucceeds
    <3>2. run[s].next = 1
      BY <2>1, <2>3, CommandRows DEF LastCommand
    <3>3. run[s] \in [plan : Plan, next : Nat]
      BY <1>2, <2>1, BusyRuns DEF Execution
    <3>4. run'[s].plan = run[s].plan /\ run'[s].next = 2
      BY <1>2, <3>1, <3>2, <3>3
    <3> QED  BY <1>1, <2>1, <3>1, <3>2, <3>4, SingleAdvances
  <2> QED  BY <2>2, <2>3
<1>5. CASE CommandFails(s)
  <2>1. Busy(s) /\ base' = base /\ late' = {}
    BY <1>2, <1>5 DEF CommandFails
  <2>2. /\ run'[s].next = 0
        /\ reply'[s] = Finished("failed", run[s].plan, run[s].next - 1)
    BY <1>2, <1>5 DEF CommandFails, StopRun, Idle
  <2> QED  BY <1>1, <2>1, <2>2, SingleEnds
<1>6. CASE CommandTimesOut(s)
  <2>1. /\ Busy(s) /\ base' = Written(run[s].plan, run[s].next) /\ late' = {}
    BY <1>2, <1>6, NothingLeftBehind DEF CommandTimesOut
  <2>2. /\ run'[s].next = 0
        /\ reply'[s] = Finished("failed", run[s].plan, run[s].next - 1)
    BY <1>2, <1>6 DEF CommandTimesOut, StopRun, Idle
  <2> QED  BY <1>1, <2>1, <2>2, SingleEnds
<1>7. CASE Crash(s)
  <2>1. run'[s] = Idle /\ run'[s].next = 0 /\ reply'[s].status = "none"
    BY <1>2, <1>7 DEF Crash, Idle, NoReply
  <2>2. /\ late' = {}
        /\ \/ base' = base
           \/ Busy(s) /\ base' = Written(run[s].plan, run[s].next)
    BY <1>2, <1>7, NothingLeftBehind DEF Crash
  <2>3. CASE Busy(s)
    BY <1>1, <2>1, <2>2, <2>3, SingleEnds
  <2>4. CASE ~Busy(s)
    <3>1. run[s] = Idle
      BY <1>2, <2>4 DEF Busy, Execution
    <3> QED  BY <1>1, <1>2, <2>1, <2>2, <2>4, <3>1, SingleQuiet
  <2> QED  BY <2>3, <2>4
<1>8. ASSUME NEW c \in Cands, NEW d \in DataVersions, EditData(c, d)
      PROVE  SingleInv'
  <2>1. \A b \in Cands : base'[b] = IF b = c THEN [base[b] EXCEPT !.data = d]
                                    ELSE base[b]
    BY <1>8 DEF EditData, TypeOK
  <2>2. \A r \in Row : /\ [r EXCEPT !.data = d].status = r.status
                       /\ [r EXCEPT !.data = d].decision = r.decision
    BY DEF Row
  <2>3. \A b \in Cands : base[b] \in Row
    BY DEF TypeOK
  <2>4. UNCHANGED <<run, reply, late>>
    BY <1>8 DEF EditData
  <2> QED  BY <2>1, <2>2, <2>3, <2>4, SingleQuiet
<1>9. CASE (\E l \in Links : ExpireLink(l)) \/ UNCHANGED vars
  <2>1. UNCHANGED <<base, run, reply, late>>
    BY <1>9 DEF ExpireLink, vars
  <2> QED  BY <2>1, SingleQuiet
<1> QED  BY <1>1, <1>2, <1>3, <1>4, <1>5, <1>6, <1>7, <1>8, <1>9, AloneActs
         DEF CommandStep

LEMMA SingleHolds ==
  ASSUME OneWriter
  PROVE  Spec => [](TypeOK /\ SingleInv)
<1>1. Init => TypeOK /\ SingleInv
  BY TypeInit, SingleInit
<1>2. TypeOK /\ SingleInv /\ [Next]_vars => (TypeOK /\ SingleInv)'
  BY TypeStep, SingleStep
<1> QED  BY <1>1, <1>2, PTL DEF Spec

(* One server deciding alone never leaves a final status next to another    *)
(* decision, whatever fails, times out, crashes or is tried again.          *)
THEOREM DecisionsConsistent ==
  ASSUME OneWriter
  PROVE  Spec => []DecisionConsistent
<1>1. SingleInv => DecisionConsistent
  BY DEF SingleInv
<1> QED  BY <1>1, SingleHolds, PTL

(* Its failure reports say what the Base holds, and go on saying it until   *)
(* the next execution.                                                      *)
THEOREM FailureReportsTruthful ==
  ASSUME OneWriter
  PROVE  Spec => []FailureReportTruthful
<1>1. SingleInv => FailureReportTruthful
  BY DEF SingleInv
<1> QED  BY <1>1, SingleHolds, PTL

-----------------------------------------------------------------------------
(* Success.                                                                 *)

SuccessWritten ==
  \A s \in Servers :
    reply'[s].status = "success" /\ reply[s].status # "success" =>
      LET plan == reply'[s].plan
      IN  /\ base'[plan.cand].decision = plan.input
          /\ base'[plan.cand].status = plan.input.decision

LEMMA SuccessStep ==
  ASSUME OneWriter, TypeOK, SingleInv, [Next]_vars
  PROVE  SuccessWritten
<1>1. PICK s \in Servers : Servers = {s}
  BY DEF OneWriter
<1>2. Procs = {s} /\ reply \in [Procs -> Reply]
  BY <1>1 DEF OneWriter, Procs, TypeOK
<1>3. ASSUME reply' = reply \/ reply'[s].status # "success"
      PROVE  SuccessWritten
  BY <1>1, <1>3 DEF SuccessWritten
<1>4. CASE RequestStep(s)
  <2>1. reply' = reply \/ reply'[s].status # "success"
    BY <1>2, <1>4 DEF RequestStep, ListRecords, RefuseRequest, RefuseUnknownLink,
         DecisionStep, WritesStep, RefuseNotPending, GenerateDecisionPlan,
         GenerateWritePlan, ExecuteDecision, ExecuteWrites, RefuseMismatch, StartRun, Refuse,
         Blocked, NoReply
  <2> QED  BY <1>3, <2>1
<1>5. CASE CommandSucceeds(s)
  <2>1. Busy(s) /\ base' = Written(run[s].plan, run[s].next)
    BY <1>5 DEF CommandSucceeds
  <2>2. CASE ~LastCommand(run[s])
    BY <1>3, <1>5, <2>2 DEF CommandSucceeds
  <2>3. CASE LastCommand(run[s])
    <3>1. run[s].next = 2
      BY <2>1, <2>3, CommandRows DEF LastCommand
    <3>2. Deciding(s)
      BY <2>1 DEF SingleInv
    <3>3. reply'[s].plan = run[s].plan
      BY <1>2, <1>5, <2>3 DEF CommandSucceeds, StopRun, Finished
    <3>4. run[s].plan.cand \in Cands
      BY <3>2, DecisionPlanFields DEF Deciding
    <3>5. /\ base'[run[s].plan.cand].decision = run[s].plan.input
          /\ base'[run[s].plan.cand].status = run[s].plan.input.decision
      BY <2>1, <3>1, <3>2, <3>4, CommandRows DEF Deciding
    <3> QED  BY <1>1, <3>3, <3>5 DEF SuccessWritten
  <2> QED  BY <2>2, <2>3
<1>6. CASE CommandFails(s) \/ CommandTimesOut(s) \/ Crash(s)
  <2>1. reply'[s].status # "success"
    BY <1>2, <1>6 DEF CommandFails, CommandTimesOut, Crash, StopRun, Finished, NoReply
  <2> QED  BY <1>3, <2>1
<1>7. CASE \/ \E l \in Links : ExpireLink(l)
           \/ \E x \in late : LateArrives(x)
           \/ \E c \in Cands, d \in DataVersions : EditData(c, d)
           \/ UNCHANGED vars
  <2>1. reply' = reply
    BY <1>7 DEF ExpireLink, LateArrives, EditData, vars
  <2> QED  BY <1>3, <2>1
<1> QED  BY <1>1, <1>4, <1>5, <1>6, <1>7, AloneActs DEF CommandStep

(* When success is answered, decision and status are both in the Base.      *)
THEOREM SuccessIsWritten ==
  ASSUME OneWriter
  PROVE  Spec => SuccessMeansWritten
<1>1. TypeOK /\ SingleInv /\ [Next]_vars => [SuccessWritten]_vars
  BY SuccessStep
<1>2. Spec => [][SuccessWritten]_vars
  BY <1>1, SingleHolds, PTL DEF Spec
<1>3. SuccessMeansWritten <=> [][SuccessWritten]_vars
  BY DEF SuccessMeansWritten, SuccessWritten
<1> QED  BY <1>2, <1>3

-----------------------------------------------------------------------------
(* The refinement: each candidate lives the life of the state machine.      *)

LEMMA StatusMoves ==
  ASSUME OneWriter, TypeOK, SingleInv, [Next]_vars, NEW c \in Cands
  PROVE  \/ base'[c].status = base[c].status
         \/ base[c].status = "decision_pending" /\ base'[c].status \in FinalDecision
<1>1. TableStep
  BY TableSteps
<1>2. ASSUME NEW x \in Execution, WrittenByPlan(x)
      PROVE  \/ base'[c].status = base[c].status
             \/ /\ base[c].status = "decision_pending"
                /\ base'[c].status \in FinalDecision
  <2>1. PICK s \in Servers : Busy(s) /\ x = run[s]
    BY <1>2 DEF WrittenByPlan, SingleInv, OneWriter, Procs
  <2>2. Deciding(s)
    BY <2>1 DEF SingleInv
  <2>3. base' = Written(run[s].plan, run[s].next)
    BY <1>2, <2>1 DEF WrittenByPlan
  <2>4. run[s].plan.input.decision \in FinalDecision
    BY <2>2, DecisionPlanFields DEF Deciding
  <2> QED  BY <2>1, <2>2, <2>3, <2>4, CommandRows DEF Deciding
<1>3. ASSUME NEW b \in Cands, NEW d \in DataVersions, EditData(b, d)
      PROVE  base'[c].status = base[c].status
  <2>1. base'[c] = IF c = b THEN [base[c] EXCEPT !.data = d] ELSE base[c]
    BY <1>3 DEF EditData, TypeOK
  <2>2. \A r \in Row : [r EXCEPT !.data = d].status = r.status
    BY DEF Row
  <2>3. base[c] \in Row
    BY DEF TypeOK
  <2> QED  BY <2>1, <2>2, <2>3
<1> QED  BY <1>1, <1>2, <1>3 DEF TableStep, OneWriter

(* One server deciding alone moves every candidate as the state machine     *)
(* lets a human move it, and never out of a final status: a check made two  *)
(* commands before the write is enough.                                     *)
THEOREM DecisionsFollowLifecycle ==
  ASSUME OneWriter
  PROVE  Spec => ImplementsLifecycle
<1>1. Init => \A c \in Cands : Lifecycle(c)!Init
  BY DEF Init, Lifecycle!Init
<1>2. TypeOK /\ SingleInv /\ [Next]_vars
        => [\A c \in Cands : [Lifecycle(c)!Move]_(base[c].status)]_vars
  <2> SUFFICES ASSUME TypeOK, SingleInv, [Next]_vars, NEW c \in Cands,
                      base'[c].status # base[c].status
               PROVE  Lifecycle(c)!Move
    OBVIOUS
  <2>1. base[c].status = "decision_pending" /\ base'[c].status \in FinalDecision
    BY StatusMoves
  <2> DEFINE to == base'[c].status
             rule == [from |-> "decision_pending", to |-> to, actors |-> {"human_confirm"}]
  <2>2. rule \in Lifecycle(c)!Transitions
    BY <2>1 DEF Lifecycle!Transitions, FinalDecision
  <2>3. /\ Lifecycle(c)!CanTransition(base[c].status, to, "human_confirm")
        /\ to \in Lifecycle(c)!NextStates(base[c].status)
    BY <2>1, <2>2 DEF Lifecycle!CanTransition, Lifecycle!NextStates
  <2> QED  BY <2>3 DEF Lifecycle!Move
<1>3. Spec => [][\A c \in Cands : [Lifecycle(c)!Move]_(base[c].status)]_vars
  BY <1>2, SingleHolds, PTL DEF Spec
<1>4. Spec => \A c \in Cands : Lifecycle(c)!Init
  BY <1>1 DEF Spec
<1> QED  BY <1>3, <1>4 DEF ImplementsLifecycle
=============================================================================
