---------------------- MODULE CandidatePipeline_proofs ----------------------
(***************************************************************************)
(* Proofs about CandidatePipeline, for any number of facts.                *)
(***************************************************************************)
EXTENDS CandidatePipeline, SequenceTheorems, TLAPS

-----------------------------------------------------------------------------
(* The six agents and what each writes.                                     *)

LEMMA SixAgents ==
  /\ Agent = {"resume_intake", "resume_extraction", "graph_builder",
              "interview_kit", "screening_reviewer", "hr_coordinator"}
  /\ Len(AgentOrder) = 6
  /\ AgentOrder[1] = "resume_intake" /\ AgentOrder[2] = "resume_extraction"
  /\ AgentOrder[3] = "graph_builder" /\ AgentOrder[4] = "interview_kit"
  /\ AgentOrder[5] = "screening_reviewer" /\ AgentOrder[6] = "hr_coordinator"
BY DEF Agent, AgentOrder

LEMMA StatusTables ==
  /\ FromStatus["resume_intake"] = "new"
  /\ FromStatus["resume_extraction"] = "parsed"
  /\ FromStatus["graph_builder"] = "none"
  /\ FromStatus["interview_kit"] = "screened"
  /\ FromStatus["screening_reviewer"] = "interview_kit_ready"
  /\ FromStatus["hr_coordinator"] = "decision_pending"
  /\ ToStatus["resume_intake"] = "parsed"
  /\ ToStatus["resume_extraction"] = "screened"
  /\ ToStatus["graph_builder"] = "none"
  /\ ToStatus["interview_kit"] = "interview_kit_ready"
  /\ ToStatus["screening_reviewer"] = "decision_pending"
  /\ ToStatus["hr_coordinator"] = "decision_pending"
BY SixAgents DEF FromStatus, ToStatus

(* The agents whose run ends with a move, and the moves.                    *)
Moving == Agent \ {"graph_builder", "hr_coordinator"}

(* An agent's business writes are rows, and a move at their end.            *)
Business(writes, a) ==
  /\ writes \in Seq(Command)
  /\ \A i \in 1..Len(writes) :
       /\ writes[i].kind # "audit"
       /\ writes[i].kind = "status" => i = Len(writes)
  /\ IF a \in Moving
       THEN Len(writes) > 0 /\ writes[Len(writes)] = AgentMove(a)
       ELSE writes = <<>>

LEMMA MoveType ==
  ASSUME NEW a \in Moving
  PROVE  /\ AgentMove(a) \in Command
         /\ AgentMove(a).kind = "status"
         /\ AgentMove(a).from = FromStatus[a] /\ AgentMove(a).to = ToStatus[a]
         /\ AgentMove(a).actor = "agent"
BY SixAgents, StatusTables DEF Moving, AgentMove, StatusCommand, Command, Status, Actor

LEMMA RowTypes ==
  /\ \A table \in {"resume_facts", "interview_kits", "evaluations"} :
       InsertCommand(table) \in Command /\ InsertCommand(table).kind = "insert"
  /\ RecommendCommand \in Command /\ RecommendCommand.kind = "recommend"
BY DEF InsertCommand, RecommendCommand, Command

LEMMA BusinessShape ==
  ASSUME NEW a \in Agent, NEW facts \in Nat
  PROVE  Business(BusinessWrites(a, facts), a)
<1> USE DEF Business
<1>1. CASE a = "resume_intake"
  <2>1. BusinessWrites(a, facts) = <<AgentMove(a)>> /\ a \in Moving
    BY <1>1, SixAgents DEF BusinessWrites, IntakeWrites, Moving
  <2>. QED
    BY <2>1, MoveType
<1>2. CASE a = "resume_extraction"
  <2> DEFINE rows == [i \in 1..facts |-> InsertCommand("resume_facts")]
  <2>1. BusinessWrites(a, facts) = Append(rows, AgentMove(a)) /\ a \in Moving
    BY <1>2, SixAgents DEF BusinessWrites, ExtractionWrites, Moving
  <2>2. rows \in Seq(Command) /\ Len(rows) = facts
    BY RowTypes
  <2>3. \A i \in 1..facts : rows[i].kind = "insert"
    BY RowTypes
  <2> HIDE DEF rows
  <2>. QED
    BY <2>1, <2>2, <2>3, MoveType
<1>3. CASE a = "graph_builder"
  BY <1>3, SixAgents DEF BusinessWrites, GraphBuilderWrites, Moving
<1>4. CASE a = "interview_kit"
  <2>1. BusinessWrites(a, facts) = <<InsertCommand("interview_kits"), AgentMove(a)>>
        /\ a \in Moving
    BY <1>4, SixAgents DEF BusinessWrites, InterviewKitWrites, Moving
  <2>. QED
    BY <2>1, MoveType, RowTypes
<1>5. CASE a = "screening_reviewer"
  <2>1. BusinessWrites(a, facts)
          = <<InsertCommand("evaluations"), RecommendCommand, AgentMove(a)>>
        /\ a \in Moving
    BY <1>5, SixAgents DEF BusinessWrites, ReviewerWrites, Moving
  <2>. QED
    BY <2>1, MoveType, RowTypes
<1>6. CASE a = "hr_coordinator"
  BY <1>6, SixAgents, StatusTables DEF BusinessWrites, HrCoordinatorWrites, Moving
<1>. QED
  BY <1>1, <1>2, <1>3, <1>4, <1>5, <1>6, SixAgents

-----------------------------------------------------------------------------
(* The status that the first n commands of a plan leave the candidate in.   *)

Moves(plan, n) == {i \in 1..n : plan[i].kind = "status"}

StatusOf(plan, n) ==
  LET writes == {i \in 1..n : IsStatusCommand(plan[i])}
  IN  IF writes = {} THEN "new"
      ELSE plan[CHOOSE i \in writes : \A j \in writes : j <= i].to

(* Of the moves among the first n commands one is the last.                 *)
HasLast(plan, n) ==
  Moves(plan, n) = {} \/ \E i \in Moves(plan, n) : \A j \in Moves(plan, n) : j <= i

LEMMA StatusOfDef ==
  ASSUME NEW plan, NEW n
  PROVE  StatusOf(plan, n) =
           IF Moves(plan, n) = {} THEN "new"
           ELSE plan[CHOOSE i \in Moves(plan, n) : \A j \in Moves(plan, n) : j <= i].to
BY DEF StatusOf, Moves, IsStatusCommand

LEMMA StatusOfPrefix ==
  ASSUME NEW plan1, NEW plan2, NEW n \in Nat, HasLast(plan1, n),
         \A i \in 1..n : plan1[i] = plan2[i]
  PROVE  StatusOf(plan1, n) = StatusOf(plan2, n) /\ HasLast(plan2, n)
<1>1. Moves(plan1, n) = Moves(plan2, n) /\ Moves(plan1, n) \subseteq 1..n
  BY DEF Moves
<1>2. CASE Moves(plan1, n) = {}
  BY <1>1, <1>2, StatusOfDef DEF HasLast
<1>3. CASE Moves(plan1, n) # {}
  <2> DEFINE last == CHOOSE i \in Moves(plan1, n) : \A j \in Moves(plan1, n) : j <= i
  <2>1. last \in Moves(plan1, n)
    BY <1>3 DEF HasLast
  <2>2. plan1[last] = plan2[last]
    BY <1>1, <2>1
  <2>. QED
    BY <1>1, <1>3, <2>2, StatusOfDef DEF HasLast
<1>. QED
  BY <1>2, <1>3

LEMMA StatusOfRows ==
  ASSUME NEW plan, NEW n \in Nat, NEW m \in Nat, n <= m, HasLast(plan, n),
         \A i \in (n + 1)..m : plan[i].kind # "status"
  PROVE  StatusOf(plan, m) = StatusOf(plan, n) /\ HasLast(plan, m)
<1>1. Moves(plan, m) = Moves(plan, n)
  BY DEF Moves
<1>. QED
  BY <1>1, StatusOfDef DEF HasLast

LEMMA StatusOfMove ==
  ASSUME NEW plan, NEW n \in Nat, n > 0, plan[n].kind = "status"
  PROVE  StatusOf(plan, n) = plan[n].to /\ HasLast(plan, n)
<1>1. n \in Moves(plan, n) /\ \A j \in Moves(plan, n) : j <= n /\ j \in Nat
  BY DEF Moves
<1>2. (CHOOSE i \in Moves(plan, n) : \A j \in Moves(plan, n) : j <= i) = n
  BY <1>1
<1>. QED
  BY <1>1, <1>2, StatusOfDef DEF HasLast

-----------------------------------------------------------------------------
(* What a plan keeps when the result of one agent joins it.                 *)

(* AuditPrecedesStatus and FailureLeavesNoWrites of any plan.               *)
Led(plan, i) ==
  /\ plan[i].from = StatusOf(plan, i - 1)
  /\ \E j \in 1..(i - 1) :
       /\ plan[j].kind = "audit"
       /\ plan[j].run.before = plan[i].from
       /\ plan[j].run.after = plan[i].to
       /\ \A k \in (j + 1)..(i - 1) :
            plan[k].kind # "audit" /\ plan[k].kind # "status"

AuditLeads(plan) ==
  \A i \in 1..Len(plan) : plan[i].kind = "status" => Led(plan, i)

FailureIsLast(plan) ==
  \A i \in 1..Len(plan) :
    plan[i].kind = "audit" /\ plan[i].run.runStatus = "failed" => i = Len(plan)

NoFailure(plan) ==
  \A i \in 1..Len(plan) : plan[i].kind = "audit" => plan[i].run.runStatus # "failed"

LastKnown(plan) == \A n \in 0..Len(plan) : HasLast(plan, n)

(* A plan of n commands with an audit row and m writes behind it: what the  *)
(* three parts of the longer plan are.                                      *)
Extends(plan, run, writes, grown, n, m) ==
  /\ \A i \in 1..n : grown[i] = plan[i]
  /\ grown[n + 1].kind = "audit" /\ grown[n + 1].run = run
  /\ \A i \in 1..m : grown[n + 1 + i] = writes[i]

LEMMA Joined ==
  ASSUME NEW plan \in Seq(Command), NEW run \in AgentRun, NEW writes \in Seq(Command),
         NEW grown, grown = Append(plan, AuditCommand(run)) \o writes
  PROVE  /\ grown \in Seq(Command)
         /\ Len(grown) = Len(plan) + 1 + Len(writes)
         /\ Extends(plan, run, writes, grown, Len(plan), Len(writes))
<1>1. /\ AuditCommand(run) \in Command
      /\ AuditCommand(run).kind = "audit" /\ AuditCommand(run).run = run
  BY DEF AuditCommand, Command
<1> DEFINE audited == Append(plan, AuditCommand(run))
<1>2. /\ audited \in Seq(Command) /\ Len(audited) = Len(plan) + 1
      /\ \A i \in 1..Len(plan) : audited[i] = plan[i]
      /\ audited[Len(plan) + 1] = AuditCommand(run)
  BY <1>1
<1> HIDE DEF audited
<1>3. /\ grown \in Seq(Command) /\ Len(grown) = Len(audited) + Len(writes)
      /\ \A i \in 1..Len(audited) : grown[i] = audited[i]
      /\ \A i \in 1..Len(writes) : grown[Len(audited) + i] = writes[i]
  <2>1. grown = audited \o writes
    BY DEF audited
  <2>2. /\ grown \in Seq(Command) /\ Len(grown) = Len(audited) + Len(writes)
        /\ \A i \in 1..(Len(audited) + Len(writes)) :
             grown[i] = IF i <= Len(audited) THEN audited[i] ELSE writes[i - Len(audited)]
    <3>1. audited \in Seq(Command) /\ writes \in Seq(Command)
      BY <1>2
    <3>. QED
      BY ONLY <2>1, <3>1, ConcatProperties, Zenon
  <2>3. /\ \A i \in 1..Len(audited) :
             i \in 1..(Len(audited) + Len(writes)) /\ i <= Len(audited)
        /\ \A i \in 1..Len(writes) :
             /\ Len(audited) + i \in 1..(Len(audited) + Len(writes))
             /\ ~(Len(audited) + i <= Len(audited))
             /\ Len(audited) + i - Len(audited) = i
    BY <1>2
  <2>. QED
    BY <2>2, <2>3
<1>4. /\ \A i \in 1..Len(plan) : grown[i] = plan[i]
      /\ grown[Len(plan) + 1].kind = "audit" /\ grown[Len(plan) + 1].run = run
      /\ \A i \in 1..Len(writes) : grown[Len(plan) + 1 + i] = writes[i]
  BY <1>1, <1>2, <1>3
<1>. QED
  BY <1>2, <1>3, <1>4 DEF Extends

RowsThenMove(writes, m) ==
  \A i \in 1..m : writes[i].kind # "audit" /\ (writes[i].kind = "status" => i = m)

LEMMA RowsBetween ==
  ASSUME NEW a \in Agent, NEW plan, NEW run, NEW writes, NEW grown,
         NEW n \in Nat, NEW m \in Nat, Extends(plan, run, writes, grown, n, m),
         RowsThenMove(writes, m)
  PROVE  /\ \A i \in (n + 1)..(n + m) : grown[i].kind # "status"
         /\ \A i \in (n + 2)..(n + 1 + m) : grown[i].kind # "audit"
<1>1. ASSUME NEW i \in (n + 2)..(n + 1 + m)
      PROVE  /\ grown[i].kind # "audit"
             /\ grown[i].kind = "status" => i = n + 1 + m
  <2> DEFINE d == i - n - 1
  <2>1. d \in 1..m /\ n + 1 + d = i
    OBVIOUS
  <2> HIDE DEF d
  <2>2. grown[i] = writes[d]
    BY <2>1 DEF Extends
  <2>3. d = m => i = n + 1 + m
    BY <2>1
  <2>. QED
    BY <2>1, <2>2, <2>3 DEF RowsThenMove
<1>2. grown[n + 1].kind # "status"
  BY DEF Extends
<1>3. ASSUME NEW i \in (n + 1)..(n + m)
      PROVE  i = n + 1 \/ (i \in (n + 2)..(n + 1 + m) /\ i # n + 1 + m)
  OBVIOUS
<1>. QED
  BY <1>1, <1>2, <1>3

(* Up to the audit row, and up to the last write, the status is the one the *)
(* plan had reached.                                                        *)
SamePrefix(plan, grown, n) == \A i \in 1..n : grown[i] = plan[i]

NoMove(plan, from, to) == \A i \in from..to : plan[i].kind # "status"

StatusKept(plan, grown, n, m) ==
  /\ \A k \in 0..n : StatusOf(grown, k) = StatusOf(plan, k) /\ HasLast(grown, k)
  /\ \A k \in n..(n + m) : StatusOf(grown, k) = StatusOf(plan, n) /\ HasLast(grown, k)

LEMMA StatusBefore ==
  ASSUME NEW plan, NEW grown, NEW n \in Nat, NEW m \in Nat,
         SamePrefix(plan, grown, n), n = Len(plan), LastKnown(plan),
         NoMove(grown, n + 1, n + m)
  PROVE  StatusKept(plan, grown, n, m)
<1>1. ASSUME NEW k \in 0..n
      PROVE  StatusOf(grown, k) = StatusOf(plan, k) /\ HasLast(grown, k)
  <2>1. k \in Nat /\ \A i \in 1..k : plan[i] = grown[i]
    BY DEF SamePrefix
  <2>2. HasLast(plan, k)
    BY DEF LastKnown
  <2>. QED
    BY <2>1, <2>2, StatusOfPrefix
<1>2. ASSUME NEW k \in n..(n + m)
      PROVE  StatusOf(grown, k) = StatusOf(plan, n) /\ HasLast(grown, k)
  <2>1. k \in Nat /\ n <= k /\ \A i \in (n + 1)..k : grown[i].kind # "status"
    BY DEF NoMove
  <2>2. n \in 0..n
    OBVIOUS
  <2>3. StatusOf(grown, n) = StatusOf(plan, n) /\ HasLast(grown, n)
    BY <1>1, <2>2
  <2>. QED
    BY <2>1, <2>3, StatusOfRows
<1>. QED
  BY <1>1, <1>2 DEF StatusKept

(* A move of the plan keeps its audit row in the longer plan.               *)
LEMMA LeadKept ==
  ASSUME NEW plan, NEW grown, NEW n \in Nat, n = Len(plan), AuditLeads(plan),
         SamePrefix(plan, grown, n),
         \A k \in 0..n : StatusOf(grown, k) = StatusOf(plan, k),
         NEW i \in 1..n, grown[i].kind = "status"
  PROVE  Led(grown, i)
<1>1. plan[i].kind = "status" /\ grown[i] = plan[i]
  BY DEF SamePrefix
<1>2. Led(plan, i)
  BY <1>1 DEF AuditLeads
<1>3. StatusOf(grown, i - 1) = StatusOf(plan, i - 1)
  <2>1. i - 1 \in 0..n
    OBVIOUS
  <2>. QED
    BY <2>1
<1>4. PICK j \in 1..(i - 1) :
        /\ plan[j].kind = "audit"
        /\ plan[j].run.before = plan[i].from
        /\ plan[j].run.after = plan[i].to
        /\ \A k \in (j + 1)..(i - 1) : plan[k].kind # "audit" /\ plan[k].kind # "status"
  BY <1>2 DEF Led
<1>5. \A k \in j..(i - 1) : grown[k] = plan[k]
  <2>1. \A k \in j..(i - 1) : k \in 1..n
    OBVIOUS
  <2>. QED
    BY <2>1 DEF SamePrefix
<1>6. grown[j] = plan[j] /\ \A k \in (j + 1)..(i - 1) : grown[k] = plan[k]
  <2>1. j \in j..(i - 1) /\ \A k \in (j + 1)..(i - 1) : k \in j..(i - 1)
    OBVIOUS
  <2>. QED
    BY <1>5, <2>1
<1>. QED
  BY <1>1, <1>2, <1>3, <1>4, <1>6 DEF Led

(* An agent that fails, or that has nothing to write, adds its audit row.   *)
LEMMA PlanAudited ==
  ASSUME NEW plan, NEW run, NEW grown, NEW n \in Nat, n = Len(plan), n + 1 = Len(grown),
         Extends(plan, run, <<>>, grown, n, 0),
         LastKnown(plan), AuditLeads(plan), NoFailure(plan)
  PROVE  /\ LastKnown(grown) /\ AuditLeads(grown) /\ FailureIsLast(grown)
         /\ run.runStatus # "failed" => NoFailure(grown)
         /\ StatusOf(grown, Len(grown)) = StatusOf(plan, n)
<1>1. SamePrefix(plan, grown, n) /\ NoMove(grown, n + 1, n + 1)
  BY DEF Extends, SamePrefix, NoMove
<1>2. /\ \A k \in 0..n : StatusOf(grown, k) = StatusOf(plan, k) /\ HasLast(grown, k)
      /\ \A k \in n..(n + 1) : StatusOf(grown, k) = StatusOf(plan, n) /\ HasLast(grown, k)
  <2>1. StatusKept(plan, grown, n, 1)
    BY <1>1, StatusBefore
  <2>. QED
    BY <2>1 DEF StatusKept
<1>3. \A k \in 0..(n + 1) : HasLast(grown, k)
  <2>1. \A k \in 0..(n + 1) : k \in 0..n \/ k \in n..(n + 1)
    OBVIOUS
  <2>. QED
    BY <1>2, <2>1
<1>4. \A i \in 1..Len(grown) : i \in 1..n \/ i = n + 1
  OBVIOUS
<1>5. AuditLeads(grown)
  <2>1. ASSUME NEW i \in 1..Len(grown), grown[i].kind = "status"
        PROVE  Led(grown, i)
    <3>1. i \in 1..n
      BY <1>4, <2>1 DEF Extends
    <3>. QED
      BY <1>1, <1>2, <2>1, <3>1, LeadKept
  <2>. QED
    BY <2>1 DEF AuditLeads
<1>6. FailureIsLast(grown)
  BY <1>1, <1>4 DEF FailureIsLast, NoFailure, SamePrefix
<1>7. run.runStatus # "failed" => NoFailure(grown)
  BY <1>1, <1>4 DEF NoFailure, Extends, SamePrefix
<1>8. n + 1 \in n..(n + 1)
  OBVIOUS
<1>. QED
  BY <1>2, <1>3, <1>5, <1>6, <1>7, <1>8 DEF LastKnown

(* An agent that succeeds and moves the candidate adds its audit row, rows  *)
(* and the move the audit row names.                                        *)
MovesOn(plan, run, writes, grown, n, m, a) ==
  /\ n \in Nat /\ m \in Nat /\ m > 0
  /\ n = Len(plan) /\ n + 1 + m = Len(grown) /\ Extends(plan, run, writes, grown, n, m)
  /\ a \in Moving /\ writes[m] = AgentMove(a) /\ RowsThenMove(writes, m)
  /\ run.before = FromStatus[a] /\ run.after = ToStatus[a] /\ run.runStatus # "failed"
  /\ LastKnown(plan) /\ AuditLeads(plan) /\ NoFailure(plan)
  /\ StatusOf(plan, n) = FromStatus[a]

LEMMA PlanMoves ==
  ASSUME NEW plan, NEW run, NEW writes, NEW grown, NEW n, NEW m, NEW a,
         MovesOn(plan, run, writes, grown, n, m, a)
  PROVE  /\ LastKnown(grown) /\ AuditLeads(grown) /\ NoFailure(grown)
         /\ StatusOf(grown, Len(grown)) = ToStatus[a]
<1>h. /\ n \in Nat /\ m \in Nat /\ m > 0
      /\ n = Len(plan) /\ n + 1 + m = Len(grown) /\ Extends(plan, run, writes, grown, n, m)
      /\ a \in Moving /\ writes[m] = AgentMove(a) /\ RowsThenMove(writes, m)
      /\ run.before = FromStatus[a] /\ run.after = ToStatus[a] /\ run.runStatus # "failed"
      /\ LastKnown(plan) /\ AuditLeads(plan) /\ NoFailure(plan)
      /\ StatusOf(plan, n) = FromStatus[a]
  BY DEF MovesOn
<1> USE <1>h
<1> DEFINE end == n + 1 + m
<1>0. end \in Nat /\ end > 0
  OBVIOUS
<1>1. /\ SamePrefix(plan, grown, n)
      /\ grown[n + 1].kind = "audit" /\ grown[n + 1].run = run
  BY DEF Extends, SamePrefix
<1>2. /\ NoMove(grown, n + 1, n + m)
      /\ \A i \in (n + 2)..(n + 1 + m) : grown[i].kind # "audit"
  <2>1. a \in Agent
    BY DEF Moving
  <2>. QED
    BY <2>1, RowsBetween DEF NoMove
<1>3. /\ \A k \in 0..n : StatusOf(grown, k) = StatusOf(plan, k) /\ HasLast(grown, k)
      /\ \A k \in n..(n + m) : StatusOf(grown, k) = StatusOf(plan, n) /\ HasLast(grown, k)
  <2>1. SamePrefix(plan, grown, n) /\ NoMove(grown, n + 1, n + m)
    BY <1>1, <1>2
  <2>2. n \in Nat /\ m \in Nat /\ n = Len(plan) /\ LastKnown(plan)
    OBVIOUS
  <2>3. StatusKept(plan, grown, n, m)
    BY ONLY <2>1, <2>2, StatusBefore
  <2>. QED
    BY <2>3 DEF StatusKept
<1>4. /\ grown[end].kind = "status"
      /\ grown[end].from = FromStatus[a] /\ grown[end].to = ToStatus[a]
  <2>1. m \in 1..m
    OBVIOUS
  <2>2. grown[end] = AgentMove(a)
    BY <2>1 DEF Extends
  <2>. QED
    BY <2>2, MoveType
<1>5. StatusOf(grown, end) = ToStatus[a] /\ HasLast(grown, end)
  BY <1>0, <1>4, StatusOfMove
<1>6. \A i \in 1..Len(grown) : i \in 1..n \/ i \in (n + 1)..(n + m) \/ i = end
  OBVIOUS
<1>7. LastKnown(grown)
  <2>1. \A k \in 0..Len(grown) : k \in 0..n \/ k \in n..(n + m) \/ k = end
    OBVIOUS
  <2>. QED
    BY <1>3, <1>5, <2>1 DEF LastKnown
<1>8. Led(grown, end)
  <2>1. end - 1 \in n..(n + m) /\ n + 1 \in 1..(end - 1)
    OBVIOUS
  <2>2. grown[end].from = StatusOf(grown, end - 1)
    BY <1>3, <1>4, <2>1
  <2>3. \A k \in (n + 1 + 1)..(end - 1) : k \in (n + 1)..(n + m) /\ k \in (n + 2)..(n + 1 + m)
    OBVIOUS
  <2>4. \A k \in (n + 1 + 1)..(end - 1) : grown[k].kind # "audit" /\ grown[k].kind # "status"
    BY <1>2, <2>3 DEF NoMove
  <2> HIDE DEF end
  <2>. QED
    BY <1>1, <1>4, <2>1, <2>2, <2>4 DEF Led
<1>9. AuditLeads(grown)
  <2>1. ASSUME NEW i \in 1..Len(grown), grown[i].kind = "status"
        PROVE  Led(grown, i)
    <3>1. i \in 1..n \/ i = end
      BY <1>2, <1>6, <2>1 DEF NoMove
    <3>2. CASE i \in 1..n
      BY <1>1, <1>3, <2>1, <3>2, LeadKept
    <3> HIDE DEF end
    <3>. QED
      BY <1>8, <3>1, <3>2
  <2>. QED
    BY <2>1 DEF AuditLeads
<1>10. NoFailure(grown)
  <2>1. ASSUME NEW i \in 1..Len(grown), grown[i].kind = "audit"
        PROVE  i \in 1..n \/ i = n + 1
    <3>1. i \in 1..n \/ i = n + 1 \/ i \in (n + 2)..(n + 1 + m)
      OBVIOUS
    <3>. QED
      BY <1>2, <2>1, <3>1
  <2>. QED
    BY <1>1, <2>1 DEF NoFailure, SamePrefix
<1>. QED
  BY <1>5, <1>7, <1>9, <1>10

-----------------------------------------------------------------------------
(* The invariant of the pipeline: the plan so far is sound and has reached  *)
(* the status at which the running agent starts, or the pipeline has        *)
(* returned and says so.                                                    *)

Succeeded(list, n) == \A i \in 1..n : list[i].runStatus # "failed"

InOrder(list) == \A i \in 1..Len(list) : list[i].agent = AgentOrder[i]

Underway ==
  /\ agent \in Agent /\ result = NoResult
  /\ Len(runs) \in 0..5 /\ agent = AgentOrder[Len(runs) + 1]
  /\ Succeeded(runs, Len(runs))
  /\ NoFailure(commands)
  /\ StatusOf(commands, Len(commands)) = StoppedAt(agent)

Returned ==
  /\ agent = "returned" /\ result \in Result
  /\ result.finalStatus = StatusOf(commands, Len(commands))
  /\ Succeeded(runs, Len(runs) - 1)
  /\ IF result.completed
       THEN Len(runs) = Len(AgentOrder) /\ runs[Len(runs)].runStatus # "failed"
       ELSE runs[Len(runs)].runStatus = "failed"
            /\ runs[Len(runs)].agent = result.failedAgent

PlanSound(plan) == LastKnown(plan) /\ AuditLeads(plan) /\ FailureIsLast(plan)

PipelineInv ==
  /\ TypeOK
  /\ InOrder(runs)
  /\ PlanSound(commands)
  /\ Underway \/ Returned

-----------------------------------------------------------------------------
(* The agents in a row, and the status each starts from.                    *)
LEMMA NextInOrder ==
  ASSUME NEW n \in 0..5, NEW a, a = AgentOrder[n + 1]
  PROVE  /\ a \in Agent
         /\ a = "hr_coordinator" <=> n = 5
         /\ n = 5 => NextAgent(a) = "returned"
         /\ n < 5 => NextAgent(a) \in Agent /\ NextAgent(a) = AgentOrder[n + 2]
<1>1. n = 0 \/ n = 1 \/ n = 2 \/ n = 3 \/ n = 4 \/ n = 5
  OBVIOUS
<1>. QED
  BY <1>1, SixAgents DEF NextAgent

LEMMA StartStatuses ==
  /\ \A a \in Agent : StoppedAt(a) \in Status
  /\ StoppedAt("resume_intake") = "new" /\ StoppedAt("hr_coordinator") = "decision_pending"
  /\ \A a \in Moving : /\ FromStatus[a] = StoppedAt(a)
                       /\ ToStatus[a] = StoppedAt(NextAgent(a))
  /\ StoppedAt(NextAgent("graph_builder")) = StoppedAt("graph_builder")
BY SixAgents, StatusTables DEF StoppedAt, Status, Moving, NextAgent

LEMMA RunType ==
  ASSUME NEW a \in Agent, NEW outcome \in RunStatus, NEW retries \in 0..1
  PROVE  /\ RunOf(a, outcome, retries) \in AgentRun
         /\ RunOf(a, outcome, retries).agent = a
         /\ RunOf(a, outcome, retries).runStatus = outcome
         /\ RunOf(a, outcome, retries).before = FromStatus[a]
         /\ outcome # "failed" => RunOf(a, outcome, retries).after = ToStatus[a]
<1>1. FromStatus[a] \in Status \cup {"none"} /\ ToStatus[a] \in Status \cup {"none"}
  BY SixAgents, StatusTables DEF Status
<1>. QED
  BY <1>1 DEF RunOf, AgentRun

LEMMA RunsGrow ==
  ASSUME NEW list \in Seq(AgentRun), NEW run \in AgentRun, NEW longer,
         longer = Append(list, run), InOrder(list), Succeeded(list, Len(list)),
         run.agent = AgentOrder[Len(list) + 1]
  PROVE  /\ longer \in Seq(AgentRun) /\ Len(longer) = Len(list) + 1
         /\ longer[Len(longer)] = run
         /\ InOrder(longer)
         /\ Succeeded(longer, Len(longer) - 1)
         /\ run.runStatus # "failed" => Succeeded(longer, Len(longer))
<1>1. /\ longer \in Seq(AgentRun) /\ Len(longer) = Len(list) + 1
      /\ longer[Len(list) + 1] = run
      /\ \A i \in 1..Len(list) : longer[i] = list[i]
      /\ Len(list) \in Nat
  OBVIOUS
<1>2. InOrder(longer)
  BY <1>1 DEF InOrder
<1>3. Succeeded(longer, Len(list))
  BY <1>1 DEF Succeeded
<1>4. run.runStatus # "failed" => Succeeded(longer, Len(list) + 1)
  BY <1>1 DEF Succeeded
<1>. QED
  BY <1>1, <1>2, <1>3, <1>4

-----------------------------------------------------------------------------
(* The state machine refuses none of the six moves.                         *)
LEMMA MovesInTable ==
  ASSUME NEW a \in Moving
  PROVE  /\ CanTransition(FromStatus[a], ToStatus[a], "agent")
         /\ ToStatus[a] \in NextStates(FromStatus[a])
<1>1. PICK rule \in Transitions :
        rule.from = FromStatus[a] /\ rule.to = ToStatus[a] /\ "agent" \in rule.actors
  <2>1. CASE a = "resume_intake"
    BY <2>1, StatusTables DEF Transitions, Actor
  <2>2. CASE a = "resume_extraction"
    BY <2>2, StatusTables DEF Transitions, Actor
  <2>3. CASE a = "interview_kit"
    BY <2>3, StatusTables DEF Transitions, Actor
  <2>4. CASE a = "screening_reviewer"
    BY <2>4, StatusTables DEF Transitions, Actor
  <2>. QED
    BY <2>1, <2>2, <2>3, <2>4, SixAgents DEF Moving
<1>. QED
  BY <1>1 DEF CanTransition, NextStates

-----------------------------------------------------------------------------
(* One agent's result keeps the invariant.                                  *)

LEMMA FailureKeepsInv ==
  ASSUME PipelineInv, Underway, AgentFails(agent)
  PROVE  PipelineInv'
<1> DEFINE run == RunOf(agent, "failed", 0)
<1>1. /\ commands' = Append(commands, AuditCommand(run)) \o <<>>
      /\ runs' = Append(runs, run)
      /\ result' = [finalStatus |-> StoppedAt(agent), completed |-> FALSE,
                    failedAgent |-> agent]
      /\ agent' = "returned" /\ calls' = 0
  BY DEF AgentFails, AgentResult
<1>2. /\ agent \in Agent /\ commands \in Seq(Command) /\ runs \in Seq(AgentRun)
      /\ Len(runs) \in 0..5 /\ agent = AgentOrder[Len(runs) + 1]
      /\ StoppedAt(agent) \in Status
      /\ LastKnown(commands) /\ AuditLeads(commands) /\ NoFailure(commands)
      /\ StatusOf(commands, Len(commands)) = StoppedAt(agent)
      /\ InOrder(runs) /\ Succeeded(runs, Len(runs))
  BY StartStatuses DEF PipelineInv, PlanSound, Underway, TypeOK
<1>3. run \in AgentRun /\ run.agent = agent /\ run.runStatus = "failed"
  BY <1>2, RunType DEF RunStatus
<1> HIDE DEF run
<1>4. /\ commands' \in Seq(Command) /\ Len(commands') = Len(commands) + 1 + 0
      /\ Extends(commands, run, <<>>, commands', Len(commands), 0)
  <2> DEFINE none == <<>>
  <2>1. none \in Seq(Command) /\ Len(none) = 0
    OBVIOUS
  <2>2. commands' = Append(commands, AuditCommand(run)) \o none
    BY <1>1
  <2> HIDE DEF none
  <2>3. /\ commands' \in Seq(Command)
        /\ Len(commands') = Len(commands) + 1 + Len(none)
        /\ Extends(commands, run, none, commands', Len(commands), Len(none))
    BY <1>2, <1>3, <2>1, <2>2, Joined
  <2>. QED
    BY <2>1, <2>3 DEF none
<1>5. PlanSound(commands') /\ StatusOf(commands', Len(commands')) = StoppedAt(agent)
  <2>1. Len(commands) \in Nat /\ Len(commands) + 1 = Len(commands')
    BY <1>2, <1>4
  <2>. QED
    BY <1>2, <1>4, <2>1, PlanAudited DEF PlanSound
<1>6. /\ runs' \in Seq(AgentRun) /\ runs'[Len(runs')] = run
      /\ InOrder(runs') /\ Succeeded(runs', Len(runs') - 1)
  BY <1>1, <1>2, <1>3, RunsGrow
<1>7. result' \in Result
  BY <1>1, <1>2 DEF Result
<1>8. result'.finalStatus = StoppedAt(agent) /\ ~result'.completed /\ result'.failedAgent = agent
  BY <1>1
<1>9. TypeOK'
  BY <1>1, <1>4, <1>6, <1>7 DEF TypeOK
<1>10. Returned'
  BY <1>1, <1>3, <1>5, <1>6, <1>7, <1>8 DEF Returned
<1>. QED
  BY <1>5, <1>6, <1>9, <1>10 DEF PipelineInv

LEMMA SuccessKeepsInv ==
  ASSUME PipelineInv, Underway, NEW retries \in 0..1, NEW facts \in Nat,
         AgentSucceeds(agent, retries, facts)
  PROVE  PipelineInv'
<1> DEFINE outcome == IF retries = 0 THEN "success" ELSE "retried"
           run == RunOf(agent, outcome, retries)
           writes == BusinessWrites(agent, facts)
<1>1. /\ commands' = Append(commands, AuditCommand(run)) \o writes
      /\ runs' = Append(runs, run)
      /\ agent' = NextAgent(agent) /\ calls' = 0
      /\ result' = IF NextAgent(agent) = "returned"
                     THEN [finalStatus |-> "decision_pending", completed |-> TRUE,
                           failedAgent |-> "none"]
                     ELSE result
  BY DEF AgentSucceeds, AgentResult
<1>2. /\ agent \in Agent /\ commands \in Seq(Command) /\ runs \in Seq(AgentRun)
      /\ Len(runs) \in 0..5 /\ agent = AgentOrder[Len(runs) + 1]
      /\ LastKnown(commands) /\ AuditLeads(commands) /\ NoFailure(commands)
      /\ StatusOf(commands, Len(commands)) = StoppedAt(agent)
      /\ InOrder(runs) /\ Succeeded(runs, Len(runs))
      /\ result = NoResult
  BY DEF PipelineInv, PlanSound, Underway, TypeOK
<1>3. outcome \in RunStatus /\ outcome # "failed"
  BY DEF RunStatus
<1> HIDE DEF outcome
<1>4. /\ run \in AgentRun /\ run.agent = agent /\ run.runStatus # "failed"
      /\ run.before = FromStatus[agent] /\ run.after = ToStatus[agent]
  BY <1>2, <1>3, RunType
<1>5. Business(writes, agent)
  BY <1>2, BusinessShape
<1> HIDE DEF run, writes
<1>6. /\ writes \in Seq(Command) /\ Len(writes) \in Nat /\ Len(commands) \in Nat
      /\ commands' \in Seq(Command) /\ Len(commands') = Len(commands) + 1 + Len(writes)
      /\ Extends(commands, run, writes, commands', Len(commands), Len(writes))
  <2>1. writes \in Seq(Command)
    BY <1>5 DEF Business
  <2>2. /\ commands' \in Seq(Command) /\ Len(commands') = Len(commands) + 1 + Len(writes)
        /\ Extends(commands, run, writes, commands', Len(commands), Len(writes))
    BY <1>1, <1>2, <1>4, <2>1, Joined
  <2>. QED
    BY <1>2, <2>1, <2>2
<1>7. /\ LastKnown(commands') /\ AuditLeads(commands') /\ NoFailure(commands')
      /\ StatusOf(commands', Len(commands')) =
           IF agent \in Moving THEN ToStatus[agent] ELSE StoppedAt(agent)
  <2>1. CASE agent \in Moving
    <3>1. /\ Len(writes) > 0 /\ writes[Len(writes)] = AgentMove(agent)
          /\ RowsThenMove(writes, Len(writes))
      BY <1>5, <2>1 DEF Business, RowsThenMove
    <3>2. StatusOf(commands, Len(commands)) = FromStatus[agent]
      BY <1>2, <2>1, StartStatuses
    <3>3. /\ LastKnown(commands') /\ AuditLeads(commands') /\ NoFailure(commands')
          /\ StatusOf(commands', Len(commands')) = ToStatus[agent]
      <4> DEFINE n == Len(commands)
                 m == Len(writes)
                 grown == commands'
      <4>1. /\ n \in Nat /\ m \in Nat /\ m > 0 /\ n = Len(commands) /\ n + 1 + m = Len(grown)
            /\ Extends(commands, run, writes, grown, n, m)
            /\ agent \in Moving /\ writes[m] = AgentMove(agent) /\ RowsThenMove(writes, m)
        BY <1>6, <2>1, <3>1
      <4>2. /\ run.before = FromStatus[agent] /\ run.after = ToStatus[agent]
            /\ run.runStatus # "failed"
        BY <1>4
      <4>3. /\ LastKnown(commands) /\ AuditLeads(commands) /\ NoFailure(commands)
            /\ StatusOf(commands, n) = FromStatus[agent]
        BY <1>2, <3>2
      <4> HIDE DEF n, m, grown
      <4>4. /\ LastKnown(grown) /\ AuditLeads(grown) /\ NoFailure(grown)
            /\ StatusOf(grown, Len(grown)) = ToStatus[agent]
        <5>1. MovesOn(commands, run, writes, grown, n, m, agent)
          BY ONLY <4>1, <4>2, <4>3 DEF MovesOn
        <5>. QED
          BY ONLY <5>1, PlanMoves
      <4>. QED
        BY <4>4 DEF grown
    <3>. QED
      BY <2>1, <3>3
  <2>2. CASE agent \notin Moving
    <3>1. writes = <<>> /\ Len(writes) = 0
      BY <1>5, <2>2 DEF Business
    <3>2. /\ Extends(commands, run, <<>>, commands', Len(commands), 0)
          /\ Len(commands) \in Nat /\ Len(commands) + 1 = Len(commands')
      BY <1>6, <3>1
    <3>. QED
      BY <1>2, <1>4, <2>2, <3>2, PlanAudited
  <2>. QED
    BY <2>1, <2>2
<1>8. PlanSound(commands')
  BY <1>7 DEF PlanSound, NoFailure, FailureIsLast
<1>9. /\ runs' \in Seq(AgentRun) /\ Len(runs') = Len(runs) + 1 /\ runs'[Len(runs')] = run
      /\ InOrder(runs') /\ Succeeded(runs', Len(runs')) /\ Succeeded(runs', Len(runs') - 1)
  BY <1>1, <1>2, <1>4, RunsGrow
<1>10. CASE Len(runs) = 5
  <2>1. agent = "hr_coordinator" /\ NextAgent(agent) = "returned"
    BY <1>2, <1>10, NextInOrder
  <2>2. /\ result' = [finalStatus |-> "decision_pending", completed |-> TRUE,
                      failedAgent |-> "none"]
        /\ agent' = "returned"
    BY <1>1, <2>1
  <2>3. /\ result' \in Result /\ result'.completed
        /\ result'.finalStatus = "decision_pending"
    BY <2>2 DEF Result, Status
  <2>4. StatusOf(commands', Len(commands')) = "decision_pending"
    BY <1>7, <2>1, StartStatuses DEF Moving
  <2>5. TypeOK'
    BY <1>1, <1>6, <1>9, <2>2, <2>3 DEF TypeOK
  <2>6. Returned'
    BY <1>4, <1>9, <1>10, <2>2, <2>3, <2>4, SixAgents DEF Returned
  <2>. QED
    BY <1>8, <1>9, <2>5, <2>6 DEF PipelineInv
<1>11. CASE Len(runs) < 5
  <2>1. /\ agent # "hr_coordinator" /\ NextAgent(agent) \in Agent
        /\ NextAgent(agent) = AgentOrder[Len(runs) + 2]
    BY <1>2, <1>11, NextInOrder
  <2>2. agent' \in Agent /\ result' = NoResult
    BY <1>1, <1>2, <2>1, SixAgents
  <2>3. StatusOf(commands', Len(commands')) = StoppedAt(agent')
    BY <1>1, <1>2, <1>7, <2>1, StartStatuses DEF Moving
  <2>4. TypeOK'
    BY <1>1, <1>6, <1>9, <2>2 DEF TypeOK
  <2>5. Len(runs') \in 0..5 /\ Len(runs') + 1 = Len(runs) + 2
    BY <1>2, <1>9, <1>11
  <2>6. Underway'
    BY <1>1, <1>7, <1>9, <2>1, <2>2, <2>3, <2>5 DEF Underway
  <2>. QED
    BY <1>8, <1>9, <2>4, <2>6 DEF PipelineInv
<1>12. Len(runs) = 5 \/ Len(runs) < 5
  <2>1. \A n \in 0..5 : n = 5 \/ n < 5
    OBVIOUS
  <2>. QED
    BY <1>2, <2>1, Zenon
<1>. QED
  BY <1>10, <1>11, <1>12

(* Only an agent that runs takes a step; it finishes, fails, or asks again. *)
LEMMA Steps ==
  ASSUME PipelineInv, Next
  PROVE  /\ Underway
         /\ \/ AgentFails(agent)
            \/ \E retries \in 0..1, facts \in Nat : AgentSucceeds(agent, retries, facts)
            \/ calls' \in 0..1 /\ UNCHANGED <<agent, commands, runs, result>>
<1>0. LlmAgent \subseteq Agent /\ "resume_intake" \in Agent /\ "returned" \notin Agent
  BY SixAgents DEF LlmAgent
<1>1. agent \in Agent
  BY <1>0 DEF Next, RunIntake, LlmAnswers, LlmAnswersBadlyOnce, LlmAnswersBadlyAgain, LlmThrows
<1>2. Underway
  BY <1>0, <1>1 DEF PipelineInv, Returned
<1>3. calls \in 0..1
  BY DEF PipelineInv, TypeOK
<1>4. ASSUME NEW retries \in 0..1, NEW facts \in Nat, AgentFinishes(agent, retries, facts)
      PROVE  AgentFails(agent) \/ AgentSucceeds(agent, retries, facts)
  BY <1>4 DEF AgentFinishes
<1>5. CASE RunIntake
  BY <1>2, <1>4, <1>5 DEF RunIntake
<1>6. CASE LlmAnswers
  <2>1. PICK facts \in 0..MaxFacts : AgentFinishes(agent, calls, facts)
    BY <1>6 DEF LlmAnswers
  <2>2. facts \in Nat
    BY MaxFactsAssumption
  <2>. QED
    BY <1>2, <1>3, <1>4, <2>1, <2>2
<1>7. CASE LlmAnswersBadlyOnce
  BY <1>2, <1>3, <1>7 DEF LlmAnswersBadlyOnce, MayRetry
<1>8. CASE LlmAnswersBadlyAgain \/ LlmThrows
  BY <1>2, <1>8 DEF LlmAnswersBadlyAgain, LlmThrows
<1>. QED
  BY <1>5, <1>6, <1>7, <1>8 DEF Next

LEMMA InitInv == Init => PipelineInv
<1> SUFFICES ASSUME Init PROVE PipelineInv
  OBVIOUS
<1>1. commands = <<>> /\ runs = <<>> /\ Len(commands) = 0 /\ Len(runs) = 0
  BY DEF Init
<1>2. TypeOK
  BY <1>1, SixAgents DEF Init, TypeOK
<1>3. HasLast(commands, 0) /\ StatusOf(commands, 0) = "new"
  <2>1. Moves(commands, 0) = {}
    BY DEF Moves
  <2>. QED
    BY <2>1, StatusOfDef DEF HasLast
<1>4. PlanSound(commands) /\ NoFailure(commands)
  BY <1>1, <1>3 DEF PlanSound, LastKnown, AuditLeads, FailureIsLast, NoFailure
<1>5. InOrder(runs) /\ Succeeded(runs, Len(runs))
  BY <1>1 DEF InOrder, Succeeded
<1>6. Underway
  BY <1>1, <1>3, <1>4, <1>5, SixAgents, StartStatuses DEF Underway, Init
<1>. QED
  BY <1>2, <1>4, <1>5, <1>6 DEF PipelineInv

LEMMA NextKeepsInv == PipelineInv /\ [Next]_vars => PipelineInv'
<1> SUFFICES ASSUME PipelineInv, [Next]_vars PROVE PipelineInv'
  OBVIOUS
<1>1. ASSUME calls' \in 0..1, UNCHANGED <<agent, commands, runs, result>>
      PROVE  PipelineInv'
  BY <1>1 DEF PipelineInv, TypeOK, Underway, Returned
<1>2. CASE Next
  <2>1. Underway
    BY <1>2, Steps
  <2>2. ASSUME NEW retries \in 0..1, NEW facts \in Nat, AgentSucceeds(agent, retries, facts)
        PROVE  PipelineInv'
    BY <2>1, <2>2, SuccessKeepsInv
  <2>3. ASSUME AgentFails(agent)
        PROVE  PipelineInv'
    BY <2>1, <2>3, FailureKeepsInv
  <2>. QED
    BY <1>1, <1>2, <2>2, <2>3, Steps
<1>3. CASE UNCHANGED vars
  BY <1>1, <1>3 DEF vars, PipelineInv, TypeOK
<1>. QED
  BY <1>2, <1>3

(***************************************************************************)
(* The theorems.                                                           *)
(***************************************************************************)

LEMMA InvariantHolds == Spec => []PipelineInv
<1>1. Init => PipelineInv
  BY InitInv
<1>2. PipelineInv /\ [Next]_vars => PipelineInv'
  BY NextKeepsInv
<1>. QED
  BY <1>1, <1>2, PTL DEF Spec

(* Whatever the model answers and whichever call fails, the pipeline's      *)
(* state keeps its types: at most one correction is asked for, and every    *)
(* command is one of the five kinds.                                        *)
THEOREM Typing == Spec => []TypeOK
<1>1. PipelineInv => TypeOK
  BY DEF PipelineInv
<1>. QED
  BY <1>1, InvariantHolds, PTL

LEMMA StatusWrittenIs == \A n : StatusWritten(n) = StatusOf(commands, n)
BY DEF StatusWritten, StatusOf

(* The finalStatus literal of each early return of runCandidatePipeline is  *)
(* the status the commands returned leave the candidate in.                 *)
THEOREM FinalStatusAgrees == Spec => []FinalStatusMatchesWrites
<1>1. PipelineInv => FinalStatusMatchesWrites
  BY StatusWrittenIs, SixAgents
    DEF PipelineInv, Underway, Returned, FinalStatusMatchesWrites, CurrentStatus
<1>. QED
  BY <1>1, InvariantHolds, PTL

(* A failed run's audit row is the last command of the plan.                *)
THEOREM NothingAfterFailure == Spec => []FailureLeavesNoWrites
<1>1. PipelineInv => FailureLeavesNoWrites
  BY DEF PipelineInv, PlanSound, FailureIsLast, FailureLeavesNoWrites, IsAuditCommand
<1>. QED
  BY <1>1, InvariantHolds, PTL

(* Every status written follows the audit row that names exactly this move, *)
(* from the status the plan had reached, with only rows in between.         *)
THEOREM AuditLeadsStatus == Spec => []AuditPrecedesStatus
<1>1. PipelineInv => AuditPrecedesStatus
  <2>1. AuditLeads(commands) => AuditPrecedesStatus
    BY StatusWrittenIs
      DEF AuditLeads, Led, AuditPrecedesStatus, IsStatusCommand, IsAuditCommand
  <2>. QED
    BY <2>1 DEF PipelineInv, PlanSound
<1>. QED
  BY <1>1, InvariantHolds, PTL

(* completed, failedAgent and the list of runs tell one story.              *)
THEOREM ResultAndRuns == Spec => []ResultAgreesWithRuns
<1>1. PipelineInv => ResultAgreesWithRuns
  BY SixAgents DEF PipelineInv, Underway, Returned, InOrder, Succeeded, ResultAgreesWithRuns
<1>. QED
  BY <1>1, InvariantHolds, PTL

-----------------------------------------------------------------------------
(* The refinement: an agent that succeeds makes the one move of the state   *)
(* machine that is its own, or none; every other step leaves the status.    *)

LEMMA StepMovesStatus ==
  ASSUME PipelineInv, [Next]_vars
  PROVE  [Lifecycle!Move]_CurrentStatus
<1> DEFINE reached == StatusOf(commands, Len(commands))
<1>0. CurrentStatus = reached /\ CurrentStatus' = reached'
  BY StatusWrittenIs DEF CurrentStatus, StatusWritten, StatusOf
<1>1. PipelineInv'
  BY NextKeepsInv
<1>2. CASE UNCHANGED commands
  BY <1>0, <1>2
<1>3. CASE Next /\ commands' # commands
  <2>1. Underway
    BY <1>3, Steps
  <2>2. CASE AgentFails(agent)
    <3>1. agent' = "returned" /\ result'.finalStatus = StoppedAt(agent)
      BY <2>2 DEF AgentFails
    <3>2. Returned'
      BY <1>1, <3>1, SixAgents DEF PipelineInv, Underway
    <3>3. reached' = reached
      BY <2>1, <3>1, <3>2 DEF Underway, Returned
    <3>. QED
      BY <1>0, <3>3
  <2>3. ASSUME NEW retries \in 0..1, NEW facts \in Nat, AgentSucceeds(agent, retries, facts)
        PROVE  [Lifecycle!Move]_CurrentStatus
    <3>1. /\ agent' = NextAgent(agent)
          /\ NextAgent(agent) = "returned" => result'.finalStatus = "decision_pending"
      BY <2>3 DEF AgentSucceeds
    <3>2. reached = StoppedAt(agent) /\ agent \in Agent
      BY <2>1 DEF Underway
    <3>3. CASE agent = "hr_coordinator"
      <4>1. agent' = "returned"
        BY <3>1, <3>3 DEF NextAgent
      <4>2. reached' = "decision_pending"
        BY <1>1, <3>1, <4>1, SixAgents DEF PipelineInv, Underway, Returned
      <4>. QED
        BY <1>0, <3>2, <3>3, <4>2, StartStatuses
    <3>4. CASE agent # "hr_coordinator"
      <4>1. agent' \in Agent
        BY <3>1, <3>2, <3>4, SixAgents DEF NextAgent
      <4>2. reached' = StoppedAt(NextAgent(agent))
        BY <1>1, <3>1, <4>1, SixAgents DEF PipelineInv, Underway, Returned
      <4>3. CASE agent = "graph_builder"
        BY <1>0, <3>2, <4>2, <4>3, StartStatuses
      <4>4. CASE agent \in Moving
        <5>1. reached = FromStatus[agent] /\ reached' = ToStatus[agent]
          BY <3>2, <4>2, <4>4, StartStatuses
        <5>2. /\ CanTransition(reached, reached', "agent")
              /\ reached' \in NextStates(reached)
          BY <4>4, <5>1, MovesInTable
        <5> HIDE DEF reached
        <5>3. /\ Lifecycle!CanTransition(reached, reached', "agent")
              /\ reached' \in Lifecycle!NextStates(reached)
          BY <5>2 DEF Lifecycle!CanTransition, Lifecycle!NextStates, Lifecycle!Transitions,
                      Lifecycle!Actor, CanTransition, NextStates, Transitions, Actor
        <5>. QED
          BY <1>0, <5>3 DEF Lifecycle!Move
      <4>. QED
        BY <3>2, <3>4, <4>3, <4>4 DEF Moving
    <3>. QED
      BY <3>3, <3>4
  <2>. QED
    BY <1>2, <1>3, <2>2, <2>3, Steps
<1>. QED
  BY <1>2, <1>3 DEF vars

(* The plan of runCandidatePipeline, written in order, is a run of the      *)
(* candidate state machine in which only agents move: every status it       *)
(* writes is one row of the transition table, and none is a decision.       *)
THEOREM PlanImplementsLifecycle == Spec => ImplementsLifecycle
<1>1. Init => Lifecycle!Init
  <2> SUFFICES ASSUME Init PROVE CurrentStatus = "new"
    BY DEF Lifecycle!Init
  <2>1. commands = <<>> /\ Len(commands) = 0
    BY DEF Init
  <2>2. Moves(commands, 0) = {}
    BY DEF Moves
  <2>. QED
    BY <2>1, <2>2, StatusOfDef, StatusWrittenIs DEF CurrentStatus
<1>2. PipelineInv /\ [Next]_vars => [Lifecycle!Move]_CurrentStatus
  BY StepMovesStatus
<1>. QED
  BY <1>1, <1>2, InvariantHolds, PTL DEF Spec, ImplementsLifecycle, Lifecycle!Spec
=============================================================================
