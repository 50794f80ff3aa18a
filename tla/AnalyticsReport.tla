-------------------------- MODULE AnalyticsReport --------------------------
(***************************************************************************)
(* The two-step analytics report (live-analytics-report-runner.ts).        *)
(* Generating a plan reads three tables one after the other and answers    *)
(* with a nonce; executing reads the three again, compares and writes an   *)
(* audit row and the report.  A server process does this in one go, while  *)
(* people, other agents and other servers write to the same Base.          *)
(***************************************************************************)
EXTENDS Naturals, Sequences, FiniteSets

CONSTANTS
  Servers,     \* server processes
  ReadLimit,   \* rows that one read returns (READ_LIMIT)
  Default,     \* a request that names no period
  Asked,       \* the periods requests name, or Default
  MaxEdits,    \* bound on the edits of the Base
  MaxDay,      \* bound on the days that pass
  MaxRows,     \* bound on the rows of Agent Runs and of Reports
  MaxLate      \* bound on the requests of killed lark-cli processes under way

ASSUME ReportAssumption ==
  /\ ReadLimit \in Nat
  /\ MaxEdits \in Nat
  /\ MaxDay \in Nat
  /\ MaxRows \in Nat
  /\ MaxLate \in Nat
  /\ Asked \subseteq 0..MaxDay \cup {Default}
  /\ Default \notin 0..MaxDay

VARIABLES
  base,      \* the tables of the Base this runner reads or writes
  today,     \* the date of the server's clock
  work,      \* what each server is doing
  answered,  \* the nonces a server has answered with
  reply,     \* the answer of a server whose last request wrote to the Base
  late       \* requests of killed lark-cli processes still under way

vars == <<base, today, work, answered, reply, late>>

Days == 0..MaxDay

-----------------------------------------------------------------------------
(* Data.  A table is what the digest keeps of its rows, as the number of    *)
(* edits it has seen: an edit brings contents it never had.  0 candidates   *)
(* is the empty table.  The audit rows this runner adds to Agent Runs are   *)
(* kept apart: the digest looks at agent_name and run_status only, the same *)
(* in each of them, so that it depends on how many of them a read returns.  *)

Versions == 0..MaxEdits + 1

Data == [candidates : Versions, evaluations : Versions, runs : Versions, audits : Nat]

Returned(rows) == IF Len(rows) < ReadLimit THEN Len(rows) ELSE ReadLimit

View(b) ==
  [candidates |-> b.candidates, evaluations |-> b.evaluations, runs |-> b.runs,
   audits |-> Returned(b.audits)]

(* The report, its commands and the audit row's run_id are functions of the *)
(* period and the digest, and so is the nonce; hashes are injective here.   *)
Nonces == [period : Days, data : Data]

(* A nonce that says which candidates were reported on, and nothing of the  *)
(* other tables.                                                            *)
NonceOfCandidates(period, data) ==
  [period |-> period, data |-> [data EXCEPT !.evaluations = 0, !.runs = 0, !.audits = 0]]

(* A nonce that leaves the audit rows of earlier reports out. *)
NonceWithoutRuns(period, data) ==
  [period |-> period, data |-> [data EXCEPT !.audits = 0]]

Nonce(period, data) == [period |-> period, data |-> data]

NoNonce == [period |-> 0, data |-> [candidates |-> 0, evaluations |-> 0, runs |-> 0, audits |-> 0]]

Row == [nonce : Nonces, by : Servers]

-----------------------------------------------------------------------------
(* What a server is doing: reading for a plan or for an execution, and how  *)
(* many tables it has read; or writing, and which row is next.  start is a  *)
(* history variable: what the three tables held together when the request   *)
(* to execute came, with the audit rows in full.                            *)
Working ==
  [phase : {"idle", "plan", "execute", "audit", "report"},
   asked : Days \cup {Default}, period : Days, submitted : Nonces,
   read : 0..3, data : Data, start : Data, startRows : Seq(Row)]

NoData == NoNonce.data

Idle ==
  [phase |-> "idle", asked |-> Default, period |-> 0, submitted |-> NoNonce,
   read |-> 0, data |-> NoData, start |-> NoData, startRows |-> <<>>]

Writing(s) == work[s].phase \in {"audit", "report"}

Reply ==
  [status : {"none", "success", "failed"}, nonce : Nonces, successCount : 0..2]

Answer(status, nonce, count) ==
  [status |-> status, nonce |-> nonce, successCount |-> count]

NoReply == Answer("none", NoNonce, 0)

BaseType ==
  [candidates : Versions, evaluations : Versions, runs : Versions,
   audits : Seq(Row), reports : Seq(Row)]

LateRequest == [table : {"audits", "reports"}, row : Row]

(* The Base, the requests and the answers, in every state.                  *)
TypeOK ==
  /\ base \in BaseType
  /\ today \in Days
  /\ work \in [Servers -> Working]
  /\ answered \subseteq Nonces
  /\ reply \in [Servers -> Reply]
  /\ late \subseteq LateRequest

Init ==
  /\ base \in [candidates : {0, 1}, evaluations : {0}, runs : {0}, audits : {<<>>},
               reports : {<<>>}]
  /\ today = 0
  /\ work = [s \in Servers |-> Idle]
  /\ answered = {}
  /\ reply = [s \in Servers |-> NoReply]
  /\ late = {}

-----------------------------------------------------------------------------
(* Requests.                                                                *)

Resolve(asked) == IF asked = Default THEN today ELSE asked

Begin(s, request) ==
  /\ work[s].phase = "idle"
  /\ work' = [work EXCEPT ![s] = request]
  /\ reply' = [reply EXCEPT ![s] = NoReply]
  /\ UNCHANGED <<base, today, answered, late>>

RequestPlan(s, asked) ==
  Begin(s, [Idle EXCEPT !.phase = "plan", !.period = Resolve(asked)])

(* With both confirm phrases and a nonce that is not empty.                 *)
RequestExecution(s, asked, submitted) ==
  Begin(s, [Idle EXCEPT !.phase = "execute", !.asked = asked, !.submitted = submitted,
                        !.start = View(base), !.startRows = base.audits])

Finish(s, answer) ==
  /\ work' = [work EXCEPT ![s] = Idle]
  /\ reply' = [reply EXCEPT ![s] = answer]

(* A wrong confirm phrase or no nonce, before anything is read; or the Base *)
(* not ready to read, a read that fails or cannot be parsed.                *)
Refuse(s) ==
  /\ ~Writing(s)
  /\ work[s].phase = "idle" \/ work[s].read < 3
  /\ Finish(s, NoReply)
  /\ UNCHANGED <<base, today, answered, late>>

(* One table a read: candidates, evaluations, agent runs.                   *)
ReadTable(s) ==
  LET w == work[s]
      seen == CASE w.read = 0 -> [w.data EXCEPT !.candidates = base.candidates]
                [] w.read = 1 -> [w.data EXCEPT !.evaluations = base.evaluations]
                [] OTHER -> [w.data EXCEPT !.runs = base.runs,
                                           !.audits = Returned(base.audits)]
  IN  /\ w.phase \in {"plan", "execute"}
      /\ w.read < 3
      /\ work' = [work EXCEPT ![s].read = w.read + 1, ![s].data = seen]
      /\ UNCHANGED <<base, today, answered, reply, late>>

NoCandidates(s) == work[s].data.candidates = 0

(* needs_review for a plan, blocked for an execution: neither has a nonce   *)
(* to go on with.                                                           *)
AnswerEmpty(s) ==
  /\ work[s].phase \in {"plan", "execute"}
  /\ work[s].read = 3
  /\ NoCandidates(s)
  /\ Finish(s, NoReply)
  /\ UNCHANGED <<base, today, answered, late>>

AnswerNonce(s, nonce) ==
  /\ Finish(s, NoReply)
  /\ answered' = answered \cup {nonce}

AnswerPlan(s) ==
  /\ work[s].phase = "plan"
  /\ work[s].read = 3
  /\ ~NoCandidates(s)
  /\ AnswerNonce(s, Nonce(work[s].period, work[s].data))
  /\ UNCHANGED <<base, today, late>>

SameNonce(recomputed, submitted) == recomputed = submitted

(* The period is resolved after the reads here, before them in a plan.  A   *)
(* nonce that matches may still be refused by the write permission; either  *)
(* refusal answers with the nonce just computed.                            *)
CheckNonce(s) ==
  LET period == Resolve(work[s].asked)
      nonce == Nonce(period, work[s].data)
  IN  /\ work[s].phase = "execute"
      /\ work[s].read = 3
      /\ ~NoCandidates(s)
      /\ \/ AnswerNonce(s, nonce)
         \/ /\ SameNonce(nonce, work[s].submitted)
            /\ work' = [work EXCEPT ![s].phase = "audit", ![s].period = period]
            /\ UNCHANGED <<answered, reply>>
      /\ UNCHANGED <<base, today, late>>

-----------------------------------------------------------------------------
(* The command loop: the audit row, then the report; it stops at the first  *)
(* command that fails.                                                      *)

RowOf(s) == [nonce |-> Nonce(work[s].period, work[s].data), by |-> s]

(* A loop that writes the report before its audit row. *)
TableReversed(s) == IF work[s].phase = "audit" THEN "reports" ELSE "audits"

TargetTable(s) == IF work[s].phase = "audit" THEN "audits" ELSE "reports"

Apply(table, row) ==
  /\ Len(base[table]) < MaxRows
  /\ base' = [base EXCEPT ![table] = Append(@, row)]

Acknowledged(s) == IF work[s].phase = "audit" THEN 0 ELSE 1

(* A loop that ends one command early. *)
AnyCommand(s) == TRUE

LastCommand(s) == work[s].phase = "report"

WriteSucceeds(s) ==
  /\ Writing(s)
  /\ Apply(TargetTable(s), RowOf(s))
  /\ IF LastCommand(s)
       THEN Finish(s, Answer("success", RowOf(s).nonce, 2))
       ELSE work' = [work EXCEPT ![s].phase = "report"] /\ UNCHANGED reply
  /\ UNCHANGED <<today, answered, late>>

WriteFails(s) ==
  /\ Writing(s)
  /\ Finish(s, Answer("failed", RowOf(s).nonce, Acknowledged(s)))
  /\ UNCHANGED <<base, today, answered, late>>

(* lark-cli is killed: its request may have been served, be served later or *)
(* be lost.                                                                 *)
LeaveRequest(s) ==
  \/ Apply(TargetTable(s), RowOf(s)) /\ UNCHANGED late
  \/ /\ Cardinality(late) < MaxLate
     /\ late' = late \cup {[table |-> TargetTable(s), row |-> RowOf(s)]}
     /\ UNCHANGED base

WriteTimesOut(s) ==
  /\ Writing(s)
  /\ Finish(s, Answer("failed", RowOf(s).nonce, Acknowledged(s)))
  /\ LeaveRequest(s)
  /\ UNCHANGED <<today, answered>>

LateArrives(x) ==
  /\ Apply(x.table, x.row)
  /\ late' = late \ {x}
  /\ UNCHANGED <<today, work, answered, reply>>

Crash(s) ==
  /\ Finish(s, NoReply)
  /\ UNCHANGED <<base, late>> \/ (Writing(s) /\ LeaveRequest(s))
  /\ UNCHANGED <<today, answered>>

-----------------------------------------------------------------------------
(* The Base and the clock.                                                  *)

EditTable(table) ==
  /\ base.candidates + base.evaluations + base.runs < MaxEdits + 1
  /\ base' = [base EXCEPT ![table] = @ + 1]
  /\ UNCHANGED <<today, work, answered, reply, late>>

Midnight ==
  /\ today < MaxDay
  /\ today' = today + 1
  /\ UNCHANGED <<base, work, answered, reply, late>>

-----------------------------------------------------------------------------
ReadStep(s) == Refuse(s) \/ ReadTable(s) \/ AnswerEmpty(s) \/ AnswerPlan(s) \/ CheckNonce(s)

WriteStep(s) == WriteSucceeds(s) \/ WriteFails(s) \/ WriteTimesOut(s)

RequestStep(s) ==
  \E asked \in Asked :
    \/ RequestPlan(s, asked)
    \/ \E submitted \in answered \cup {NoNonce} : RequestExecution(s, asked, submitted)

Next ==
  \/ \E s \in Servers : RequestStep(s) \/ ReadStep(s) \/ WriteStep(s) \/ Crash(s)
  \/ \E x \in late : LateArrives(x)
  \/ \E table \in {"candidates", "evaluations", "runs"} : EditTable(table)
  \/ Midnight

Spec == Init /\ [][Next]_vars

-----------------------------------------------------------------------------
(* Properties.  Rows(rows, n) are the rows written for nonce n.             *)

RowsOf(rows, n) == {i \in 1..Len(rows) : rows[i].nonce = n}

(* As long as a read returns every audit row. *)
WithinLimit(n) == n.data.audits < ReadLimit

(* Three reads with edits in between may show a Base that never was.  A     *)
(* report is not written on such data: what the plan and the execution both *)
(* read is what the three tables held together when the execution came.     *)
ReportOfOneMoment == \A s \in Servers : Writing(s) => work[s].data = work[s].start

(* A nonce is spent by the audit row written under it: an execution that    *)
(* begins later, on whichever server, is refused, also when the first one   *)
(* failed half way, timed out or died.                                      *)
NonceSpentByAudit ==
  \A s \in Servers :
    Writing(s) /\ WithinLimit(RowOf(s).nonce)
      => RowsOf(work[s].startRows, RowOf(s).nonce) = {}

(* However often an operator repeats the request, and whatever timed out    *)
(* or arrived late, one server adds one report for a nonce.                 *)
OneReportPerServer ==
  \A s \in Servers, n \in {base.reports[i].nonce : i \in 1..Len(base.reports)} :
    WithinLimit(n) =>
      Cardinality({i \in RowsOf(base.reports, n) : base.reports[i].by = s}) <= 1

(* Every report in the Base has the audit row of its run, also one that     *)
(* arrived late.                                                            *)
ReportHasAudit ==
  \A i \in 1..Len(base.reports) :
    \E j \in 1..Len(base.audits) : base.audits[j] = base.reports[i]

(* What the operator is told: success, and the report of this nonce is in   *)
(* the Base; a failure with no success counted, and it is not, so that the  *)
(* same nonce may be tried again.                                           *)
AnswerTruthful ==
  \A s \in Servers :
    LET mine == {i \in RowsOf(base.reports, reply[s].nonce) : base.reports[i].by = s}
    IN  /\ reply[s].status = "success" => mine # {}
        /\ reply[s].status = "failed" /\ reply[s].successCount = 0
             /\ WithinLimit(reply[s].nonce) => mine = {}
=============================================================================
