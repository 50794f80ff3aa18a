----------------------- MODULE AnalyticsReport_proofs -----------------------
(***************************************************************************)
(* Proofs about AnalyticsReport for any number of servers, rows, edits,    *)
(* days and late requests, and any limit on the rows of a read.            *)
(***************************************************************************)
EXTENDS AnalyticsReport, SequenceTheorems, FiniteSetTheorems, TLAPS

USE ReportAssumption

-----------------------------------------------------------------------------
(* Types.                                                                   *)

LEMMA NonceTyped ==
  ASSUME NEW period \in Days, NEW data \in Data
  PROVE  Nonce(period, data) \in Nonces
BY DEF Nonce, Nonces

LEMMA NoNonceTyped == NoData \in Data /\ NoNonce \in Nonces /\ 0 \in Days
<1>1. 0 \in Days /\ 0 \in Versions /\ 0 \in Nat
  BY DEF Days, Versions
<1> QED  BY <1>1 DEF NoData, NoNonce, Nonces, Data

LEMMA IdleTyped == Idle \in Working
BY NoNonceTyped DEF Idle, Working

LEMMA NoReplyTyped == NoReply \in Reply
BY NoNonceTyped DEF NoReply, Answer, Reply

LEMMA ReturnedTyped ==
  ASSUME NEW rows \in Seq(Row)
  PROVE  Returned(rows) \in Nat /\ Returned(rows) <= Len(rows)
BY DEF Returned

LEMMA RowTyped ==
  ASSUME TypeOK, NEW s \in Servers
  PROVE  RowOf(s) \in Row /\ RowOf(s) = [nonce |-> Nonce(work[s].period, work[s].data), by |-> s]
<1>1. work[s].period \in Days /\ work[s].data \in Data
  BY DEF TypeOK, Working
<1> QED  BY <1>1, NonceTyped DEF RowOf, Row

LEMMA ViewTyped ==
  ASSUME NEW b \in BaseType
  PROVE  View(b) \in Data
BY ReturnedTyped DEF View, Data, BaseType

LEMMA ResolveTyped ==
  ASSUME today \in Days, NEW asked \in Days \cup {Default}
  PROVE  Resolve(asked) \in Days
BY DEF Resolve

LEMMA InitTyped == Init => TypeOK
<1> SUFFICES ASSUME Init PROVE TypeOK
  OBVIOUS
<1>1. base \in BaseType
  <2>1. {0, 1} \subseteq Versions /\ {<<>>} \subseteq Seq(Row)
    BY DEF Versions
  <2> QED  BY <2>1 DEF Init, BaseType
<1> QED  BY <1>1, NoNonceTyped, IdleTyped, NoReplyTyped DEF Init, TypeOK, Days

LEMMA FinishTyped ==
  ASSUME TypeOK, NEW s \in Servers, NEW answer \in Reply, Finish(s, answer)
  PROVE  work' \in [Servers -> Working] /\ reply' \in [Servers -> Reply]
BY IdleTyped DEF TypeOK, Finish

(* What a command that is served does to the tables.                        *)
LEMMA ApplyEffect ==
  ASSUME base \in BaseType, NEW table \in {"audits", "reports"}, NEW row \in Row,
         Apply(table, row)
  PROVE  /\ base' \in BaseType
         /\ base'.candidates = base.candidates
         /\ base'.evaluations = base.evaluations
         /\ base'.runs = base.runs
         /\ base'[table] = Append(base[table], row)
         /\ table = "audits" => base'.audits = Append(base.audits, row)
                                /\ base'.reports = base.reports
         /\ table = "reports" => base'.reports = Append(base.reports, row)
                                 /\ base'.audits = base.audits
<1>1. CASE table = "audits"
  <2>1. base' = [base EXCEPT !.audits = Append(@, row)]
    BY <1>1 DEF Apply
  <2>2. Append(base.audits, row) \in Seq(Row)
    BY AppendProperties DEF BaseType
  <2> QED  BY <1>1, <2>1, <2>2 DEF BaseType
<1>2. CASE table = "reports"
  <2>1. base' = [base EXCEPT !.reports = Append(@, row)]
    BY <1>2 DEF Apply
  <2>2. Append(base.reports, row) \in Seq(Row)
    BY AppendProperties DEF BaseType
  <2> QED  BY <1>2, <2>1, <2>2 DEF BaseType
<1> QED  BY <1>1, <1>2

LEMMA TargetTyped ==
  ASSUME NEW s \in Servers
  PROVE  TargetTable(s) \in {"audits", "reports"}
BY DEF TargetTable

LEMMA LeaveTyped ==
  ASSUME TypeOK, NEW s \in Servers, LeaveRequest(s)
  PROVE  base' \in BaseType /\ late' \subseteq LateRequest
<1>1. base \in BaseType /\ late \subseteq LateRequest
  BY DEF TypeOK
<1>2. CASE Apply(TargetTable(s), RowOf(s)) /\ UNCHANGED late
  BY <1>1, <1>2, TargetTyped, RowTyped, ApplyEffect
<1>3. CASE /\ late' = late \cup {[table |-> TargetTable(s), row |-> RowOf(s)]}
           /\ UNCHANGED base
  BY <1>1, <1>3, TargetTyped, RowTyped DEF LateRequest
<1> QED  BY <1>2, <1>3 DEF LeaveRequest

LEMMA NextTyped == TypeOK /\ [Next]_vars => TypeOK'
<1> SUFFICES ASSUME TypeOK, [Next]_vars PROVE TypeOK'
  OBVIOUS
<1> USE DEF TypeOK
<1>1. ASSUME NEW s \in Servers, NEW asked \in Asked, RequestPlan(s, asked)
      PROVE  TypeOK'
  <2>1. asked \in Days \cup {Default} /\ Resolve(asked) \in Days
    BY ResolveTyped DEF Days
  <2>2. [Idle EXCEPT !.phase = "plan", !.period = Resolve(asked)] \in Working
    BY <2>1, IdleTyped DEF Working
  <2> QED  BY <1>1, <2>2, NoReplyTyped DEF RequestPlan, Begin
<1>2. ASSUME NEW s \in Servers, NEW asked \in Asked, NEW submitted \in answered \cup {NoNonce},
             RequestExecution(s, asked, submitted)
      PROVE  TypeOK'
  <2>1. /\ asked \in Days \cup {Default}
        /\ submitted \in Nonces
        /\ View(base) \in Data
        /\ base.audits \in Seq(Row)
    BY NoNonceTyped, ViewTyped DEF Days, BaseType
  <2>2. [Idle EXCEPT !.phase = "execute", !.asked = asked, !.submitted = submitted,
                     !.start = View(base), !.startRows = base.audits] \in Working
    BY <2>1, IdleTyped DEF Working
  <2> QED  BY <1>2, <2>2, NoReplyTyped DEF RequestExecution, Begin
<1>3. ASSUME NEW s \in Servers, Refuse(s) \/ AnswerEmpty(s)
      PROVE  TypeOK'
  BY <1>3, FinishTyped, NoReplyTyped DEF Refuse, AnswerEmpty
<1>4. ASSUME NEW s \in Servers, ReadTable(s)
      PROVE  TypeOK'
  <2>1. work[s] \in Working /\ work[s].data \in Data /\ View(base) \in Data
    BY ViewTyped DEF Working
  <2>2. Returned(base.audits) \in Nat
    BY ReturnedTyped DEF BaseType
  <2>3. PICK seen \in Data :
          work' = [work EXCEPT ![s].read = work[s].read + 1, ![s].data = seen]
    <3>1. /\ [work[s].data EXCEPT !.candidates = base.candidates] \in Data
          /\ [work[s].data EXCEPT !.evaluations = base.evaluations] \in Data
          /\ [work[s].data EXCEPT !.runs = base.runs,
                                  !.audits = Returned(base.audits)] \in Data
      BY <2>1, <2>2 DEF Data, BaseType
    <3>2. \E seen \in Data :
            work' = [work EXCEPT ![s].read = work[s].read + 1, ![s].data = seen]
      <4>1. CASE work[s].read = 0
        BY <1>4, <3>1, <4>1 DEF ReadTable
      <4>2. CASE work[s].read = 1
        BY <1>4, <3>1, <4>2 DEF ReadTable
      <4>3. CASE work[s].read # 0 /\ work[s].read # 1
        BY <1>4, <3>1, <4>3 DEF ReadTable
      <4> QED  BY <4>1, <4>2, <4>3
    <3> QED  BY <3>2
  <2>4. [work[s] EXCEPT !.read = work[s].read + 1, !.data = seen] \in Working
    <3>1. work[s].read \in 0..3 /\ work[s].read < 3
      BY <1>4, <2>1 DEF Working, ReadTable
    <3>2. work[s].read + 1 \in 0..3
      BY <3>1
    <3> QED  BY <2>1, <3>2 DEF Working
  <2>5. work' = [work EXCEPT ![s] = [work[s] EXCEPT !.read = work[s].read + 1, !.data = seen]]
    BY <2>3
  <2> QED  BY <1>4, <2>4, <2>5 DEF ReadTable
<1>5. ASSUME NEW s \in Servers, NEW nonce \in Nonces, AnswerNonce(s, nonce),
             UNCHANGED <<base, today, late>>
      PROVE  TypeOK'
  BY <1>5, FinishTyped, NoReplyTyped DEF AnswerNonce
<1>6. ASSUME NEW s \in Servers, AnswerPlan(s)
      PROVE  TypeOK'
  <2>1. Nonce(work[s].period, work[s].data) \in Nonces
    BY NonceTyped DEF Working
  <2> QED  BY <1>5, <1>6, <2>1 DEF AnswerPlan
<1>7. ASSUME NEW s \in Servers, CheckNonce(s)
      PROVE  TypeOK'
  <2>1. Resolve(work[s].asked) \in Days
    BY ResolveTyped DEF Working
  <2>2. Nonce(Resolve(work[s].asked), work[s].data) \in Nonces
    BY <2>1, NonceTyped DEF Working
  <2>3. CASE AnswerNonce(s, Nonce(Resolve(work[s].asked), work[s].data))
    BY <1>5, <1>7, <2>2, <2>3 DEF CheckNonce
  <2>4. CASE /\ work' = [work EXCEPT ![s].phase = "audit", ![s].period = Resolve(work[s].asked)]
             /\ UNCHANGED <<answered, reply>>
    <3>1. work' = [work EXCEPT ![s] = [work[s] EXCEPT !.phase = "audit",
                                                      !.period = Resolve(work[s].asked)]]
      BY <2>4
    <3>2. [work[s] EXCEPT !.phase = "audit", !.period = Resolve(work[s].asked)] \in Working
      BY <2>1 DEF Working
    <3> QED  BY <1>7, <2>4, <3>1, <3>2 DEF CheckNonce
  <2> QED  BY <1>7, <2>3, <2>4 DEF CheckNonce
<1>8. ASSUME NEW s \in Servers, WriteSucceeds(s)
      PROVE  TypeOK'
  <2>1. base' \in BaseType
    BY <1>8, TargetTyped, RowTyped, ApplyEffect DEF WriteSucceeds
  <2>2. CASE LastCommand(s)
    <3>1. Answer("success", RowOf(s).nonce, 2) \in Reply
      BY RowTyped DEF Answer, Reply, Row
    <3> QED  BY <1>8, <2>1, <2>2, <3>1, FinishTyped DEF WriteSucceeds
  <2>3. CASE ~LastCommand(s)
    <3>1. work' = [work EXCEPT ![s] = [work[s] EXCEPT !.phase = "report"]]
      BY <1>8, <2>3 DEF WriteSucceeds
    <3>2. [work[s] EXCEPT !.phase = "report"] \in Working
      BY DEF Working
    <3> QED  BY <1>8, <2>1, <2>3, <3>1, <3>2 DEF WriteSucceeds
  <2> QED  BY <2>2, <2>3
<1>9. ASSUME NEW s \in Servers, WriteFails(s) \/ WriteTimesOut(s)
      PROVE  TypeOK'
  <2>1. Answer("failed", RowOf(s).nonce, Acknowledged(s)) \in Reply
    BY RowTyped DEF Answer, Reply, Row, Acknowledged
  <2> QED  BY <1>9, <2>1, FinishTyped, LeaveTyped DEF WriteFails, WriteTimesOut
<1>10. ASSUME NEW s \in Servers, Crash(s)
       PROVE  TypeOK'
  BY <1>10, FinishTyped, NoReplyTyped, LeaveTyped DEF Crash
<1>11. ASSUME NEW x \in late, LateArrives(x)
       PROVE  TypeOK'
  <2>1. x.table \in {"audits", "reports"} /\ x.row \in Row
    BY DEF LateRequest
  <2> QED  BY <1>11, <2>1, ApplyEffect DEF LateArrives
<1>12. ASSUME NEW table \in {"candidates", "evaluations", "runs"}, EditTable(table)
       PROVE  TypeOK'
  <2>1. base[table] \in Versions /\ base[table] + 1 \in Versions
    <3>1. /\ base.candidates \in Versions
          /\ base.evaluations \in Versions
          /\ base.runs \in Versions
          /\ base.candidates + base.evaluations + base.runs < MaxEdits + 1
      BY <1>12 DEF EditTable, BaseType
    <3>2. \A n \in {base.candidates, base.evaluations, base.runs} :
            n \in Versions /\ n + 1 \in Versions
      BY <3>1 DEF Versions
    <3> QED  BY <3>2
  <2>2. base' \in BaseType
    <3>1. CASE table = "candidates"
      BY <1>12, <2>1, <3>1 DEF EditTable, BaseType
    <3>2. CASE table = "evaluations"
      BY <1>12, <2>1, <3>2 DEF EditTable, BaseType
    <3>3. CASE table = "runs"
      BY <1>12, <2>1, <3>3 DEF EditTable, BaseType
    <3> QED  BY <3>1, <3>2, <3>3
  <2> QED  BY <1>12, <2>2 DEF EditTable
<1>13. CASE Midnight
  BY <1>13 DEF Midnight, Days
<1>14. CASE UNCHANGED vars
  BY <1>14 DEF vars
<1> QED
  BY <1>1, <1>2, <1>3, <1>4, <1>6, <1>7, <1>8, <1>9, <1>10, <1>11, <1>12, <1>13, <1>14
  DEF Next, RequestStep, ReadStep, WriteStep

(* Whatever the servers, the people and late requests do, the state is well *)
(* typed.                                                                   *)
THEOREM Typing == Spec => []TypeOK
BY InitTyped, NextTyped, PTL DEF Spec

-----------------------------------------------------------------------------
(* What one step does: to the tables and the requests under way, and to the *)
(* work of one server.                                                      *)

Edited(table) ==
  /\ base' = [base EXCEPT ![table] = @ + 1]
  /\ UNCHANGED <<late, work, reply>>

Served(s) ==
  /\ Writing(s)
  /\ Apply(TargetTable(s), RowOf(s))
  /\ UNCHANGED late
  /\ work[s].phase = "report" => work'[s] = Idle

LeftBehind(s) ==
  /\ Writing(s)
  /\ late' = late \cup {[table |-> TargetTable(s), row |-> RowOf(s)]}
  /\ work'[s] = Idle
  /\ UNCHANGED base

LEMMA TablesStep ==
  ASSUME TypeOK, [Next]_vars
  PROVE  \/ UNCHANGED <<base, late>>
         \/ \E s \in Servers : Served(s) \/ LeftBehind(s)
         \/ \E x \in late : LateArrives(x)
         \/ \E table \in {"candidates", "evaluations", "runs"} : Edited(table)
<1>1. ASSUME NEW s \in Servers, RequestStep(s) \/ ReadStep(s)
      PROVE  UNCHANGED <<base, late>>
  BY <1>1 DEF RequestStep, RequestPlan, RequestExecution, Begin, ReadStep, Refuse, ReadTable,
              AnswerEmpty, AnswerPlan, CheckNonce
<1>2. ASSUME NEW s \in Servers, Writing(s), LeaveRequest(s), work'[s] = Idle
      PROVE  Served(s) \/ LeftBehind(s)
  BY <1>2 DEF LeaveRequest, Served, LeftBehind
<1>3. ASSUME NEW s \in Servers, NEW answer, Finish(s, answer)
      PROVE  work'[s] = Idle
  BY <1>3 DEF Finish, TypeOK
<1>4. ASSUME NEW s \in Servers, WriteStep(s) \/ Crash(s)
      PROVE  UNCHANGED <<base, late>> \/ Served(s) \/ LeftBehind(s)
  <2>1. CASE WriteSucceeds(s)
    <3>1. work[s].phase = "report" => work'[s] = Idle
      BY <1>3, <2>1 DEF WriteSucceeds, LastCommand
    <3> QED  BY <2>1, <3>1 DEF WriteSucceeds, Served
  <2>2. CASE WriteFails(s)
    BY <2>2 DEF WriteFails
  <2>3. CASE WriteTimesOut(s)
    BY <1>2, <1>3, <2>3 DEF WriteTimesOut
  <2>4. CASE Crash(s)
    BY <1>2, <1>3, <2>4 DEF Crash
  <2> QED  BY <1>4, <2>1, <2>2, <2>3, <2>4 DEF WriteStep
<1>5. ASSUME NEW table \in {"candidates", "evaluations", "runs"}, EditTable(table)
      PROVE  Edited(table)
  BY <1>5 DEF EditTable, Edited
<1> QED  BY <1>1, <1>4, <1>5 DEF Next, Midnight, vars

Starts(s) ==
  \/ \E asked \in Asked :
       work'[s] = [Idle EXCEPT !.phase = "plan", !.period = Resolve(asked)]
  \/ \E asked \in Asked, submitted \in answered \cup {NoNonce} :
       work'[s] = [Idle EXCEPT !.phase = "execute", !.asked = asked, !.submitted = submitted,
                               !.start = View(base), !.startRows = base.audits]

Reads(s) ==
  LET w == work[s]
  IN /\ w.phase \in {"plan", "execute"}
     /\ \/ w.read = 0 /\ work'[s] = [w EXCEPT !.read = 1, !.data.candidates = base.candidates]
        \/ w.read = 1 /\ work'[s] = [w EXCEPT !.read = 2, !.data.evaluations = base.evaluations]
        \/ w.read = 2 /\ work'[s] = [w EXCEPT !.read = 3, !.data.runs = base.runs,
                                              !.data.audits = Returned(base.audits)]

BeginsWrites(s) ==
  LET w == work[s]
  IN /\ w.phase = "execute"
     /\ w.read = 3
     /\ ~NoCandidates(s)
     /\ Nonce(Resolve(w.asked), w.data) = w.submitted
     /\ work'[s] = [w EXCEPT !.phase = "audit", !.period = Resolve(w.asked)]

AuditWritten(s) ==
  /\ work[s].phase = "audit"
  /\ Apply("audits", RowOf(s))
  /\ work'[s] = [work[s] EXCEPT !.phase = "report"]

LEMMA ServerStep ==
  ASSUME TypeOK, [Next]_vars, NEW s \in Servers
  PROVE  \/ work'[s] = work[s]
         \/ work'[s] = Idle
         \/ UNCHANGED <<base, late>> /\ (Starts(s) \/ Reads(s) \/ BeginsWrites(s))
         \/ UNCHANGED late /\ AuditWritten(s)
<1> USE DEF TypeOK
<1>1. ASSUME NEW r \in Servers, r # s,
             RequestStep(r) \/ ReadStep(r) \/ WriteStep(r) \/ Crash(r)
      PROVE  work'[s] = work[s]
  <2>1. CASE RequestStep(r)
    BY <1>1, <2>1 DEF RequestStep, RequestPlan, RequestExecution, Begin
  <2>2. CASE ReadStep(r)
    BY <1>1, <2>2 DEF ReadStep, Refuse, ReadTable, AnswerEmpty, AnswerPlan, CheckNonce,
                      AnswerNonce, Finish
  <2>3. CASE WriteStep(r) \/ Crash(r)
    BY <1>1, <2>3 DEF WriteStep, WriteSucceeds, WriteFails, WriteTimesOut, Crash, Finish
  <2> QED  BY <1>1, <2>1, <2>2, <2>3
<1>2. ASSUME RequestStep(s)
      PROVE  UNCHANGED <<base, late>> /\ Starts(s)
  BY <1>2 DEF RequestStep, RequestPlan, RequestExecution, Begin, Starts
<1>3. ASSUME ReadTable(s)
      PROVE  UNCHANGED <<base, late>> /\ Reads(s)
  <2> DEFINE w == work[s]
  <2>1. w.read \in 0..3 /\ w.read < 3 /\ w \in Working /\ w.data \in Data
    BY <1>3 DEF ReadTable, Working
  <2>2. CASE w.read = 0
    <3>1. work' = [work EXCEPT ![s].read = 1,
                               ![s].data = [w.data EXCEPT !.candidates = base.candidates]]
      BY <1>3, <2>2 DEF ReadTable
    <3>2. work'[s] = [w EXCEPT !.read = 1, !.data.candidates = base.candidates]
      BY <2>1, <3>1 DEF Working
    <3> QED  BY <1>3, <2>2, <3>2 DEF ReadTable, Reads
  <2>3. CASE w.read = 1
    <3>1. work' = [work EXCEPT ![s].read = 2,
                               ![s].data = [w.data EXCEPT !.evaluations = base.evaluations]]
      BY <1>3, <2>3 DEF ReadTable
    <3>2. work'[s] = [w EXCEPT !.read = 2, !.data.evaluations = base.evaluations]
      BY <2>1, <3>1 DEF Working
    <3> QED  BY <1>3, <2>3, <3>2 DEF ReadTable, Reads
  <2>4. CASE w.read = 2
    <3>1. work' = [work EXCEPT ![s].read = 3,
                               ![s].data = [w.data EXCEPT !.runs = base.runs,
                                                          !.audits = Returned(base.audits)]]
      BY <1>3, <2>4 DEF ReadTable
    <3>2. work'[s] = [w EXCEPT !.read = 3, !.data.runs = base.runs,
                               !.data.audits = Returned(base.audits)]
      BY <2>1, <3>1 DEF Working
    <3> QED  BY <1>3, <2>4, <3>2 DEF ReadTable, Reads
  <2> QED  BY <2>1, <2>2, <2>3, <2>4
<1>4. ASSUME CheckNonce(s)
      PROVE  work'[s] = Idle \/ (UNCHANGED <<base, late>> /\ BeginsWrites(s))
  <2>1. CASE AnswerNonce(s, Nonce(Resolve(work[s].asked), work[s].data))
    BY <2>1 DEF AnswerNonce, Finish
  <2>2. CASE /\ SameNonce(Nonce(Resolve(work[s].asked), work[s].data), work[s].submitted)
             /\ work' = [work EXCEPT ![s].phase = "audit", ![s].period = Resolve(work[s].asked)]
    <3>1. work'[s] = [work[s] EXCEPT !.phase = "audit", !.period = Resolve(work[s].asked)]
      BY <2>2
    <3> QED  BY <1>4, <2>2, <3>1 DEF CheckNonce, SameNonce, BeginsWrites
  <2> QED  BY <1>4, <2>1, <2>2 DEF CheckNonce
<1>5. ASSUME ReadStep(s)
      PROVE  \/ work'[s] = Idle
             \/ UNCHANGED <<base, late>> /\ (Reads(s) \/ BeginsWrites(s))
  BY <1>3, <1>4, <1>5 DEF ReadStep, Refuse, AnswerEmpty, AnswerPlan, AnswerNonce, Finish
<1>6. ASSUME WriteSucceeds(s)
      PROVE  work'[s] = Idle \/ (UNCHANGED late /\ AuditWritten(s))
  <2>1. CASE LastCommand(s)
    BY <1>6, <2>1 DEF WriteSucceeds, Finish
  <2>2. CASE ~LastCommand(s)
    <3>1. work[s].phase = "audit" /\ TargetTable(s) = "audits"
      BY <1>6, <2>2 DEF WriteSucceeds, Writing, LastCommand, TargetTable
    <3>2. work'[s] = [work[s] EXCEPT !.phase = "report"]
      BY <1>6, <2>2 DEF WriteSucceeds
    <3> QED  BY <1>6, <3>1, <3>2 DEF WriteSucceeds, AuditWritten
  <2> QED  BY <2>1, <2>2
<1>7. ASSUME WriteFails(s) \/ WriteTimesOut(s) \/ Crash(s)
      PROVE  work'[s] = Idle
  BY <1>7 DEF WriteFails, WriteTimesOut, Crash, Finish
<1>8. ASSUME NEW x \in late, LateArrives(x)
      PROVE  work'[s] = work[s]
  BY <1>8 DEF LateArrives
<1>9. ASSUME NEW table, EditTable(table)
      PROVE  work'[s] = work[s]
  BY <1>9 DEF EditTable
<1>10. CASE Midnight \/ UNCHANGED vars
  BY <1>10 DEF Midnight, vars
<1> QED
  BY <1>1, <1>2, <1>5, <1>6, <1>7, <1>8, <1>9, <1>10 DEF Next, WriteStep

(* The fields of a server's work that these steps set.                      *)
LEMMA StartsEffect ==
  ASSUME NEW s \in Servers, Starts(s)
  PROVE  /\ work'[s].data = NoData
         /\ work'[s].read = 0
         /\ work'[s].phase \in {"plan", "execute"}
         /\ work'[s].phase = "execute" =>
              /\ work'[s].submitted \in answered \cup {NoNonce}
              /\ work'[s].start = View(base)
              /\ work'[s].startRows = base.audits
<1>1. ASSUME NEW asked \in Asked,
             work'[s] = [Idle EXCEPT !.phase = "plan", !.period = Resolve(asked)]
      PROVE  work'[s].data = NoData /\ work'[s].read = 0 /\ work'[s].phase = "plan"
  BY <1>1 DEF Idle
<1>2. ASSUME NEW asked \in Asked, NEW submitted \in answered \cup {NoNonce},
             work'[s] = [Idle EXCEPT !.phase = "execute", !.asked = asked,
                                     !.submitted = submitted, !.start = View(base),
                                     !.startRows = base.audits]
      PROVE  /\ work'[s].data = NoData /\ work'[s].read = 0 /\ work'[s].phase = "execute"
             /\ work'[s].submitted = submitted
             /\ work'[s].start = View(base) /\ work'[s].startRows = base.audits
  BY <1>2 DEF Idle
<1> QED  BY <1>1, <1>2 DEF Starts

LEMMA ReadsEffect ==
  ASSUME TypeOK, NEW s \in Servers, Reads(s)
  PROVE  /\ work[s].phase \in {"plan", "execute"}
         /\ work'[s].phase = work[s].phase
         /\ work'[s].submitted = work[s].submitted
         /\ work'[s].start = work[s].start
         /\ work'[s].startRows = work[s].startRows
         /\ \/ /\ work[s].read = 0 /\ work'[s].read = 1
               /\ work'[s].data = [work[s].data EXCEPT !.candidates = base.candidates]
            \/ /\ work[s].read = 1 /\ work'[s].read = 2
               /\ work'[s].data = [work[s].data EXCEPT !.evaluations = base.evaluations]
            \/ /\ work[s].read = 2 /\ work'[s].read = 3
               /\ work'[s].data = [work[s].data EXCEPT !.runs = base.runs,
                                                       !.audits = Returned(base.audits)]
<1> DEFINE w == work[s]
<1>1. w \in Working
  BY DEF TypeOK
<1>2. CASE w.read = 0 /\ work'[s] = [w EXCEPT !.read = 1, !.data.candidates = base.candidates]
  BY <1>1, <1>2 DEF Reads, Working
<1>3. CASE w.read = 1 /\ work'[s] = [w EXCEPT !.read = 2, !.data.evaluations = base.evaluations]
  BY <1>1, <1>3 DEF Reads, Working
<1>4. CASE w.read = 2 /\ work'[s] = [w EXCEPT !.read = 3, !.data.runs = base.runs,
                                              !.data.audits = Returned(base.audits)]
  BY <1>1, <1>4 DEF Reads, Working
<1> QED  BY <1>2, <1>3, <1>4 DEF Reads

LEMMA WritesEffect ==
  ASSUME TypeOK, NEW s \in Servers, BeginsWrites(s) \/ AuditWritten(s)
  PROVE  /\ work'[s].phase = IF work[s].phase = "audit" THEN "report" ELSE "audit"
         /\ work'[s].data = work[s].data
         /\ work'[s].start = work[s].start
         /\ work'[s].startRows = work[s].startRows
<1>1. work[s] \in Working
  BY DEF TypeOK
<1>2. CASE BeginsWrites(s)
  BY <1>1, <1>2 DEF BeginsWrites, Working
<1>3. CASE AuditWritten(s)
  BY <1>1, <1>3 DEF AuditWritten, Working
<1> QED  BY <1>2, <1>3

-----------------------------------------------------------------------------
(* The tables only grow: what a read returned stays below what the tables   *)
(* hold, and rows stay where they are.                                      *)

AtMost(d, e) ==
  /\ d.candidates <= e.candidates
  /\ d.evaluations <= e.evaluations
  /\ d.runs <= e.runs
  /\ d.audits <= e.audits

LEMMA AtMostTransitive ==
  ASSUME NEW d \in Data, NEW e \in Data, NEW f \in Data, AtMost(d, e), AtMost(e, f)
  PROVE  AtMost(d, f)
BY DEF AtMost, Data, Versions

LEMMA AtMostSame ==
  ASSUME NEW d \in Data
  PROVE  AtMost(d, d) /\ AtMost(NoData, d)
BY DEF AtMost, Data, Versions, NoData, NoNonce

LEMMA AtMostBoth ==
  ASSUME NEW d \in Data, NEW e \in Data, AtMost(d, e), AtMost(e, d)
  PROVE  d = e
BY DEF AtMost, Data, Versions

Prefix(rows, more) ==
  /\ Len(rows) <= Len(more)
  /\ \A j \in 1..Len(rows) : more[j] = rows[j]

LEMMA AppendPrefix ==
  ASSUME NEW rows \in Seq(Row), NEW row \in Row
  PROVE  /\ Prefix(rows, Append(rows, row))
         /\ Prefix(rows, rows)
         /\ Append(rows, row) \in Seq(Row)
         /\ Len(Append(rows, row)) = Len(rows) + 1
         /\ Append(rows, row)[Len(rows) + 1] = row
         /\ \A j \in 1..Len(rows) : Append(rows, row)[j] = rows[j]
BY AppendProperties DEF Prefix

LEMMA ReturnedGrows ==
  ASSUME NEW rows \in Seq(Row), NEW more \in Seq(Row), Prefix(rows, more)
  PROVE  Returned(rows) <= Returned(more)
BY DEF Prefix, Returned

LEMMA TablesGrow ==
  ASSUME TypeOK, TypeOK', [Next]_vars
  PROVE  /\ AtMost(View(base), View(base'))
         /\ Prefix(base.audits, base'.audits)
         /\ Prefix(base.reports, base'.reports)
<1>1. /\ base \in BaseType /\ base' \in BaseType
      /\ View(base) \in Data /\ View(base') \in Data
      /\ base.audits \in Seq(Row) /\ base.reports \in Seq(Row)
      /\ base'.audits \in Seq(Row) /\ base'.reports \in Seq(Row)
  BY ViewTyped DEF TypeOK, BaseType
<1>2. ASSUME /\ base.candidates <= base'.candidates
             /\ base.evaluations <= base'.evaluations
             /\ base.runs <= base'.runs
             /\ Prefix(base.audits, base'.audits)
      PROVE  AtMost(View(base), View(base'))
  BY <1>1, <1>2, ReturnedGrows DEF AtMost, View
<1>3. \A d \in {base.candidates, base.evaluations, base.runs} : d <= d /\ d <= d + 1
  BY <1>1 DEF BaseType, Versions
<1>4. ASSUME NEW table \in {"audits", "reports"}, NEW row \in Row, Apply(table, row)
      PROVE  /\ AtMost(View(base), View(base'))
             /\ Prefix(base.audits, base'.audits)
             /\ Prefix(base.reports, base'.reports)
  <2>1. /\ base'.candidates = base.candidates
        /\ base'.evaluations = base.evaluations
        /\ base'.runs = base.runs
    BY <1>1, <1>4, ApplyEffect
  <2>2. /\ base'.audits \in {base.audits, Append(base.audits, row)}
        /\ base'.reports \in {base.reports, Append(base.reports, row)}
    BY <1>1, <1>4, ApplyEffect
  <2>3. /\ Prefix(base.audits, base.audits)
        /\ Prefix(base.audits, Append(base.audits, row))
        /\ Prefix(base.reports, base.reports)
        /\ Prefix(base.reports, Append(base.reports, row))
    BY <1>1, AppendPrefix
  <2>4. Prefix(base.audits, base'.audits) /\ Prefix(base.reports, base'.reports)
    BY <2>2, <2>3
  <2> QED  BY <1>2, <1>3, <2>1, <2>4
<1>5. CASE UNCHANGED base
  BY <1>1, <1>5, AtMostSame, AppendPrefix, RowTyped DEF Prefix
<1>6. ASSUME NEW s \in Servers, Served(s)
      PROVE  /\ AtMost(View(base), View(base'))
             /\ Prefix(base.audits, base'.audits)
             /\ Prefix(base.reports, base'.reports)
  BY <1>4, <1>6, TargetTyped, RowTyped DEF Served
<1>7. ASSUME NEW x \in late, LateArrives(x)
      PROVE  /\ AtMost(View(base), View(base'))
             /\ Prefix(base.audits, base'.audits)
             /\ Prefix(base.reports, base'.reports)
  BY <1>4, <1>7 DEF LateArrives, TypeOK, LateRequest
<1>8. ASSUME NEW table \in {"candidates", "evaluations", "runs"}, Edited(table)
      PROVE  /\ AtMost(View(base), View(base'))
             /\ Prefix(base.audits, base'.audits)
             /\ Prefix(base.reports, base'.reports)
  <2>1. base'.audits = base.audits /\ base'.reports = base.reports
    BY <1>1, <1>8 DEF Edited, BaseType
  <2>2. /\ base'.candidates \in {base.candidates, base.candidates + 1}
        /\ base'.evaluations \in {base.evaluations, base.evaluations + 1}
        /\ base'.runs \in {base.runs, base.runs + 1}
    <3>1. CASE table = "candidates"
      BY <1>1, <1>8, <3>1 DEF Edited, BaseType
    <3>2. CASE table = "evaluations"
      BY <1>1, <1>8, <3>2 DEF Edited, BaseType
    <3>3. CASE table = "runs"
      BY <1>1, <1>8, <3>3 DEF Edited, BaseType
    <3> QED  BY <3>1, <3>2, <3>3
  <2> QED  BY <1>1, <1>2, <1>3, <2>1, <2>2 DEF Prefix
<1> QED  BY <1>5, <1>6, <1>7, <1>8, TablesStep DEF LeftBehind

-----------------------------------------------------------------------------
(* All that servers have read, answered with or left under way is about     *)
(* contents that the tables have had.                                       *)
PastInv ==
  /\ \A n \in answered : AtMost(n.data, View(base))
  /\ \A s \in Servers : AtMost(work[s].data, View(base))
  /\ \A x \in late : AtMost(x.row.nonce.data, View(base))

(* The nonce a server answers with is about the data it has read.           *)
LEMMA AnsweredStep ==
  ASSUME TypeOK, [Next]_vars, NEW n \in answered'
  PROVE  n \in answered \/ \E s \in Servers : n.data = work[s].data
<1> USE DEF TypeOK
<1>1. ASSUME NEW s \in Servers, NEW period, AnswerNonce(s, Nonce(period, work[s].data))
      PROVE  n \in answered \/ n.data = work[s].data
  BY <1>1 DEF AnswerNonce, Nonce
<1>2. ASSUME NEW s \in Servers, RequestStep(s) \/ WriteStep(s) \/ Crash(s)
      PROVE  n \in answered
  BY <1>2 DEF RequestStep, RequestPlan, RequestExecution, Begin, WriteStep, WriteSucceeds,
              WriteFails, WriteTimesOut, Crash
<1>3. ASSUME NEW s \in Servers, ReadStep(s)
      PROVE  n \in answered \/ n.data = work[s].data
  BY <1>1, <1>3 DEF ReadStep, Refuse, ReadTable, AnswerEmpty, AnswerPlan, CheckNonce
<1> QED
  BY <1>2, <1>3 DEF Next, LateArrives, EditTable, Midnight, vars

LEMMA InitPast == Init => PastInv
<1> SUFFICES ASSUME Init PROVE PastInv
  OBVIOUS
<1>1. View(base) \in Data
  BY InitTyped, ViewTyped DEF TypeOK
<1> QED  BY <1>1, AtMostSame DEF Init, PastInv, Idle

LEMMA NextPast == TypeOK /\ TypeOK' /\ PastInv /\ [Next]_vars => PastInv'
<1> SUFFICES ASSUME TypeOK, TypeOK', PastInv, [Next]_vars PROVE PastInv'
  OBVIOUS
<1>1. /\ View(base) \in Data /\ View(base') \in Data
      /\ AtMost(View(base), View(base'))
  BY ViewTyped, TablesGrow DEF TypeOK
<1>2. \A s \in Servers : work[s].data \in Data /\ work'[s].data \in Data
  BY DEF TypeOK, Working
<1>3. \A s \in Servers : AtMost(work[s].data, View(base'))
  BY <1>1, <1>2, AtMostTransitive DEF PastInv
<1>4. \A n \in answered' : AtMost(n.data, View(base'))
  <2> TAKE n \in answered'
  <2>1. CASE n \in answered
    <3>1. n.data \in Data
      BY <2>1 DEF TypeOK, Nonces
    <3> QED  BY <1>1, <2>1, <3>1, AtMostTransitive DEF PastInv
  <2>2. CASE \E s \in Servers : n.data = work[s].data
    BY <1>3, <2>2
  <2> QED  BY <2>1, <2>2, AnsweredStep
<1>5. \A s \in Servers : AtMost(work'[s].data, View(base'))
  <2> TAKE s \in Servers
  <2>1. CASE work'[s] = work[s]
    BY <1>3, <2>1
  <2>2. CASE work'[s] = Idle \/ Starts(s)
    <3>1. work'[s].data = NoData
      BY <2>2, StartsEffect DEF Idle
    <3> QED  BY <1>1, <3>1, AtMostSame
  <2>3. CASE UNCHANGED base /\ Reads(s)
    <3>1. work[s].data \in Data /\ AtMost(work[s].data, View(base))
      BY <1>2 DEF PastInv
    <3>2. AtMost(View(base), View(base))
      BY <1>1, AtMostSame
    <3>3. AtMost(work'[s].data, View(base))
      BY <2>3, <3>1, <3>2, ReadsEffect DEF AtMost, View, Data
    <3> QED  BY <2>3, <3>3
  <2>4. CASE BeginsWrites(s) \/ AuditWritten(s)
    <3>1. work'[s].data = work[s].data
      BY <2>4, WritesEffect
    <3> QED  BY <1>3, <3>1
  <2> QED  BY <2>1, <2>2, <2>3, <2>4, ServerStep
<1>6. \A x \in late' : AtMost(x.row.nonce.data, View(base'))
  <2> TAKE x \in late'
  <2>1. CASE x \in late
    <3>1. x.row.nonce.data \in Data
      BY <2>1 DEF TypeOK, LateRequest, Row, Nonces
    <3> QED  BY <1>1, <2>1, <3>1, AtMostTransitive DEF PastInv
  <2>2. ASSUME NEW s \in Servers, x = [table |-> TargetTable(s), row |-> RowOf(s)]
        PROVE  AtMost(x.row.nonce.data, View(base'))
    BY <1>3, <2>2 DEF RowOf, Nonce
  <2> QED  BY <2>1, <2>2, TablesStep DEF Served, LeftBehind, LateArrives, Edited
<1> QED  BY <1>4, <1>5, <1>6 DEF PastInv

(* An audit row stands behind all the rows its report has read of.          *)
Behind(rows) == \A j \in 1..Len(rows) : rows[j].nonce.data.audits < j

LEMMA AppendBehind ==
  ASSUME NEW rows \in Seq(Row), NEW row \in Row, Behind(rows),
         row.nonce.data.audits <= Returned(rows)
  PROVE  Behind(Append(rows, row))
<1>1. row.nonce.data.audits \in Nat /\ Returned(rows) \in Nat /\ Returned(rows) <= Len(rows)
  BY ReturnedTyped DEF Row, Nonces, Data
<1>2. row.nonce.data.audits < Len(rows) + 1
  BY <1>1
<1>3. ASSUME NEW j \in 1..Len(Append(rows, row))
      PROVE  Append(rows, row)[j].nonce.data.audits < j
  <2>1. CASE j = Len(rows) + 1
    BY <1>2, <2>1, AppendPrefix
  <2>2. CASE j \in 1..Len(rows)
    BY <2>2, AppendPrefix DEF Behind
  <2> QED  BY <1>3, <2>1, <2>2, AppendPrefix
<1> QED  BY <1>3 DEF Behind

LEMMA NextBehind ==
  TypeOK /\ PastInv /\ Behind(base.audits) /\ [Next]_vars => Behind(base'.audits)
<1> SUFFICES ASSUME TypeOK, PastInv, Behind(base.audits), [Next]_vars
             PROVE  Behind(base'.audits)
  OBVIOUS
<1>1. base \in BaseType /\ base.audits \in Seq(Row)
  BY DEF TypeOK, BaseType
<1>2. ASSUME NEW table \in {"audits", "reports"}, NEW row \in Row, Apply(table, row),
             AtMost(row.nonce.data, View(base))
      PROVE  Behind(base'.audits)
  <2>1. row.nonce.data.audits <= Returned(base.audits)
    BY <1>2 DEF AtMost, View
  <2>2. base'.audits \in {base.audits, Append(base.audits, row)}
    BY <1>1, <1>2, ApplyEffect
  <2>3. Behind(Append(base.audits, row))
    BY <1>1, <2>1, AppendBehind
  <2> QED  BY <2>2, <2>3
<1>3. ASSUME NEW s \in Servers, Served(s)
      PROVE  Behind(base'.audits)
  <2>1. RowOf(s).nonce.data = work[s].data
    BY DEF RowOf, Nonce
  <2> QED  BY <1>2, <1>3, <2>1, TargetTyped, RowTyped DEF Served, PastInv
<1>4. ASSUME NEW x \in late, LateArrives(x)
      PROVE  Behind(base'.audits)
  BY <1>2, <1>4 DEF LateArrives, PastInv, TypeOK, LateRequest
<1>5. ASSUME NEW table \in {"candidates", "evaluations", "runs"}, Edited(table)
      PROVE  base'.audits = base.audits
  BY <1>1, <1>5 DEF Edited, BaseType
<1> QED  BY <1>3, <1>4, <1>5, TablesStep DEF LeftBehind

-----------------------------------------------------------------------------
(* An execution: the nonce it was sent is about contents from before it     *)
(* came, what it has read is from after, and when it writes the two are one.*)

Executing(s) == work[s].phase \in {"execute", "audit", "report"}

ReadSince(w) ==
  /\ w.read >= 1 => w.start.candidates <= w.data.candidates
  /\ w.read >= 2 => w.start.evaluations <= w.data.evaluations
  /\ w.read >= 3 => w.start.runs <= w.data.runs /\ w.start.audits <= w.data.audits

ExecutionInv ==
  \A s \in Servers :
    LET w == work[s]
    IN /\ w.phase = "execute" => AtMost(w.submitted.data, w.start) /\ ReadSince(w)
       /\ Writing(s) => w.data = w.start
       /\ Executing(s) =>
            /\ w.start.audits = Returned(w.startRows)
            /\ Behind(w.startRows)
            /\ AtMost(w.start, View(base))

LEMMA InitExecution == Init => ExecutionInv
BY DEF Init, ExecutionInv, Executing, Writing, Idle

LEMMA NextExecution ==
  TypeOK /\ TypeOK' /\ PastInv /\ Behind(base.audits) /\ ExecutionInv /\ [Next]_vars
    => ExecutionInv'
<1> SUFFICES ASSUME TypeOK, TypeOK', PastInv, Behind(base.audits), ExecutionInv, [Next]_vars,
                    NEW s \in Servers
             PROVE  LET w == work'[s]
                    IN /\ w.phase = "execute" => AtMost(w.submitted.data, w.start) /\ ReadSince(w)
                       /\ w.phase \in {"audit", "report"} => w.data = w.start
                       /\ w.phase \in {"execute", "audit", "report"} =>
                            /\ w.start.audits = Returned(w.startRows)
                            /\ Behind(w.startRows)
                            /\ AtMost(w.start, View(base'))
  BY DEF ExecutionInv, Executing, Writing
<1>1. /\ View(base) \in Data /\ View(base') \in Data
      /\ AtMost(View(base), View(base'))
  BY ViewTyped, TablesGrow DEF TypeOK
<1>2. work[s] \in Working /\ work[s].data \in Data /\ work[s].start \in Data
      /\ work[s].submitted.data \in Data
  BY DEF TypeOK, Working, Nonces
<1>3. Executing(s) => AtMost(work[s].start, View(base'))
  BY <1>1, <1>2, AtMostTransitive DEF ExecutionInv
<1>4. CASE work'[s] = work[s]
  BY <1>3, <1>4 DEF ExecutionInv, Executing, Writing
<1>5. CASE work'[s] = Idle
  BY <1>5 DEF Idle
<1>6. CASE UNCHANGED <<base, late>> /\ Starts(s)
  <2>1. CASE work'[s].phase = "execute"
    <3>1. AtMost(work'[s].submitted.data, View(base))
      BY <1>1, <1>6, <2>1, StartsEffect, AtMostSame DEF PastInv, NoNonce, NoData
    <3>2. View(base).audits = Returned(base.audits)
      BY DEF View
    <3>3. AtMost(View(base), View(base))
      BY <1>1, AtMostSame
    <3> QED  BY <1>6, <2>1, <3>1, <3>2, <3>3, StartsEffect DEF ReadSince
  <2> QED  BY <1>6, <2>1, StartsEffect
<1>7. CASE UNCHANGED <<base, late>> /\ Reads(s)
  <2>1. CASE work[s].phase = "execute"
    <3>1. AtMost(work[s].start, View(base)) /\ ReadSince(work[s])
      BY <2>1 DEF ExecutionInv, Executing
    <3>2. ReadSince(work'[s])
      <4>1. /\ work[s].start.candidates <= base.candidates
            /\ work[s].start.evaluations <= base.evaluations
            /\ work[s].start.runs <= base.runs
            /\ work[s].start.audits <= Returned(base.audits)
        BY <3>1 DEF AtMost, View
      <4>2. work'[s].start = work[s].start
        BY <1>7, ReadsEffect
      <4>3. CASE /\ work[s].read = 0 /\ work'[s].read = 1
                 /\ work'[s].data = [work[s].data EXCEPT !.candidates = base.candidates]
        <5>1. work'[s].data.candidates = base.candidates
          BY <1>2, <4>3 DEF Data
        <5> QED  BY <4>1, <4>2, <4>3, <5>1 DEF ReadSince
      <4>4. CASE /\ work[s].read = 1 /\ work'[s].read = 2
                 /\ work'[s].data = [work[s].data EXCEPT !.evaluations = base.evaluations]
        <5>1. /\ work'[s].data.evaluations = base.evaluations
              /\ work'[s].data.candidates = work[s].data.candidates
          BY <1>2, <4>4 DEF Data
        <5> QED  BY <3>1, <4>1, <4>2, <4>4, <5>1 DEF ReadSince
      <4>5. CASE /\ work[s].read = 2 /\ work'[s].read = 3
                 /\ work'[s].data = [work[s].data EXCEPT !.runs = base.runs,
                                                         !.audits = Returned(base.audits)]
        <5>1. /\ work'[s].data.runs = base.runs
              /\ work'[s].data.audits = Returned(base.audits)
              /\ work'[s].data.candidates = work[s].data.candidates
              /\ work'[s].data.evaluations = work[s].data.evaluations
          BY <1>2, <4>5 DEF Data
        <5> QED  BY <3>1, <4>1, <4>2, <4>5, <5>1 DEF ReadSince
      <4> QED  BY <1>7, <4>3, <4>4, <4>5, ReadsEffect
    <3>3. AtMost(work[s].submitted.data, work[s].start)
      BY <2>1 DEF ExecutionInv
    <3>4. /\ work[s].start.audits = Returned(work[s].startRows)
          /\ Behind(work[s].startRows)
      BY <2>1 DEF ExecutionInv, Executing
    <3> QED  BY <1>3, <1>7, <2>1, <3>2, <3>3, <3>4, ReadsEffect DEF Executing
  <2> QED  BY <1>7, <2>1, ReadsEffect
<1>8. CASE BeginsWrites(s) \/ AuditWritten(s)
  <2>1. work[s].data = work[s].start
    <3>1. CASE AuditWritten(s)
      BY <3>1 DEF AuditWritten, ExecutionInv, Writing
    <3>2. CASE BeginsWrites(s)
      <4>1. work[s].submitted.data = work[s].data
        BY <3>2 DEF BeginsWrites, Nonce
      <4>2. AtMost(work[s].submitted.data, work[s].start) /\ ReadSince(work[s])
        BY <3>2 DEF BeginsWrites, ExecutionInv
      <4>3. AtMost(work[s].start, work[s].data)
        BY <3>2, <4>2 DEF BeginsWrites, ReadSince, AtMost
      <4> QED  BY <1>2, <4>1, <4>2, <4>3, AtMostBoth
    <3> QED  BY <1>8, <3>1, <3>2
  <2>2. Executing(s)
    BY <1>8 DEF BeginsWrites, AuditWritten, Executing
  <2>3. work'[s].phase \in {"audit", "report"}
    BY <1>8, WritesEffect
  <2>4. /\ work'[s].data = work[s].data
        /\ work'[s].start = work[s].start
        /\ work'[s].startRows = work[s].startRows
    BY <1>8, WritesEffect
  <2>5. /\ work[s].start.audits = Returned(work[s].startRows)
        /\ Behind(work[s].startRows)
    BY <2>2 DEF ExecutionInv
  <2> QED  BY <1>3, <2>1, <2>2, <2>3, <2>4, <2>5
<1> QED  BY <1>4, <1>5, <1>6, <1>7, <1>8, ServerStep

(* What is written is about what the three tables held together when the    *)
(* execution came.                                                          *)
LEMMA ExecutionOfOneMoment == ExecutionInv => ReportOfOneMoment
BY DEF ExecutionInv, ReportOfOneMoment

(* A server that writes finds no row of its nonce among those it began on.  *)
LEMMA ExecutionSpends == TypeOK /\ ExecutionInv => NonceSpentByAudit
<1> SUFFICES ASSUME TypeOK, ExecutionInv, NEW s \in Servers, Writing(s),
                    WithinLimit(RowOf(s).nonce),
                    NEW j \in RowsOf(work[s].startRows, RowOf(s).nonce)
             PROVE  FALSE
  BY DEF NonceSpentByAudit
<1> DEFINE w == work[s]
<1>1. w.startRows \in Seq(Row) /\ w.data \in Data
  BY DEF TypeOK, Working
<1>2. /\ w.data = w.start
      /\ w.start.audits = Returned(w.startRows)
      /\ Behind(w.startRows)
  BY DEF ExecutionInv, Writing, Executing
<1>3. RowOf(s).nonce.data = w.data
  BY DEF RowOf, Nonce
<1>4. w.data.audits < ReadLimit
  BY <1>3 DEF WithinLimit
<1>5. w.data.audits = Len(w.startRows)
  BY <1>1, <1>2, <1>4 DEF Returned
<1>6. /\ j \in 1..Len(w.startRows)
      /\ w.startRows[j].nonce.data.audits = w.data.audits
  BY <1>3 DEF RowsOf
<1>7. w.data.audits < j
  BY <1>2, <1>6 DEF Behind
<1> QED  BY <1>1, <1>5, <1>6, <1>7

-----------------------------------------------------------------------------
ReadInv == TypeOK /\ PastInv /\ Behind(base.audits) /\ ExecutionInv

LEMMA InitRead == Init => ReadInv
<1>1. Init => Behind(base.audits)
  BY DEF Init, Behind
<1> QED  BY <1>1, InitTyped, InitPast, InitExecution DEF ReadInv

LEMMA NextRead == ReadInv /\ [Next]_vars => ReadInv'
BY NextTyped, NextPast, NextBehind, NextExecution DEF ReadInv

(* The inductive invariant of the reads.                                    *)
THEOREM ReadsHold == Spec => []ReadInv
BY InitRead, NextRead, PTL DEF Spec

(* No report is written on a mixture of three moments: what was read for    *)
(* the plan and again for the execution is what the tables held together.   *)
THEOREM ReportsOfOneMoment == Spec => []ReportOfOneMoment
<1>1. ReadInv => ReportOfOneMoment
  BY ExecutionOfOneMoment DEF ReadInv
<1> QED  BY <1>1, ReadsHold, PTL

(* The audit row written under a nonce spends it for every later execution, *)
(* as long as a read returns all audit rows.                                *)
THEOREM NoncesSpent == Spec => []NonceSpentByAudit
<1>1. ReadInv => NonceSpentByAudit
  BY ExecutionSpends DEF ReadInv
<1> QED  BY <1>1, ReadsHold, PTL

-----------------------------------------------------------------------------
(* The writes: every report has its audit row, a server writes one report   *)
(* for a nonce, and its answers are true.                                   *)

In(rows, row) == \E j \in 1..Len(rows) : rows[j] = row

LEMMA InPrefix ==
  ASSUME NEW rows, NEW more, NEW row, Len(rows) \in Nat, Len(more) \in Nat,
         Prefix(rows, more), In(rows, row)
  PROVE  In(more, row)
BY DEF In, Prefix

LEMMA InAppend ==
  ASSUME NEW rows \in Seq(Row), NEW row \in Row
  PROVE  /\ In(Append(rows, row), row)
         /\ \A other : In(Append(rows, row), other) => other = row \/ In(rows, other)
<1>1. In(Append(rows, row), row)
  BY AppendPrefix DEF In
<1>2. ASSUME NEW other, In(Append(rows, row), other)
      PROVE  other = row \/ In(rows, other)
  <2>1. PICK j \in 1..Len(rows) + 1 : Append(rows, row)[j] = other
    BY <1>2, AppendPrefix DEF In
  <2>2. CASE j = Len(rows) + 1
    BY <2>1, <2>2, AppendPrefix
  <2>3. CASE j \in 1..Len(rows)
    BY <2>1, <2>3, AppendPrefix DEF In
  <2> QED  BY <2>2, <2>3
<1> QED  BY <1>1, <1>2

(* The reports that are in the Base or may still come through.              *)
Pending(row) == \E x \in late : x.table = "reports" /\ x.row = row

Exists(row) == In(base.reports, row) \/ Pending(row)

-----------------------------------------------------------------------------
(* A report appears only by the step of the server that writes it.          *)

LEMMA TablesTyped ==
  ASSUME TypeOK
  PROVE  /\ base \in BaseType
         /\ base.audits \in Seq(Row) /\ base.reports \in Seq(Row)
         /\ Len(base.audits) \in Nat /\ Len(base.reports) \in Nat
BY DEF TypeOK, BaseType

LEMMA NewReport ==
  ASSUME TypeOK, [Next]_vars, NEW row, Exists(row)'
  PROVE  \/ Exists(row)
         \/ \E s \in Servers : /\ work[s].phase = "report"
                               /\ work'[s] = Idle
                               /\ row = RowOf(s)
<1>1. ASSUME NEW s \in Servers, Served(s)
      PROVE  \/ Exists(row)
             \/ work[s].phase = "report" /\ work'[s] = Idle /\ row = RowOf(s)
  <2>1. CASE In(base'.reports, row)
    <3>1. CASE TargetTable(s) = "audits"
      <4>1. base'.reports = base.reports
        BY <1>1, <3>1, ApplyEffect, RowTyped DEF Served, TypeOK
      <4> QED  BY <2>1, <4>1 DEF Exists
    <3>2. CASE TargetTable(s) = "reports"
      <4>1. base'.reports = Append(base.reports, RowOf(s))
        BY <1>1, <3>2, ApplyEffect, RowTyped DEF Served, TypeOK
      <4>2. row = RowOf(s) \/ In(base.reports, row)
        BY <2>1, <4>1, InAppend, RowTyped, TablesTyped
      <4>3. work[s].phase = "report"
        BY <1>1, <3>2 DEF Served, Writing, TargetTable
      <4> QED  BY <1>1, <4>2, <4>3 DEF Exists, Served
    <3> QED  BY <3>1, <3>2, TargetTyped
  <2>2. CASE Pending(row)'
    BY <1>1, <2>2 DEF Served, Pending, Exists
  <2> QED  BY <2>1, <2>2 DEF Exists
<1>2. ASSUME NEW s \in Servers, LeftBehind(s)
      PROVE  \/ Exists(row)
             \/ work[s].phase = "report" /\ work'[s] = Idle /\ row = RowOf(s)
  <2>1. CASE In(base'.reports, row)
    BY <1>2, <2>1 DEF LeftBehind, Exists
  <2>2. CASE Pending(row)'
    <3>1. PICK x \in late' : x.table = "reports" /\ x.row = row
      BY <2>2 DEF Pending
    <3>2. CASE x \in late
      BY <3>1, <3>2 DEF Pending, Exists
    <3>3. CASE x = [table |-> TargetTable(s), row |-> RowOf(s)]
      BY <1>2, <3>1, <3>3 DEF LeftBehind, Writing, TargetTable
    <3> QED  BY <1>2, <3>2, <3>3 DEF LeftBehind
  <2> QED  BY <2>1, <2>2 DEF Exists
<1>3. ASSUME NEW x \in late, LateArrives(x)
      PROVE  Exists(row)
  <2>1. x.table \in {"audits", "reports"} /\ x.row \in Row
    BY DEF TypeOK, LateRequest
  <2>2. CASE In(base'.reports, row)
    <3>1. CASE x.table = "audits"
      <4>1. base'.reports = base.reports
        BY <1>3, <2>1, <3>1, ApplyEffect DEF LateArrives, TypeOK
      <4> QED  BY <2>2, <4>1 DEF Exists
    <3>2. CASE x.table = "reports"
      <4>1. base'.reports = Append(base.reports, x.row)
        BY <1>3, <2>1, <3>2, ApplyEffect DEF LateArrives, TypeOK
      <4>2. row = x.row \/ In(base.reports, row)
        BY <2>1, <2>2, <4>1, InAppend, TablesTyped
      <4> QED  BY <3>2, <4>2 DEF Exists, Pending
    <3> QED  BY <2>1, <3>1, <3>2
  <2>3. CASE Pending(row)'
    BY <1>3, <2>3 DEF LateArrives, Pending, Exists
  <2> QED  BY <2>2, <2>3 DEF Exists
<1>4. ASSUME NEW table \in {"candidates", "evaluations", "runs"}, Edited(table)
      PROVE  Exists(row)
  <2>1. base'.reports = base.reports
    BY <1>4, TablesTyped DEF Edited, BaseType
  <2> QED  BY <1>4, <2>1 DEF Edited, Exists, Pending
<1>5. CASE UNCHANGED <<base, late>>
  BY <1>5 DEF Exists, Pending
<1> QED  BY <1>1, <1>2, <1>3, <1>4, <1>5, TablesStep

-----------------------------------------------------------------------------
(* The audit row of a report comes first.                                   *)

AuditInv ==
  /\ \A row : Exists(row) => In(base.audits, row)
  /\ \A s \in Servers : work[s].phase = "report" => In(base.audits, RowOf(s))

LEMMA InitAudit == Init => AuditInv
BY DEF Init, AuditInv, Exists, In, Pending, Idle

LEMMA NextAudit == TypeOK /\ TypeOK' /\ AuditInv /\ [Next]_vars => AuditInv'
<1> SUFFICES ASSUME TypeOK, TypeOK', AuditInv, [Next]_vars PROVE AuditInv'
  OBVIOUS
<1>1. \A row : In(base.audits, row) => In(base'.audits, row)
  <2>1. Len(base'.audits) \in Nat
    BY DEF TypeOK, BaseType
  <2> QED  BY <2>1, TablesGrow, TablesTyped, InPrefix
<1>2. ASSUME NEW row, Exists(row)'
      PROVE  In(base'.audits, row)
  BY <1>1, <1>2, NewReport DEF AuditInv
<1>3. ASSUME NEW s \in Servers, work'[s].phase = "report"
      PROVE  In(base'.audits, RowOf(s)')
  <2>1. CASE work'[s] = work[s]
    BY <1>1, <1>3, <2>1 DEF AuditInv, RowOf, Nonce
  <2>2. CASE AuditWritten(s)
    <3>1. work'[s].period = work[s].period /\ work'[s].data = work[s].data
      BY <2>2 DEF AuditWritten, TypeOK, Working
    <3>2. RowOf(s)' = RowOf(s)
      BY <3>1 DEF RowOf
    <3>3. base'.audits = Append(base.audits, RowOf(s))
      BY <2>2, ApplyEffect, RowTyped, TablesTyped DEF AuditWritten
    <3> QED  BY <3>2, <3>3, InAppend, RowTyped, TablesTyped
  <2>3. work'[s] # Idle
    BY <1>3 DEF Idle
  <2>4. ~Starts(s)
    BY <1>3, StartsEffect
  <2>5. ~Reads(s)
    BY <1>3, ReadsEffect
  <2>6. ~BeginsWrites(s)
    BY <1>3, WritesEffect DEF BeginsWrites
  <2> QED  BY <2>1, <2>2, <2>3, <2>4, <2>5, <2>6, ServerStep
<1> QED  BY <1>2, <1>3 DEF AuditInv

-----------------------------------------------------------------------------
(* The reports a server has written before are among the rows its execution *)
(* began on.                                                                *)

KnownInv ==
  \A s \in Servers : \A row :
    Executing(s) /\ Exists(row) /\ row.by = s => In(work[s].startRows, row)

LEMMA InitKnown == Init => KnownInv
BY DEF Init, KnownInv, Executing, Idle

LEMMA NextKnown == TypeOK /\ AuditInv /\ KnownInv /\ [Next]_vars => KnownInv'
<1> SUFFICES ASSUME TypeOK, AuditInv, KnownInv, [Next]_vars, NEW s \in Servers, NEW row,
                    Executing(s)', Exists(row)', row.by = s
             PROVE  In(work'[s].startRows, row)
  BY DEF KnownInv
<1>1. work'[s] # Idle
  BY DEF Executing, Idle
<1>2. Exists(row)
  <2>1. ASSUME NEW r \in Servers, work'[r] = Idle, row = RowOf(r)
        PROVE  FALSE
    BY <1>1, <2>1 DEF RowOf
  <2> QED  BY <2>1, NewReport
<1>3. CASE work'[s] = work[s]
  BY <1>2, <1>3 DEF KnownInv, Executing
<1>4. CASE Starts(s)
  <2>1. work'[s].startRows = base.audits
    BY <1>4, StartsEffect DEF Executing
  <2> QED  BY <1>2, <2>1 DEF AuditInv
<1>5. CASE Reads(s)
  <2>1. work'[s].startRows = work[s].startRows /\ Executing(s)
    BY <1>5, ReadsEffect DEF Executing
  <2> QED  BY <1>2, <2>1 DEF KnownInv
<1>6. CASE BeginsWrites(s) \/ AuditWritten(s)
  <2>1. work'[s].startRows = work[s].startRows
    BY <1>6, WritesEffect
  <2>2. Executing(s)
    BY <1>6 DEF Executing, BeginsWrites, AuditWritten
  <2> QED  BY <1>2, <2>1, <2>2 DEF KnownInv
<1> QED  BY <1>1, <1>3, <1>4, <1>5, <1>6, ServerStep

(* A server that writes has not written, nor left under way, the report it  *)
(* is about to write.                                                       *)
LEMMA ReportIsNew ==
  ASSUME TypeOK, ExecutionInv, KnownInv, NEW s \in Servers, Writing(s),
         WithinLimit(RowOf(s).nonce)
  PROVE  ~Exists(RowOf(s))
<1> SUFFICES ASSUME Exists(RowOf(s)) PROVE FALSE
  OBVIOUS
<1>1. In(work[s].startRows, RowOf(s))
  BY DEF KnownInv, Writing, Executing, RowOf
<1>2. RowsOf(work[s].startRows, RowOf(s).nonce) # {}
  BY <1>1 DEF In, RowsOf
<1> QED  BY <1>2, ExecutionSpends DEF NonceSpentByAudit

-----------------------------------------------------------------------------
(* No report of a nonce stands twice, with the same server's name, and none *)
(* that stands may still come through again.                                *)

OnceInv ==
  /\ \A i, j \in 1..Len(base.reports) :
       base.reports[i] = base.reports[j] /\ WithinLimit(base.reports[i].nonce) => i = j
  /\ \A row : Pending(row) /\ WithinLimit(row.nonce) => ~In(base.reports, row)

LEMMA InitOnce == Init => OnceInv
BY DEF Init, OnceInv, Pending

(* A report that is added and was not there leaves every report unique.     *)
LEMMA AppendOnce ==
  ASSUME TypeOK, OnceInv, NEW row \in Row, Apply("reports", row),
         WithinLimit(row.nonce) => ~In(base.reports, row)
  PROVE  \A i, j \in 1..Len(base'.reports) :
           base'.reports[i] = base'.reports[j] /\ WithinLimit(base'.reports[i].nonce) => i = j
<1> DEFINE n == Len(base.reports)
<1>1. base'.reports = Append(base.reports, row)
  BY TablesTyped, ApplyEffect
<1>2. /\ n \in Nat
      /\ Len(base'.reports) = n + 1
      /\ base'.reports[n + 1] = row
      /\ \A i \in 1..n : base'.reports[i] = base.reports[i]
  BY <1>1, TablesTyped, AppendPrefix
<1>3. WithinLimit(row.nonce) => \A i \in 1..n : base.reports[i] # row
  BY DEF In
<1> HIDE DEF n
<1>4. SUFFICES ASSUME NEW i \in 1..n + 1, NEW j \in 1..n + 1,
                      base'.reports[i] = base'.reports[j],
                      WithinLimit(base'.reports[i].nonce)
               PROVE  i = j
  BY <1>2
<1>5. CASE i = n + 1 /\ j = n + 1
  BY <1>5
<1>6. CASE i = n + 1 /\ j \in 1..n
  BY <1>2, <1>3, <1>4, <1>6
<1>7. CASE i \in 1..n /\ j = n + 1
  BY <1>2, <1>3, <1>4, <1>7
<1>8. CASE i \in 1..n /\ j \in 1..n
  BY <1>2, <1>4, <1>8 DEF OnceInv, n
<1> QED  BY <1>2, <1>5, <1>6, <1>7, <1>8

LEMMA NextOnce ==
  TypeOK /\ ExecutionInv /\ KnownInv /\ OnceInv /\ [Next]_vars => OnceInv'
<1> SUFFICES ASSUME TypeOK, ExecutionInv, KnownInv, OnceInv, [Next]_vars
             PROVE  OnceInv'
  OBVIOUS
<1>1. CASE UNCHANGED base.reports /\ UNCHANGED late
  BY <1>1 DEF OnceInv, Pending
<1>2. ASSUME NEW s \in Servers, Served(s)
      PROVE  OnceInv'
  <2>1. CASE TargetTable(s) = "audits"
    BY <1>1, <1>2, <2>1, ApplyEffect, RowTyped, TablesTyped DEF Served
  <2>2. CASE TargetTable(s) = "reports"
    <3>1. WithinLimit(RowOf(s).nonce) => ~In(base.reports, RowOf(s)) /\ ~Pending(RowOf(s))
      BY <1>2, ReportIsNew DEF Served, Exists
    <3>2. base'.reports = Append(base.reports, RowOf(s)) /\ late' = late
      BY <1>2, <2>2, ApplyEffect, RowTyped, TablesTyped DEF Served
    <3>3. ASSUME NEW row, Pending(row)', WithinLimit(row.nonce)
          PROVE  ~In(base'.reports, row)
      BY <3>1, <3>2, <3>3, InAppend, RowTyped, TablesTyped DEF OnceInv, Pending
    <3> QED  BY <1>2, <2>2, <3>1, <3>3, AppendOnce, RowTyped DEF OnceInv, Served
  <2> QED  BY <2>1, <2>2, TargetTyped
<1>3. ASSUME NEW s \in Servers, LeftBehind(s)
      PROVE  OnceInv'
  <2>1. base'.reports = base.reports
    BY <1>3 DEF LeftBehind
  <2>2. ASSUME NEW row, Pending(row)', WithinLimit(row.nonce)
        PROVE  ~In(base.reports, row)
    <3>1. PICK x \in late' : x.table = "reports" /\ x.row = row
      BY <2>2 DEF Pending
    <3>2. CASE x \in late
      BY <2>2, <3>1, <3>2 DEF OnceInv, Pending
    <3>3. CASE x = [table |-> TargetTable(s), row |-> RowOf(s)]
      BY <1>3, <2>2, <3>1, <3>3, ReportIsNew DEF LeftBehind, Exists
    <3> QED  BY <1>3, <3>2, <3>3 DEF LeftBehind
  <2> QED  BY <2>1, <2>2 DEF OnceInv
<1>4. ASSUME NEW x \in late, LateArrives(x)
      PROVE  OnceInv'
  <2>1. x \in LateRequest /\ x.table \in {"audits", "reports"} /\ x.row \in Row
    BY DEF TypeOK, LateRequest
  <2>2. Apply(x.table, x.row) /\ late' = late \ {x}
    BY <1>4 DEF LateArrives
  <2>3. CASE x.table = "audits"
    <3>1. base'.reports = base.reports
      BY <2>1, <2>2, <2>3, ApplyEffect, TablesTyped
    <3> QED  BY <2>2, <3>1 DEF OnceInv, Pending
  <2>4. CASE x.table = "reports"
    <3>1. WithinLimit(x.row.nonce) => ~In(base.reports, x.row)
      BY <2>4 DEF OnceInv, Pending
    <3>2. base'.reports = Append(base.reports, x.row)
      BY <2>1, <2>2, <2>4, ApplyEffect, TablesTyped
    <3>3. ASSUME NEW row, Pending(row)', WithinLimit(row.nonce)
          PROVE  ~In(base'.reports, row)
      <4>1. PICK y \in late : y # x /\ y.table = "reports" /\ y.row = row
        BY <2>2, <3>3 DEF Pending
      <4>2. y \in LateRequest
        BY DEF TypeOK
      <4>3. row # x.row
        BY <2>1, <2>4, <4>1, <4>2 DEF LateRequest
      <4>4. ~In(base.reports, row)
        BY <3>3, <4>1 DEF OnceInv, Pending
      <4> QED  BY <2>1, <3>2, <4>3, <4>4, InAppend, TablesTyped
    <3> QED  BY <2>1, <2>2, <2>4, <3>1, <3>3, AppendOnce DEF OnceInv
  <2> QED  BY <2>1, <2>3, <2>4
<1>5. ASSUME NEW table \in {"candidates", "evaluations", "runs"}, Edited(table)
      PROVE  OnceInv'
  BY <1>1, <1>5, TablesTyped DEF Edited, BaseType
<1> QED  BY <1>1, <1>2, <1>3, <1>4, <1>5, TablesStep

-----------------------------------------------------------------------------
(* Answers.                                                                 *)

AnswerRow(s) == [nonce |-> reply[s].nonce, by |-> s]

ReplyInv ==
  \A s \in Servers : \A row :
    row = AnswerRow(s) =>
      /\ reply[s].status # "none" => work[s].phase = "idle"
      /\ reply[s].status = "success" => In(base.reports, row)
      /\ reply[s].status = "failed" /\ reply[s].successCount = 0
           /\ WithinLimit(row.nonce) => ~Exists(row)

LEMMA InitReply == Init => ReplyInv
BY DEF Init, ReplyInv, NoReply, Answer

Succeeds(s) ==
  /\ work[s].phase = "report"
  /\ base'.reports = Append(base.reports, RowOf(s))
  /\ work'[s] = Idle
  /\ reply'[s] = Answer("success", RowOf(s).nonce, 2)

Fails(s) ==
  /\ Writing(s)
  /\ work'[s] = Idle
  /\ reply'[s] = Answer("failed", RowOf(s).nonce, Acknowledged(s))

LEMMA ReplyStep ==
  ASSUME TypeOK, [Next]_vars, NEW s \in Servers
  PROVE  \/ reply'[s] = reply[s] /\ (work'[s] = work[s] \/ work[s].phase # "idle")
         \/ reply'[s] = NoReply
         \/ Succeeds(s)
         \/ Fails(s)
<1> USE DEF TypeOK
<1>1. ASSUME NEW r \in Servers, r # s,
             RequestStep(r) \/ ReadStep(r) \/ WriteStep(r) \/ Crash(r)
      PROVE  reply'[s] = reply[s] /\ work'[s] = work[s]
  <2>1. CASE RequestStep(r)
    BY <1>1, <2>1 DEF RequestStep, RequestPlan, RequestExecution, Begin
  <2>2. CASE ReadStep(r)
    BY <1>1, <2>2 DEF ReadStep, Refuse, ReadTable, AnswerEmpty, AnswerPlan, CheckNonce,
                      AnswerNonce, Finish
  <2>3. CASE WriteStep(r) \/ Crash(r)
    BY <1>1, <2>3 DEF WriteStep, WriteSucceeds, WriteFails, WriteTimesOut, Crash, Finish
  <2> QED  BY <1>1, <2>1, <2>2, <2>3
<1>2. ASSUME RequestStep(s)
      PROVE  reply'[s] = NoReply
  BY <1>2 DEF RequestStep, RequestPlan, RequestExecution, Begin
<1>3. ASSUME ReadStep(s)
      PROVE  reply'[s] = NoReply \/ (reply'[s] = reply[s] /\ work[s].phase # "idle")
  BY <1>3 DEF ReadStep, Refuse, ReadTable, AnswerEmpty, AnswerPlan, CheckNonce, AnswerNonce,
              Finish
<1>4. ASSUME WriteSucceeds(s)
      PROVE  Succeeds(s) \/ (reply'[s] = reply[s] /\ work[s].phase # "idle")
  <2>1. CASE LastCommand(s)
    <3>1. work[s].phase = "report" /\ TargetTable(s) = "reports"
      BY <2>1 DEF LastCommand, TargetTable
    <3>2. base'.reports = Append(base.reports, RowOf(s))
      BY <1>4, <3>1, ApplyEffect, RowTyped DEF WriteSucceeds
    <3> QED  BY <1>4, <2>1, <3>1, <3>2 DEF WriteSucceeds, Finish, Succeeds
  <2>2. CASE ~LastCommand(s)
    BY <1>4, <2>2 DEF WriteSucceeds, Writing
  <2> QED  BY <2>1, <2>2
<1>5. ASSUME WriteFails(s) \/ WriteTimesOut(s)
      PROVE  Fails(s)
  BY <1>5 DEF WriteFails, WriteTimesOut, Finish, Fails
<1>6. ASSUME Crash(s)
      PROVE  reply'[s] = NoReply
  BY <1>6 DEF Crash, Finish
<1>7. ASSUME NEW x \in late, LateArrives(x)
      PROVE  reply'[s] = reply[s] /\ work'[s] = work[s]
  BY <1>7 DEF LateArrives
<1>8. ASSUME NEW table, EditTable(table)
      PROVE  reply'[s] = reply[s] /\ work'[s] = work[s]
  BY <1>8 DEF EditTable
<1>9. CASE Midnight \/ UNCHANGED vars
  BY <1>9 DEF Midnight, vars
<1> QED
  BY <1>1, <1>2, <1>3, <1>4, <1>5, <1>6, <1>7, <1>8, <1>9 DEF Next, WriteStep

LEMMA NextReply ==
  TypeOK /\ TypeOK' /\ ExecutionInv /\ KnownInv /\ ReplyInv /\ [Next]_vars => ReplyInv'
<1> SUFFICES ASSUME TypeOK, TypeOK', ExecutionInv, KnownInv, ReplyInv, [Next]_vars,
                    NEW s \in Servers, NEW row, row = AnswerRow(s)'
             PROVE  /\ reply'[s].status # "none" => work'[s].phase = "idle"
                    /\ reply'[s].status = "success" => In(base'.reports, row)
                    /\ reply'[s].status = "failed" /\ reply'[s].successCount = 0
                         /\ WithinLimit(row.nonce) => ~Exists(row)'
  BY DEF ReplyInv, WithinLimit
<1>1. CASE reply'[s] = NoReply
  BY <1>1 DEF NoReply, Answer
<1>2. CASE reply'[s] = reply[s] /\ work[s].phase # "idle"
  BY <1>2 DEF ReplyInv, Reply, TypeOK
<1>3. CASE reply'[s] = reply[s] /\ work'[s] = work[s] /\ work[s].phase = "idle"
  <2>1. row = AnswerRow(s)
    BY <1>3 DEF AnswerRow
  <2>2. In(base.reports, row) => In(base'.reports, row)
    <3>1. Len(base'.reports) \in Nat
      BY DEF TypeOK, BaseType
    <3> QED  BY <3>1, TablesGrow, TablesTyped, InPrefix
  <2>3. Exists(row)' => Exists(row)
    <3>1. ASSUME NEW r \in Servers, work[r].phase = "report", row = RowOf(r)
          PROVE  FALSE
      BY <1>3, <2>1, <3>1 DEF AnswerRow, RowOf
    <3> QED  BY <3>1, NewReport
  <2> QED  BY <1>3, <2>1, <2>2, <2>3 DEF ReplyInv
<1>4. CASE Succeeds(s)
  <2>1. row = RowOf(s)
    BY <1>4 DEF Succeeds, Answer, AnswerRow, RowOf
  <2>2. In(base'.reports, row)
    BY <1>4, <2>1, InAppend, RowTyped, TablesTyped DEF Succeeds
  <2> QED  BY <1>4, <2>2 DEF Succeeds, Answer, Idle
<1>5. CASE Fails(s)
  <2>1. row = RowOf(s)
    BY <1>5 DEF Fails, Answer, AnswerRow, RowOf
  <2>2. ASSUME reply'[s].successCount = 0, WithinLimit(row.nonce), Exists(row)'
        PROVE  FALSE
    <3>1. work[s].phase = "audit"
      BY <1>5, <2>2 DEF Fails, Answer, Acknowledged, Writing
    <3>2. ~Exists(row)
      BY <1>5, <2>1, <2>2, ReportIsNew DEF Fails
    <3>3. PICK r \in Servers : work[r].phase = "report" /\ row = RowOf(r)
      BY <2>2, <3>2, NewReport
    <3>4. r = s
      BY <2>1, <3>3 DEF RowOf
    <3> QED  BY <3>1, <3>3, <3>4
  <2> QED  BY <1>5, <2>2 DEF Fails, Answer, Idle
<1> QED  BY <1>1, <1>2, <1>3, <1>4, <1>5, ReplyStep

-----------------------------------------------------------------------------
(* The strengthened invariant.                                              *)

WriteInv == ReadInv /\ AuditInv /\ KnownInv /\ OnceInv /\ ReplyInv

LEMMA InitWrite == Init => WriteInv
BY InitRead, InitAudit, InitKnown, InitOnce, InitReply DEF WriteInv

LEMMA NextWrite == WriteInv /\ [Next]_vars => WriteInv'
<1> SUFFICES ASSUME WriteInv, [Next]_vars PROVE WriteInv'
  OBVIOUS
<1>1. ReadInv' /\ TypeOK /\ TypeOK' /\ ExecutionInv
  BY NextRead DEF WriteInv, ReadInv
<1> QED  BY <1>1, NextAudit, NextKnown, NextOnce, NextReply DEF WriteInv

(* What holds of the rows, the executions and the answers, step by step.    *)
THEOREM WritesHold == Spec => []WriteInv
BY InitWrite, NextWrite, PTL DEF Spec

(* Every report in the Base has the audit row of its run: the loop writes   *)
(* it first, and it stands when the report's request is sent.               *)
THEOREM ReportsHaveAudits == Spec => []ReportHasAudit
<1>1. AuditInv => ReportHasAudit
  BY DEF AuditInv, Exists, In, ReportHasAudit
<1> QED  BY <1>1, WritesHold, PTL DEF WriteInv

LEMMA AtMostOne ==
  ASSUME NEW S, \A i, j \in S : i = j
  PROVE  Cardinality(S) <= 1
<1>1. CASE S = {}
  BY <1>1, FS_EmptySet
<1>2. CASE S # {}
  <2>1. PICK i \in S : S = {i}
    BY <1>2
  <2>2. Cardinality({i}) = 1
    BY FS_Singleton
  <2> QED  BY <2>1, <2>2
<1> QED  BY <1>1, <1>2

(* A server adds one report for a nonce, whatever was repeated, timed out   *)
(* or arrived late.                                                         *)
THEOREM OneReportForANonce == Spec => []OneReportPerServer
<1>1. ASSUME TypeOK, OnceInv
      PROVE  OneReportPerServer
  <2> SUFFICES ASSUME NEW s \in Servers, NEW n, WithinLimit(n)
               PROVE  Cardinality({i \in RowsOf(base.reports, n) : base.reports[i].by = s}) <= 1
    BY DEF OneReportPerServer
  <2>1. ASSUME NEW i \in RowsOf(base.reports, n), NEW j \in RowsOf(base.reports, n),
               base.reports[i].by = s, base.reports[j].by = s
        PROVE  i = j
    <3>1. i \in 1..Len(base.reports) /\ j \in 1..Len(base.reports)
      BY DEF RowsOf
    <3>2. base.reports[i] \in Row /\ base.reports[j] \in Row
      BY <1>1, <3>1, TablesTyped
    <3>3. base.reports[i] = base.reports[j] /\ WithinLimit(base.reports[i].nonce)
      BY <2>1, <3>2 DEF Row, RowsOf
    <3> QED  BY <1>1, <3>1, <3>3 DEF OnceInv
  <2> QED  BY <2>1, AtMostOne
<1> QED  BY <1>1, WritesHold, PTL DEF WriteInv, ReadInv

(* An answer of success has its report in the Base, and a failure without   *)
(* a success counted has none there and none under way.                     *)
THEOREM AnswersTrue == Spec => []AnswerTruthful
<1>1. ASSUME TypeOK, ReplyInv
      PROVE  AnswerTruthful
  <2> SUFFICES ASSUME NEW s \in Servers
               PROVE  LET mine == {i \in RowsOf(base.reports, reply[s].nonce) :
                                     base.reports[i].by = s}
                      IN  /\ reply[s].status = "success" => mine # {}
                          /\ reply[s].status = "failed" /\ reply[s].successCount = 0
                               /\ WithinLimit(reply[s].nonce) => mine = {}
    BY DEF AnswerTruthful
  <2>1. AnswerRow(s).nonce = reply[s].nonce /\ AnswerRow(s).by = s
    BY DEF AnswerRow
  <2>2. ASSUME reply[s].status = "success"
        PROVE  \E i \in RowsOf(base.reports, reply[s].nonce) : base.reports[i].by = s
    <3>1. PICK i \in 1..Len(base.reports) : base.reports[i] = AnswerRow(s)
      BY <1>1, <2>2 DEF ReplyInv, In
    <3> QED  BY <2>1, <3>1 DEF RowsOf
  <2>3. ASSUME reply[s].status = "failed", reply[s].successCount = 0,
               WithinLimit(reply[s].nonce),
               NEW i \in RowsOf(base.reports, reply[s].nonce), base.reports[i].by = s
        PROVE  FALSE
    <3>1. base.reports[i] = AnswerRow(s)
      <4>1. i \in 1..Len(base.reports) /\ base.reports[i] \in Row
        BY <1>1, <2>3, TablesTyped DEF RowsOf
      <4> QED  BY <2>3, <4>1 DEF AnswerRow, RowsOf, Row
    <3>2. ~In(base.reports, AnswerRow(s))
      BY <1>1, <2>1, <2>3 DEF ReplyInv, Exists
    <3> QED  BY <3>1, <3>2 DEF In, RowsOf
  <2> QED  BY <2>2, <2>3
<1> QED  BY <1>1, WritesHold, PTL DEF WriteInv, ReadInv

=============================================================================
