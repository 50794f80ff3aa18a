------------------------ MODULE MvpOperation_proofs ------------------------
(***************************************************************************)
(* Proofs about MvpOperation, for any number of commands.                  *)
(***************************************************************************)
EXTENDS MvpOperation, TLAPS

USE MvpAssumption

-----------------------------------------------------------------------------
(* A script that has not come to its writes is at its first command.       *)

AtFirst ==
  (script.stage = "plan" \/ (script.stage = "resolve" /\ script.source = "sample")) =>
    script.next = 1

Typed ==
  /\ config \in Config
  /\ script \in Script
  /\ notes \in Notes
  /\ AtFirst

(* What the recovery plan tells of an execution that has come to its writes *)
(* never lets the operator start another.                                   *)

Told == {"completed_successfully", "failed_during_write", "unknown"}

(* Before the first execution comes to its writes there is nothing in the   *)
(* Base and nothing under way.                                              *)
Nothing ==
  /\ runs = 0
  /\ script.stage # "write"
  /\ script.kind = "execute" => 0 < MaxRuns
  /\ written = {} /\ late = {}

(* While it writes, the commands before the next one have been served.      *)
WritingOnce ==
  /\ runs = 1 /\ 0 < MaxRuns
  /\ script.kind = "execute" /\ script.stage = "write"
  /\ script.next \in Commands
  /\ written = {1} \X (1..script.next - 1)
  /\ late = {}

(* Afterwards its audit bounds what has been served and may still be.       *)
Over ==
  /\ runs = 1 /\ 0 < MaxRuns
  /\ script.kind # "execute" /\ script.stage # "write"
  /\ notes.recovery \in Told
  /\ written \cup late \subseteq {1} \X Commands
  /\ notes.recovery # "unknown" =>
       /\ {1} \X (1..notes.likely) \subseteq written
       /\ written \cup late \subseteq {1} \X (1..notes.likely + 1)

OnceInv == Typed /\ (Nothing \/ WritingOnce \/ Over)

LEMMA InitOnce == MvpInit => OnceInv
BY DEF MvpInit, OnceInv, Typed, AtFirst, Nothing, NoScript, Config, Script, Notes,
       Identities, RecoveryStatuses

(* The audits of an execution that has come to its writes.                  *)
LEMMA CompletedPlan ==
  LET audit == Audit("execute", FALSE, 0, CommandCount, 0)
  IN /\ RecoveryStatus(audit) = "completed_successfully"
     /\ LikelyWritten(audit) = CommandCount
BY DEF Audit, RecoveryStatus, LikelyWritten

LEMMA FailedPlan ==
  ASSUME NEW n \in Nat
  PROVE  LET audit == Audit("execute", FALSE, 0, n, 1)
         IN /\ RecoveryStatus(audit) = "failed_during_write"
            /\ LikelyWritten(audit) = n
BY DEF Audit, RecoveryStatus, LikelyWritten

LEMMA BlockedPlan ==
  /\ RecoveryStatus(BlockedAudit) = "blocked_before_write"
  /\ LikelyWritten(BlockedAudit) = 0
BY DEF BlockedAudit, Audit, RecoveryStatus, LikelyWritten

LEMMA NotedPlan ==
  ASSUME NEW note \in Notes, NEW status \in RecoveryStatuses, NEW n \in 0..CommandCount
  PROVE  /\ [note EXCEPT !.recovery = status, !.likely = n] \in Notes
         /\ [note EXCEPT !.recovery = status, !.likely = n]
              = [ready |-> note.ready, safe |-> note.safe, dryRun |-> note.dryRun,
                 recovery |-> status, likely |-> n]
<1>1. [note EXCEPT !.recovery = status, !.likely = n]
        = [ready |-> note.ready, safe |-> note.safe, dryRun |-> note.dryRun,
           recovery |-> status, likely |-> n]
  <2>1. ASSUME NEW new, new = [note EXCEPT !.recovery = status, !.likely = n]
        PROVE  new = [ready |-> note.ready, safe |-> note.safe, dryRun |-> note.dryRun,
                      recovery |-> status, likely |-> n]
    BY <2>1 DEF Notes
  <2>. QED
    BY <2>1, Zenon
<1>2. /\ note.ready \in BOOLEAN /\ note.safe \in BOOLEAN
      /\ note.dryRun \in {0, CommandCount}
  BY DEF Notes
<1>3. [note EXCEPT !.recovery = status, !.likely = n] \in Notes
  BY <1>1, <1>2 DEF Notes
<1>. QED
  BY <1>1, <1>3

LEMMA TwoIdentities == Len(Identities) = 2
BY DEF Identities

(* A script that neither comes to its writes nor is at them leaves what     *)
(* has been served alone.                                                   *)
LEMMA ReadingKeepsOnce ==
  ASSUME OnceInv,
         Reading \/ Resolve \/ ResolveSample \/ Unresolved \/ ReportReadiness \/ ReportDryRun
  PROVE  OnceInv'
<1> USE DEF OnceInv, Typed, AtFirst, Script, Notes
<1>1. CASE Reading
  <2>1. PICK kind \in {"readiness", "dry_run"}, source \in {"sample", "readonly"} :
          Start(kind, source)
    BY <1>1 DEF Reading
  <2>a. script' = [kind |-> kind, source |-> source, stage |-> "resolve", next |-> 1,
                   config |-> config]
    BY <2>1 DEF Start, NoScript
  <2>2. /\ script' \in Script /\ script'.kind = kind /\ script'.stage = "resolve"
        /\ script'.next = 1
    BY <2>a, TwoIdentities
  <2>3. script.kind = "none" /\ UNCHANGED <<config, runs, written, late, notes>>
    BY <2>1 DEF Start
  <2>4. Typed'
    BY <2>2, <2>3
  <2>. QED
    BY <2>2, <2>3, <2>4 DEF Nothing, WritingOnce, Over
<1>2. CASE Resolve
  <2>1. /\ script' \in Script /\ script'.kind = script.kind /\ script'.source = script.source
        /\ script'.stage \in {"resolve", "plan"}
        /\ script'.stage = "plan" => script'.next = 1
    <3>1. CASE script.next < 2
      <4>1. script' = [script EXCEPT !.next = script.next + 1]
        BY <1>2, <3>1, TwoIdentities DEF Resolve
      <4>2. script.next + 1 \in 1..2
        BY <3>1 DEF Commands
      <4>. QED
        BY <1>2, <4>1, <4>2, TwoIdentities DEF Resolve
    <3>2. CASE ~(script.next < 2)
      <4>1. script' = [script EXCEPT !.stage = "plan", !.next = 1]
        BY <1>2, <3>2, TwoIdentities DEF Resolve
      <4>2. script' = [kind |-> script.kind, source |-> script.source, stage |-> "plan",
                       next |-> 1, config |-> script.config]
        BY <4>1
      <4>. QED
        BY <4>2, TwoIdentities
    <3>. QED
      BY <3>1, <3>2
  <2>2. script.source = "readonly" /\ script.stage = "resolve"
        /\ UNCHANGED <<config, runs, written, late, notes>>
    BY <1>2 DEF Resolve
  <2>3. Typed'
    BY <2>1, <2>2
  <2>. QED
    BY <2>1, <2>2, <2>3 DEF Nothing, WritingOnce, Over
<1>3. CASE ResolveSample
  BY <1>3 DEF ResolveSample, Nothing, WritingOnce, Over
<1>4. CASE Unresolved \/ ReportReadiness \/ ReportDryRun
  <2>1. /\ script' = NoScript /\ script.stage # "write"
        /\ UNCHANGED <<config, runs, written, late>>
    BY <1>4 DEF Unresolved, ReportReadiness, ReportDryRun, Ends
  <2>2. /\ notes' \in Notes
        /\ notes'.recovery = notes.recovery /\ notes'.likely = notes.likely
    BY <1>4 DEF Unresolved, ReportReadiness, ReportDryRun
  <2>3. Typed'
    BY <2>1, <2>2 DEF NoScript, Config, Identities
  <2>. QED
    BY <2>1, <2>2, <2>3 DEF Nothing, WritingOnce, Over, NoScript
<1>. QED
  BY <1>1, <1>2, <1>3, <1>4
(* An execution that is blocked has told the operator so, and one that      *)
(* begins its writes is the first.                                          *)
LEMMA PlanKeepsOnce ==
  ASSUME OnceInv, StartExecution \/ ExecutionBlocked \/ BeginWrites
  PROVE  OnceInv'
<1> USE DEF OnceInv, Typed, AtFirst, Script, Notes
<1>1. CASE StartExecution
  <2>1. Nothing
    <3>1. notes.recovery \notin Told /\ script.stage # "write"
      <4>1. script.kind = "none" /\ SafeToRerun(notes.recovery)
        BY <1>1 DEF StartExecution, Start
      <4>. QED
        BY <4>1 DEF SafeToRerun, Told, Nothing, WritingOnce, Over
    <3>. QED
      BY <3>1 DEF WritingOnce, Over
  <2>2. /\ script' = [kind |-> "execute", source |-> "readonly", stage |-> "resolve",
                      next |-> 1, config |-> config]
        /\ runs < MaxRuns
        /\ UNCHANGED <<config, runs, written, late, notes>>
    BY <1>1 DEF StartExecution, Start, NoScript
  <2>3. Typed'
    BY <2>2, TwoIdentities
  <2>. QED
    BY <2>1, <2>2, <2>3 DEF Nothing
<1>2. CASE ExecutionBlocked
  <2>1. Nothing /\ script' = NoScript /\ UNCHANGED <<config, runs, written, late>>
    BY <1>2 DEF ExecutionBlocked, WritingOnce, Over, Ends
  <2>2. notes' = [notes EXCEPT !.recovery = "blocked_before_write", !.likely = 0]
    BY <1>2, BlockedPlan DEF ExecutionBlocked, NoteAudit
  <2>3. notes' \in Notes
    <3> HIDE DEF Notes
    <3>1. notes \in Notes /\ 0 \in 0..CommandCount
      OBVIOUS
    <3>2. "blocked_before_write" \in RecoveryStatuses
      BY DEF RecoveryStatuses
    <3>. QED
      BY <2>2, <3>1, <3>2, NotedPlan
  <2>4. Typed'
    BY <2>1, <2>3, TwoIdentities DEF NoScript, Config
  <2>. QED
    BY <2>1, <2>4 DEF Nothing, NoScript
<1>3. CASE BeginWrites
  <2>1. Nothing /\ script.next = 1
    BY <1>3 DEF BeginWrites, WritingOnce, Over
  <2>2. /\ script' = [script EXCEPT !.stage = "write"] /\ runs' = 1
        /\ UNCHANGED <<config, written, late, notes>>
    BY <1>3, <2>1 DEF BeginWrites, Nothing
  <2>3. /\ script' \in Script /\ script'.kind = "execute" /\ script'.stage = "write"
        /\ script'.next = 1
    BY <1>3, <2>1, <2>2 DEF BeginWrites
  <2>4. 1 \in Commands /\ {1} \X (1..1 - 1) = {}
    BY DEF Commands
  <2>5. WritingOnce'
    BY <1>3, <2>1, <2>2, <2>3, <2>4 DEF BeginWrites, Nothing, WritingOnce, Commands
  <2>. QED
    BY <2>2, <2>3, <2>5
<1>. QED
  BY <1>1, <1>2, <1>3

(* A command that is served, that fails, or at which the script is killed.  *)
LEMMA WritesKeepOnce ==
  ASSUME OnceInv, WritingOnce, WriteSucceeds \/ WriteFails \/ Killed
  PROVE  OnceInv'
<1> USE DEF OnceInv, Typed, AtFirst, Script, Notes
<1> DEFINE n == script.next
<1>n. n \in Commands /\ n \in Nat /\ n >= 1 /\ n <= CommandCount
  BY DEF WritingOnce, Commands
<1>w. /\ runs = 1 /\ 0 < MaxRuns /\ script.kind = "execute" /\ script.stage = "write"
      /\ written = {1} \X (1..n - 1) /\ late = {}
  BY DEF WritingOnce
<1>s. ASSUME script' = NoScript, UNCHANGED <<config, runs>>, notes' \in Notes,
             notes'.recovery \in Told,
             (written \cup late)' \subseteq {1} \X Commands,
             notes'.recovery # "unknown" =>
               /\ {1} \X (1..notes'.likely) \subseteq written'
               /\ (written \cup late)' \subseteq {1} \X (1..notes'.likely + 1)
      PROVE  OnceInv'
  <2>1. Typed'
    BY <1>s, TwoIdentities DEF NoScript, Config
  <2>2. Over'
    BY <1>s, <1>w DEF Over, NoScript
  <2>. QED
    BY <2>1, <2>2
<1>l. ASSUME GiveUp
      PROVE  late' \subseteq {<<1, n>>}
  BY <1>l, <1>w DEF GiveUp
<1>u. ASSUME UNCHANGED written, late' \subseteq {<<1, n>>}
      PROVE  /\ (written \cup late)' \subseteq {1} \X Commands
             /\ (written \cup late)' \subseteq {1} \X (1..n - 1 + 1)
  BY <1>u, <1>w, <1>n DEF Commands
<1>1. CASE WriteSucceeds
  <2>1. /\ written' = written \cup {<<1, n>>} /\ late' = {}
        /\ UNCHANGED <<config, runs>>
    BY <1>1, <1>w DEF WriteSucceeds
  <2>2. written' = {1} \X (1..n)
    BY <2>1, <1>w, <1>n
  <2>3. CASE n < CommandCount
    <3>1. script' = [script EXCEPT !.next = n + 1] /\ UNCHANGED notes
      BY <1>1, <2>3 DEF WriteSucceeds, MoreCommands
    <3>2. n + 1 \in Commands /\ n + 1 - 1 = n
      BY <1>n, <2>3 DEF Commands
    <3>3. /\ script' \in Script /\ script'.kind = "execute" /\ script'.stage = "write"
          /\ script'.next = n + 1
      BY <3>1, <3>2, <1>w
    <3>4. WritingOnce'
      BY <2>1, <2>2, <3>2, <3>3, <1>w DEF WritingOnce, Commands
    <3>. QED
      BY <2>1, <3>1, <3>3, <3>4
  <2>4. CASE ~(n < CommandCount)
    <3>1. n = CommandCount
      BY <2>4, <1>n
    <3>2. script' = NoScript
      BY <1>1, <2>4 DEF WriteSucceeds, MoreCommands, Ends
    <3>3. notes' = [notes EXCEPT !.recovery = "completed_successfully", !.likely = n]
      BY <1>1, <2>4, <3>1, CompletedPlan DEF WriteSucceeds, MoreCommands, NoteAudit
    <3>4. /\ notes' \in Notes /\ notes'.recovery = "completed_successfully"
          /\ notes'.likely = n
      <4> HIDE DEF Notes
      <4>1. notes \in Notes /\ n \in 0..CommandCount
        BY <1>n
      <4>2. "completed_successfully" \in RecoveryStatuses
        BY DEF RecoveryStatuses
      <4>3. /\ notes' \in Notes
            /\ notes' = [ready |-> notes.ready, safe |-> notes.safe, dryRun |-> notes.dryRun,
                         recovery |-> "completed_successfully", likely |-> n]
        BY <3>3, <4>1, <4>2, NotedPlan
      <4>4. notes'.recovery = "completed_successfully" /\ notes'.likely = n
        BY <4>3
      <4>. QED
        BY <4>3, <4>4
    <3>5. /\ written' \cup late' \subseteq {1} \X Commands
          /\ written' \cup late' \subseteq {1} \X (1..n + 1)
      BY <2>1, <2>2, <3>1, <1>n DEF Commands
    <3>. QED
      BY <1>s, <2>1, <2>2, <3>2, <3>4, <3>5 DEF Told
  <2>. QED
    BY <2>3, <2>4
<1>2. CASE WriteFails
  <2>1. /\ script' = NoScript /\ GiveUp /\ UNCHANGED <<config, runs, written>>
    BY <1>2 DEF WriteFails, Ends
  <2>2. notes' = [notes EXCEPT !.recovery = "failed_during_write", !.likely = n - 1]
    <3>1. n - 1 \in Nat
      BY <1>n
    <3> DEFINE audit == Audit("execute", FALSE, 0, n - 1, 1)
    <3>2. /\ RecoveryStatus(audit) = "failed_during_write"
          /\ LikelyWritten(audit) = n - 1
      BY <3>1, FailedPlan
    <3>3. NoteAudit(audit)
      BY <1>2 DEF WriteFails
    <3>. HIDE DEF audit
    <3>. QED
      BY <3>2, <3>3 DEF NoteAudit
  <2>3. /\ notes' \in Notes /\ notes'.recovery = "failed_during_write"
        /\ notes'.likely = n - 1
    <3> HIDE DEF Notes
    <3>1. notes \in Notes /\ n - 1 \in 0..CommandCount
      BY <1>n
    <3>2. "failed_during_write" \in RecoveryStatuses
      BY DEF RecoveryStatuses
    <3>3. /\ notes' \in Notes
          /\ notes' = [ready |-> notes.ready, safe |-> notes.safe, dryRun |-> notes.dryRun,
                       recovery |-> "failed_during_write", likely |-> n - 1]
      BY <2>2, <3>1, <3>2, NotedPlan
    <3>4. notes'.recovery = "failed_during_write" /\ notes'.likely = n - 1
      BY <3>3
    <3>. QED
      BY <3>3, <3>4
  <2>. QED
    BY <1>s, <1>l, <1>u, <1>w, <2>1, <2>3 DEF Told
<1>3. CASE Killed
  <2>1. /\ script' = NoScript /\ GiveUp /\ UNCHANGED <<config, runs, written>>
        /\ notes' = [notes EXCEPT !.recovery = "unknown"]
    BY <1>3, <1>w DEF Killed, Ends
  <2>2. notes' \in Notes /\ notes'.recovery = "unknown"
    BY <2>1
  <2>. QED
    BY <1>s, <1>l, <1>u, <2>1, <2>2 DEF Told
<1>. QED
  BY <1>1, <1>2, <1>3

(* A script that is killed before its writes, a request that comes through  *)
(* late, and what others do.                                                *)
LEMMA OthersKeepOnce ==
  ASSUME OnceInv, ~WritingOnce, Killed \/ LateArrives \/ Surroundings
  PROVE  OnceInv'
<1> USE DEF OnceInv, Typed, AtFirst
<1>1. CASE Killed
  <2>1. /\ script' = NoScript /\ UNCHANGED <<config, runs, written, late, notes>>
    BY <1>1 DEF Killed, Ends, Nothing, Over
  <2>2. Typed'
    BY <2>1, TwoIdentities DEF NoScript, Config, Script
  <2>. QED
    BY <2>1, <2>2 DEF Nothing, Over, NoScript
<1>2. CASE LateArrives
  <2>1. /\ late' \subseteq late /\ late # {} /\ written \subseteq written'
        /\ written' \cup late' \subseteq written \cup late
        /\ UNCHANGED <<config, script, runs, notes>>
    BY <1>2 DEF LateArrives
  <2>2. Over
    BY <2>1 DEF Nothing
  <2>. QED
    BY <2>1, <2>2 DEF Over
<1>3. CASE Surroundings
  BY <1>3 DEF Surroundings, Nothing, Over
<1>. QED
  BY <1>1, <1>2, <1>3

LEMMA NextOnce == OnceInv /\ [MvpNext]_mvpVars => OnceInv'
<1> SUFFICES ASSUME OnceInv, [MvpNext]_mvpVars PROVE OnceInv'
  OBVIOUS
<1>1. CASE Surroundings /\ WritingOnce
  BY <1>1 DEF Surroundings, OnceInv, Typed, AtFirst, WritingOnce, Commands
<1>2. CASE WriteSucceeds \/ WriteFails
  <2>1. WritingOnce
    BY <1>2 DEF WriteSucceeds, WriteFails, OnceInv, Nothing, Over
  <2>. QED
    BY <1>2, <2>1, WritesKeepOnce
<1>3. CASE UNCHANGED mvpVars
  BY <1>3 DEF mvpVars, OnceInv, Typed, AtFirst, Nothing, WritingOnce, Over
<1>4. CASE LateArrives /\ WritingOnce
  BY <1>4 DEF LateArrives, WritingOnce
<1>. QED
  BY <1>1, <1>2, <1>3, <1>4, ReadingKeepsOnce, PlanKeepsOnce, WritesKeepOnce,
     OthersKeepOnce DEF MvpNext, ScriptStep

THEOREM Once == MvpSpec => []OnceInv
BY InitOnce, NextOnce, PTL DEF MvpSpec

-----------------------------------------------------------------------------
LEMMA OneExecution == OnceInv => NoRowTwice
<1> SUFFICES ASSUME OnceInv,
                    NEW run1 \in Runs, NEW run2 \in Runs, run1 # run2,
                    NEW i \in WrittenBy(run1) \cap WrittenBy(run2)
             PROVE  FALSE
  BY DEF NoRowTwice
<1>1. <<run1, i>> \in written /\ <<run2, i>> \in written
  BY DEF WrittenBy
<1>2. \A row \in written : row[1] = 1
  BY DEF OnceInv, Nothing, WritingOnce, Over
<1>. QED
  BY <1>1, <1>2

LEMMA PlanBounds == OnceInv => RecoveryBounds
<1> SUFFICES ASSUME OnceInv, runs > 0, script.stage # "write",
                    notes.recovery \in {"completed_successfully", "failed_during_write"}
             PROVE  /\ 1..notes.likely \subseteq WrittenBy(runs)
                    /\ WrittenBy(runs) \subseteq 1..notes.likely + 1
  BY DEF RecoveryBounds
<1>1. Over /\ notes.likely \in 0..CommandCount
  BY DEF OnceInv, Typed, Notes, Nothing, WritingOnce
<1>2. /\ runs = 1
      /\ {1} \X (1..notes.likely) \subseteq written
      /\ written \subseteq {1} \X (1..notes.likely + 1)
  BY <1>1 DEF Over
<1>3. 1..notes.likely \subseteq Commands
  BY <1>1 DEF Commands
<1>. QED
  BY <1>2, <1>3 DEF WrittenBy

(* What has been served belongs to one execution: a second never comes to   *)
(* its writes, since every recovery plan of the first, and the missing plan *)
(* of one that was killed, forbids the operator to run it again.            *)
THEOREM RowsAreWrittenOnce == MvpSpec => []NoRowTwice
BY OneExecution, Once, PTL

(* The Base has the rows the recovery plan calls likely written, and at     *)
(* most one beside them, for every number of commands and wherever the      *)
(* execution failed.                                                        *)
THEOREM PlanBoundsTheRows == MvpSpec => []RecoveryBounds
BY PlanBounds, Once, PTL
=============================================================================
