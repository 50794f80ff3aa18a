# Verification of the hiring loop

TLA+ models of the part of this repository that decides, plans and writes: the
candidate state machine, the agent pipeline, the two-step live writes to the
Feishu Base and the two-step report, the scripts that set the Base up, import
into it and write to it, the runbooks operators go by, and the deferred queue;
TLC runs on small instances; and proofs, checked by TLAPS, for every value of
the constants.

Paths in this file are relative to the repository root (`src/...` is its source
directory).  `PROJECT.json` names, for every definition, the lines it models.

## 1. The system

Candidates live in a Feishu Base, a table store that people also edit by hand.
The program is a Node HTTP server (`src/server/server.ts`), a set of scripts
(`scripts/*.ts`) and a long-running Feishu connection.  All of them reach the
Base by running `lark-cli` with `spawnSync`: one Node process does one thing at
a time while it talks to the Base, but processes, people and requests that
outlive a killed `lark-cli` do interleave.

| Component | State it keeps | Operations | Talks to |
|---|---|---|---|
| State machine (`orchestrator/state-machine.ts`) | none, a table | `canTransition`, `assertTransition`, `getNextStates` | used by `base/runtime.ts` for each status command |
| Agents (`agents/*.ts`, `base-agent.ts`) | none | one `run…` per agent; schema retry; audit row, rows, status | an `LlmClient`; result goes to the pipeline |
| Pipeline (`orchestrator/candidate-pipeline.ts`) | plan and runs of one call | `runCandidatePipeline`: six agents in order, return at the first failed | agents; callers are the write-back runner, the script, dry runs, the queue |
| Human decision (`human-decision.ts`, `live-human-decision-runner.ts`) | none between calls, a nonce goes to the operator | generate plan; execute with two confirm phrases and the nonce | link registry, Base read, command loop |
| Candidate write-back (`live-candidate-write-runner.ts`) | the same | generate plan; execute | pipeline, link registry, command loop |
| MVP scripts (`live-mvp-runner.ts`, `scripts/run-live-mvp-writes.ts`) | none | readiness, dry run; plan and execute in one go, on a demo record | record resolution, pipeline, decision plan, analytics agent, command loop |
| Link registry (`server/live-link-registry.ts`) | map of link to record, in memory | register, resolve, evict by age and size | listings register, plans resolve |
| Live Base reads (`server/live-base.ts`, `live-candidate-context.ts`) | none | list records, read a candidate with its job | `lark-cli`, link registry |
| Deferred queue (`server/deferred-queue.ts`) | a JSON file of at most 200 items | four enqueues, list, process a time window | pipeline, Base read, dashboard snapshot |
| Dashboard snapshot (`server/runtime-dashboard.ts`) | a JSON file | build, write, load | written by the queue, dry runs, previews, scripts |
| Analytics report (`live-analytics-report-runner.ts`) | none between calls | generate plan; execute | three Base reads, command loop |
| Bootstrap and seed (`base/live-bootstrap.ts`, `scripts/seed-base.ts`) | the Base's tables | preflight, set-up, seed with or without job link | `lark-cli` |
| Competition import (`scripts/import-competition-demo-base.ts`) | an index of keys, for one run | create missing tables, read the index, upsert by key | `lark-cli` |
| Dataset runner (`scripts/run-live-agent-dataset.ts`) and its verification | the snapshot file | every entry through the pipeline, one snapshot, one plan of all writes | pipeline, provider, command loop |
| Record resolution (`base/record-resolution.ts`) | none | find exactly one record of an identity | `lark-cli` |
| `lark-cli` runners (`base/lark-cli-runner.ts`, `read-only-runner.ts`) | none | run a list of commands, stop at the first failure | `lark-cli` |
| LLM clients, provider gates (`llm/*.ts`) | none | complete with an abort timer; readiness and gated demos | the provider |
| Feishu connection (`feishu/long-connection.ts`) | a web socket | message event, card action | Feishu |
| Runbooks and reports (`live-operator-runbook.ts`, `live-e2e-runbook.ts`, `live-recovery-plan.ts`, verification, readiness) | none; the operator's notes | pure functions of earlier results | scripts; the operator who goes by them |
| Competition data (`runtime/*.ts`) | data files | load, search, view | server routes |

What makes each correct:

- **State machine, pipeline**: no agent makes a final decision, skips or repeats
  a status; the reported final status and failed agent agree with the plan; an
  audit row precedes the status it accounts for.
- **Two-step writes**: what runs is what was answered with a nonce, for the same
  record; decision and status stay in agreement through failure, timeout, crash
  and retry; the answer to the operator is true; a final status stays.
- **Queue**: no item is overwritten; nothing done is done again; nothing is
  marked done whose run cannot be seen; the answer agrees with the file.
- **Link registry**: a link stands for one record for as long as it is known.
- **Bootstrap, seed**: the demo rows come into a Base that is set up, linked to a
  job that is there.
- **Import, script, recovery**: a second attempt after a partial failure does not
  duplicate rows; a script ends.
- **Report**: the written report is about a Base that existed, has its audit row
  and is not written twice for one nonce.
- **Runbooks**: what they say of the Base is true of it, and following them writes
  nothing twice.
- **Dataset runner**: a status in the Base has its audit row; the answer of a
  verification and the snapshot agree with the pipelines that ran.

### Hard behaviours

A check is made before the first of several unconditional writes; a `lark-cli`
killed after 30 s may have written, or write later; links and replies die with
the server; a second process writes the same record; plans are compared by a
nonce that must cover what matters and nothing that changes by itself; three reads
make one report; a script that stopped is run again on what it left; a batch
works on a copy of a file.  `PROJECT.json` lists each under `hazards` at its line
with the properties aimed at it.

## 2. Modules

| Module | Models | Used by |
|---|---|---|
| `CandidateStatus` | the transition table and its lookups | all |
| `CandidateLifecycle` | **abstract specification**: the life of one candidate's status under given actors | refined by `CandidatePipeline`, `LiveWriteback` |
| `AgentCommands` | the commands each agent and a decision emit, in order | `CandidatePipeline`, `LiveWriteback` |
| `CandidatePipeline` | one call of `runCandidatePipeline` with every model behaviour | |
| `LiveWriteback` | both two-step runners, the script, the link registry, crashes, timeouts, late requests, edits in Feishu | |
| `DeferredQueue` | the queue file, its enqueues and the batch step by step | |
| `AnalyticsReport` | the two-step report: three reads, a nonce, two writes, by several servers | |
| `LiveBase` | the Base as set-up scripts meet it: tables, fields, rows, calls that fail or come through late | `LiveBootstrap`, `DemoImport` |
| `LiveBootstrap` | the bootstrap script and the seed script | `BaseSetup` |
| `DemoImport` | the competition import | `BaseSetup` |
| `BaseSetup` | several of these scripts at once, and people who delete and empty tables | |
| `MvpOperation` | an operator with the MVP scripts and what their reports say | `Operation` |
| `E2eRunbook` | the thirteen steps of the E2E runbook and an operator along them | `Operation` |
| `ProviderGate` | the gates before a model call and how one call ends | `AgentDataset` |
| `AgentDataset` | the dataset runner, its verification, the pipeline, smoke and demo scripts | `Operation` |
| `Operation` | an operator along one of the three | |
| `LiveWriteback_proofs`, `LiveDecision_proofs` | theorems on `LiveWriteback` | |
| `CandidatePipeline_proofs` | theorems on `CandidatePipeline` | |
| `AnalyticsReport_proofs` | theorems on `AnalyticsReport` | |
| `DeferredQueue_proofs` | theorems on `DeferredQueue` | |
| `BaseSetup_proofs` | theorems on `BaseSetup` | |
| `MvpOperation_proofs` | theorems on `MvpOperation` | `Operation_proofs` |
| `Operation_proofs` | theorems on `Operation` | |
| `MC…` | instances for TLC; `MCLiveShown` adds a history variable | |

### CandidatePipeline

State: the agent running, the unusable answers it has had, the plan, the agent
runs, the result.  Actions: intake (no model call); an answer that fits the
schema; one that does not, the first time (ask again) and the second (the agent
fails); a client that throws.  Each finished agent appends its audit row and, if
it succeeded, its rows and its status command.  `fromStatus`, the reported
status at each early return and the agents' order are literals in the code and
so here: the properties check that these literals fit together.  Row payloads
are abstracted to the table they go to.  The `catch` around decoding an output
that has just been serialised cannot be reached and is left out.

### LiveWriteback

State: `base` (status, decision and one "data" field per record, the data
standing for all that a pipeline run reads), `registry`, `plans` (those whose
nonce a server has answered with), `run` (per process, the plan and the next
command), `reply` (the last answer of each process), `late` (requests of killed
`lark-cli` processes under way) and `stamp` (counts pipeline runs, since run ids
and times differ in each).

- A plan is kept as what it is computed from; `Commands` and `Nonce` are functions
  of it.  `DecisionNonce` and `WritesNonce` hold what the two `computePlanNonce`
  hash.
- An execute handler up to its first write is one action: read the record,
  check the status (decision only), recompute the plan, compare nonces, start or
  refuse.  No other handler of that process can run in between, since reads are
  `spawnSync`.  Between the read and the first write nothing of another process
  is visible to the handler, so that part of the window belongs to the wait
  before the first command.
- A refused nonce is answered with the nonce of the recomputed plan
  (`live-human-decision-runner.ts:426`, `live-candidate-write-runner.ts:349`), which therefore
  joins `plans`.
- Each command succeeds, fails without effect, or times out, when it may have
  been served, or be served later.  A loop stops at the first that does not
  succeed.
- `Crash` restarts a process: its links and answers are gone, a command under
  way may be served.
- `EditStatus` and `EditData` are people in Feishu.

Refusals that leave no trace (confirm phrase, empty nonce, configuration) and a
Base that cannot be read, which the decision answers as failed and not executed,
are one action, `RefuseRequest`.  What a listing or a context read parses is
abstracted to the record's fields.

### DeferredQueue

State: the queue file, the batch under way (its own copy of the queue, what is
left to do, the snapshot it will write, its counts), the dashboard file, the
last answer, the clock and the number of items submitted.  Enqueues are
synchronous and one action each.  A batch is one action per item, then one for
the snapshot and one for the save; a crash or a throwing write may come before
any of them or inside a file write (a torn file, which `loadQueueFile` reads as an
empty queue).  What a batch awaits is `spawnSync` or the deterministic client, so
no handler of the server runs until it ends: `HandlersRun`.  `QueueKeeps` fails
without this (its mutant), so it is the assumption to keep in mind when a client
that really waits is used there.  A pipeline run inside a batch is one of the
results `CandidatePipeline` can return, complete or not.  The server's clock does
not go backwards.

### AnalyticsReport

State: the three tables as versions of what the digest keeps of them, the audit
rows the runner adds and the reports, the clock's date, what each server is
doing, the nonces answered, the last answer of each server and requests under
way.  One action per read (`ReadTable`), so that edits, other servers and midnight
come between; then the answer of a plan, or the comparison and the two writes.  A
plan resolves "today" before its reads and an execution after them, as the code
does.  `Refuse` stands for the confirm phrases and for a read that fails.

Two facts of the digest matter: it looks at `agent_name` and `run_status` of audit rows,
which are the same in all this runner adds, so only their number counts; and a
read returns at most `READ_LIMIT` rows, so at the limit a new audit row no longer
changes the nonce.  `NonceSpentByAudit`, `OneReportPerServer` and the second half of
`AnswerTruthful` hold below the limit (`WithinLimit`) and the run reaches it.  It is
assumed that an edit never restores earlier contents and that nobody deletes
audit rows.

### LiveBase, LiveBootstrap, DemoImport, BaseSetup

State: of each table name, whether a table has it, with or without its fields, or
several tables; the rows with id, key and linked job; requests under way; each
terminal's script; the import with its index.  One action per `lark-cli` call.
Whether Feishu takes a name twice the repository does not settle:
`docs/operations-runbook.md:66` and `live-e2e-runbook.ts:159` warn of tables created twice, and the
executor of `tests/base-live-bootstrap.test.ts:49` lets creations succeed on tables that exist.
So a creation may always succeed, a name then standing for several tables, and may
always be refused, as any call.  Reading a name of several tables with fields gives
some of their rows.  Feishu is assumed never to give a record id again; people
delete or empty tables only when nothing runs and nothing is under way; imports do
not overlap.

- The preflight may take a table that is there for missing (`isMissingTableResult`
  matches words of an error text), and a table of several for empty.  So nothing in
  the program keeps a second demo pair out, and no property says so: two bootstraps
  at once, or a seed script after a bootstrap, add one where names are taken twice.
  What the set-up does guarantee, whatever Feishu does with a name, is that the seed
  comes after a set-up without a failed command: `SeedFindsSetup`.
- The set-up plan creates every table whatever the preflight has read.  So the retry that
  the preflight (`live-bootstrap.ts:232`) and `docs/operations-runbook.md:97` ask for, after people have
  emptied the tables, doubles the tables or ends at the first creation that
  Feishu refuses, as the same runbook's line 66 suspects; only deleted tables
  give a clean one.  `ClearTable` and `DeleteTable` are both in the model.
- The job's record id is read from the output of its call; an output without one
  ends the bootstrap with exit code 0.  The seed script writes no link.
- `loadExistingIndex` takes a read that fails for an empty table and returns at most
  200 rows: `OneRowPerKey` is about imports whose index was complete (`blind` records the
  others).  The index is not updated by the rows just written; the resume facts of
  a candidate share the candidate's key, so a first import adds them all and an
  import after an interrupted one may write two over the same row: `FactsKept` excepts
  it.  The report row at the end of an import, with the time in its id, is left out.

### MvpOperation, E2eRunbook, AgentDataset, Operation

`MvpOperation`: the readiness report, the dry run and the guarded execution, each
resolving the demo job and candidate first, the writes one by one, and what
their audit and recovery plan tell the operator.  The script looks at no earlier
run.  The operator executes when the operator runbook says so and the recovery
plan of the last execution allows it, and keeps that plan.  Three things are worth
knowing: the runbook itself ignores the recovery status; a dry run after a failed
execution yields a plan that says "Safe to re-run" (`live-recovery-plan.ts:57`), which is why the operator has
to keep the older one; and a killed script prints no audit at all.  So a second
execution that reaches its writes needs one of these rules broken: `NoRowTwice`
shows that they suffice.

`E2eRunbook`: the statuses of the thirteen steps as functions of the operator's
entries; the operator does a step only when it is shown as ready or manual.
"Completed" requires neither verification nor recovery to have been run.

`AgentDataset`: each entry is one action, then the snapshot, then each command of
the plan of all entries.  Pipelines with the provider end after any of `Outcomes`
agents; the gates are judged when a script starts.  `AnswersHold` is about what a
verification may claim; it cannot say that every line of the dataset was used,
since `loadDataset` drops what does not parse.  The command list of an entry is that
of `AgentCommands`, with one extracted fact.

`Operation` takes the three side by side: an operator goes along one (`route`).

## 3. Runs

| Run | Question | Bounds |
|---|---|---|
| `candidate_pipeline` | do plan, result and audit trail agree on every path, and does the plan follow the state machine | 10 facts, the code's own maximum (5 skills and 5 features) |
| `live_decision` | do decision, status and answer agree with one writer | 1 record, 3 links: one per listing, so two restarts between attempts; decisions of both kinds by one person; a record that is not yet pending, too |
| `live_concurrent` | is what runs and ends in the Base what was answered, with both runners, the script and people, who reopen a decided candidate, and a late request | 1 record, 2 links (symmetric), 1 server, 1 script, 1 late request, 1 pipeline run: of a write plan or of a refused execution or of the script |
| `deferred_queue` | queue order, loss, repetition, visibility, answers that count what lies in the window, its ends included | file of 2, 3 items, 1 query, 2 clock values, every window over them |
| `analytics_report` | is a report about one moment, written once and with its audit row, and is the answer true | 1 server, read limit 1, 2 edits, 2 days, 2 rows, 1 late request |
| `base_setup` | does every demo row come into a whole set-up, and do imports that stop, overlap with it and are repeated leave one row per key and every fact | 1 terminal, 3 tables, 2 scripts at once, 3 record ids, 3 rows to import, read limit 2, 1 late request; one name at a time has several tables (`OneNameTwice`) |
| `operation` | do the reports agree with the Base, and does following them write nothing twice | 4 commands, 2 executions, 2 attempts per step; 2 candidates, pipelines that stop in the middle or go through, 1 dataset written, 1 late request |
| `live_mismatch` | *violation*: is a refused write plan one whose data changed | 2 pipeline runs: one to plan, one to execute |
| `live_terminal` | *violation*: is a final status terminal | 1 server, 1 script |
| `live_shown` | *violation*: was every executed decision generated and shown | 1 server |
| `live_stale` | *violation*: is a decision only executed on the data it was planned on | 1 server, 2 values of the data |
| `dataset_decision` | *violation*: is a decision final for the dataset runner | 1 candidate, 2 runs |

Why the bounds are enough: the runners never look at two records at once, and
links of different records meet only in the nonce, which holds link and record;
two links give a stale and a fresh one.  With one record a plan for another one
cannot be confused with it in a run: the theorems of section 4 cover any number
of records.  The queue overflows at the third item, a repeated query can stand
first or second, a window can cut the queue between any two times.  `live_decision`
lets an attempt fail, the server restart, a new attempt decide the opposite and
fail, and a third succeed.  With one server a report can still race with edits, its
own late requests and its own restarts.  In `base_setup` a candidate has two facts, the
smallest number that can collide, and a table can hold one row more than a read
returns.  A late creation, field, seed or row of one script meets another script
that is anywhere in the same tables; two bootstraps at once are in the theorems.
The data of a candidate varies in the violations only: a decision does not depend on
it, and `WritePlansNeverRun` says what becomes of a write plan on any data.  Four commands of the MVP plan leave a first, a last and
two in the middle; its second execution is reached only when one of the rules above is broken, which
the mutant does.

Deadlock is not checked in the `Live…` runs, the report's and the pipeline's: links are issued at most
once, rows and pipeline runs are bounded, the pipeline returns; it is checked in the others.

**Properties.**  `TypeOK` is checked in `candidate_pipeline`, `live_decision`, `deferred_queue` and
`operation`.  In `candidate_pipeline`: `FinalStatusMatchesWrites`, `FailureLeavesNoWrites`,
`AuditPrecedesStatus`, `ResultAgreesWithRuns`, the refinement of `CandidateLifecycle` by
agents alone (`ImplementsLifecycle`), and `Returns`.  In `live_decision`: `DecisionConsistent`,
`FailureReportTruthful`, `SuccessMeansWritten`, the refinement of `CandidateLifecycle` by
`human_confirm` alone, and `RunEnds`.  In `live_concurrent`: `AnsweredOnly` and
`OutcomeWasAnswered`.  In `deferred_queue`: `NewestFirst`, `QueueKeeps`, `ProcessedIsShown`,
`FinishedStays`, `AnswerMatchesFile`.  In `analytics_report`: `ReportOfOneMoment`, `NonceSpentByAudit`,
`OneReportPerServer`, `ReportHasAudit`, `AnswerTruthful`.  In `base_setup`: `SeedFindsSetup`, `OneRowPerKey`,
`FactsKept`.  In `operation`: `RecoveryBounds` and `NoRowTwice` of the MVP scripts, `WriteStepsOnce` and `CompletedMeansWritten` of
the E2E runbook, `AnswersHold` and `StatusHasAudit` of the dataset scripts, `ScriptEnds`.  Each is stated in words above its definition.

**Fairness.**  `RunEnds` uses weak fairness of each process's command step: `spawnSync` has a
timeout of 30 s and the loop goes on or answers.  Nobody is obliged to send a
request, expire a link or edit.  `ScriptEnds` uses weak fairness of the MVP script's
step for the same reason.  `Returns` uses weak fairness of the pipeline's step:
it is one async function, and the client's abort timer bounds each call.

### What the violations show

1. `live_mismatch`: executing a candidate write plan runs the pipeline again and
   compares nonces over commands that hold `run_id` (`agents/base-agent.ts:41`) and a time, so
   the comparison at `live-candidate-write-runner.ts:348` never succeeds.  Its message says
   the candidate's data may have changed; in the run it has not.  The theorem
   `WritePlansNeverRun` says so of every execution, on any data.
2. `live_terminal`: the MVP script writes `parsed`, `screened`, … from a literal start
   without reading the record, so a decided candidate loses a final status that
   `docs/current-state.md:61` calls terminal.
3. `live_shown`: a refused decision is answered with the recomputed nonce, and the
   same request with it is executed without a plan having been generated, which
   `docs/operations-runbook.md:247` gives as the source of the nonce.
4. `dataset_decision`: `run-live-agent-dataset.ts --write-base` runs the commands of its pipelines
   without reading any record's status, so a second run over the same dataset moves a
   candidate a human has decided on back to `parsed` (`docs/current-state.md:61`, again).
5. `live_stale`: the nonce of a decision covers link, record, input and commands, nothing of the
   candidate's data, though the refusal names changed data first
   (`live-human-decision-runner.ts:427`) and the check is called a TOCTOU guard (424, and
   `live-e2e-runbook.ts:361`, explained at 288).  A decision answered on one state of the data is executed on another.
   The theorem `DecisionMismatchExplained` is the other side: no decision is ever refused for its data.

## 4. Proofs

`LiveWriteback_proofs` and `LiveDecision_proofs`, for any number of records, links, servers, scripts,
deciders and late requests:

| Theorem | States |
|---|---|
| `Typing` | `Spec => []TypeOK` |
| `OnlyAnsweredPlansRun` | `Spec => []AnsweredOnly` |
| `OutcomesWereAnswered` | `NoFinalByHand` implies `Spec => []OutcomeWasAnswered` |
| `DecisionsConsistent` | `OneWriter` implies `Spec => []DecisionConsistent` |
| `FailureReportsTruthful` | `OneWriter` implies `Spec => []FailureReportTruthful` |
| `SuccessIsWritten` | `OneWriter` implies `Spec => SuccessMeansWritten` |
| `DecisionsFollowLifecycle` | `OneWriter` implies `Spec => ImplementsLifecycle` |
| `DecisionMismatchExplained` | `Spec => []MismatchIsOfInput`: a decision refused for its nonce was submitted with another link or input, or a nonce of no decision plan |
| `WritePlansNeverRun` | `Spec => []NoWritePlanRuns`: no process is ever in the execution of a candidate write plan, reports one or leaves a command of one under way |

*Assumptions.*  `ConstantsAssumption` (the sets of constants are of the kinds their comments
say), that the nonce's hash is injective and nobody submits a nonce that no server has given out
(in the model), that two pipeline runs never share a `run_id`,
`NoFinalByHand` for `OutcomesWereAnswered` and `OneWriter` for the four theorems that name it: one server, decisions only, no script, no status edited by hand and no request
that outlives its process.  `live_terminal` shows that without it the lifecycle is
really lost.

*Argument.*  `TypeOK` is inductive; the lemmas on the way type the commands of each plan.
`AnsweredOnly` is not inductive alone: a script's process must never hold a
server's plan and the reverse (`ScriptsRunMvp`), and `NonceDetermines` says that equal nonces
mean equal link, record and commands.  For `MismatchIsOfInput`, `LinkInv` keeps that a link, once issued,
is for the record of every plan made through it until it expires, and that a decision's nonce holds nothing that changes.
A write plan's nonce is the opposite case: `PipelineOpensWithItsRun` finds the run in the plan's first
command, `RunsTellPlansApart` concludes that nonces of two runs differ, and as every answered plan is of an
earlier run (`PlansOfPastRuns`) the execution's own is always new.  So what `live_mismatch`
shows once holds of every request: the candidate write-back never writes.  `OutcomeWasAnswered` needs the same of what is
being executed and of late requests: every decision or final status that a
command can write is that of an answered plan or is the script's offer.  For one
writer the invariant `SingleInv` relates the position of the execution to the
record: before its first command the record is pending; before its second the
record is pending with the plan's decision; nothing is late.  From it follow
the four statements, the two action properties by cases on `Next`.

`AnalyticsReport_proofs`, for any number of servers, edits, days, rows and late requests:

| Theorem | States |
|---|---|
| `Typing` | `Spec => []TypeOK` |
| `ReportsOfOneMoment` | `Spec => []ReportOfOneMoment` |
| `NoncesSpent` | `Spec => []NonceSpentByAudit` |
| `ReportsHaveAudits` | `Spec => []ReportHasAudit` |
| `OneReportForANonce` | `Spec => []OneReportPerServer` |
| `AnswersTrue` | `Spec => []AnswerTruthful` |

*Assumptions.*  `ReportAssumption` (the bounds are naturals and the default period is no date); and
what the model assumes: hashes are injective, an edit never restores earlier contents, nobody
deletes audit rows.

*Argument.*  None of the five is inductive.  `TablesStep` and `ServerStep` say once what any step does to
the tables and to one server, and the invariants are proved from these two.
`PastInv`: whatever was read, answered or written belongs to a Base no newer than the present one.  For an
execution `ExecutionInv` puts the data it reads between two bounds: not older than `start`, as it was read
later, and, when its nonce equals the one submitted, not newer, as that one was
answered before; hence `data = start`.  `Behind` says that an audit row stands behind as many rows as its
nonce counted, so a nonce that equals it again would have to count fewer
rows than there are.  For the writes: `AuditInv` (a report that exists or is under way has its audit row),
`KnownInv` (what a server wrote before is among the rows its execution began on), with which
`ReportIsNew` shows that a server never writes a report it has written; `OnceInv` adds that what may
still arrive is not there yet, and `ReplyInv` relates the last answer to the rows.

`CandidatePipeline_proofs`, for any number of facts that an extraction finds:

| Theorem | States |
|---|---|
| `Typing` | `Spec => []TypeOK` |
| `FinalStatusAgrees` | `Spec => []FinalStatusMatchesWrites` |
| `NothingAfterFailure` | `Spec => []FailureLeavesNoWrites` |
| `AuditLeadsStatus` | `Spec => []AuditPrecedesStatus` |
| `ResultAndRuns` | `Spec => []ResultAgreesWithRuns` |
| `PlanImplementsLifecycle` | `Spec => ImplementsLifecycle` |

*Assumptions.*  `MaxFactsAssumption` (a natural).

*Argument.*  `BusinessShape` says what each agent may add: rows, then its move if it has one.  `PipelineInv` joins to
the types that the runs are those of the agents in their order, that the plan is sound (`PlanSound`: the last status
command of each beginning is known, an audit row of the same move leads it with only rows between, and a failed run is
the last), and that the pipeline is either under way, every agent so far having succeeded and the plan ending in the
status the next one starts from, or has returned what it said.  `PlanAudited` and `PlanMoves` show that a plan stays
sound when an agent adds its audit row alone, or with its writes.  The refinement maps the last status command of the
plan to the candidate's status: a step that adds a move is a move of `CandidateLifecycle`, any other a stutter.

`DeferredQueue_proofs`, for any capacity of the file, queries, times and number of submissions:

| Theorem | States |
|---|---|
| `Typing` | `Spec => []TypeOK` |
| `FileIsSorted` | `Spec => []NewestFirst` |
| `FinishedItemsStay` | `Spec => FinishedStays` |
| `ItemsAreKept` | `Spec => QueueKeeps` |
| `RunsAreShown` | `Spec => []ProcessedIsShown` |
| `AnswersAreTrue` | `Spec => []AnswerMatchesFile` |

*Assumptions.*  `QueueAssumption` and `ValueAssumption` (a missing or torn file is no queue and no
snapshot); the clock does not go backwards and no handler runs during a batch (in the model).

*Argument.*  `AnyStep` says once what any step does to the file, the batch and the dashboard.
`NewestFirst` needs that nothing is younger than the clock and, for a save, that the batch's
copy still has the ids and times of the file: `FileInv` and `BatchInv`.  `FileInv` also orders the ids, so
that an id names one position; `FinishedStays` and `QueueKeeps` are then cases on `AnyStep`.
`ProcessedIsShown` needs to know what a batch holds back: `ShownInv` says that the snapshot a batch has
not yet written is younger than all runs in the file and in its copy, and that when the copy
is saved its runs are on the dashboard.  `AnswerMatchesFile` needs `CountInv`: what a batch has been through
is finished in its copy and is just what it has counted, and the rest is as the file has it.

`BaseSetup_proofs`, for any number of terminals, tables, rows to import, record ids and late requests, and any limit of a
read:

| Theorem | States |
|---|---|
| `SetupTyping` | `Spec => []TypeOK` |
| `SeedIntoWholeSetup` | `Spec => SeedFindsSetup` |
| `OneRowForEachKey` | `Spec => []OneRowPerKey` |
| `FactsAreKept` | `Spec => FactsKept` |

*Assumptions.*  `BaseAssumption` (the tables are listed once each; an id bound and a bound on late requests) and
`SetupAssumption` (the job and candidate tables differ, the two demo keys differ and are not among the keys of the
competition data); and what the model assumes of Feishu and of people, above.

*Argument.*  `SeedFindsSetup` speaks of steps: its invariant `SeedInv` says of every script that the tables whose
fields its set-up has passed have them, all of them once it is at the seed, and that the job id it holds for the link is of a demo
job that is there (`ScriptSafe`); and of every seed given up that it was sent into such a Base (`LateSafe`).  `Grows` is what keeps it:
while a script runs or a request is under way no table with fields loses them and no row goes, as people delete and empty only
when all is quiet.  `SetupKeepsSeeds`, where a command that succeeds takes the script past one table, is the only step that has to
establish anything about tables, `JobKeepsSeeds` the only one about links.  A seed is served in a Base its request was safe for: `ServedFits`.
For the rows of the data, `RowsInv` says that an id belongs to one row, that an entry of the index or a late update
names a row with that table and key.  `OwnQuiet` sums up the steps of everyone else: they leave these rows alone and use
up ids.  `OnceInv` adds that no request of an import is under way while a later one that knows all rows is reading or
writing, that there is at most one, and that a key which the index lacks has no row before the import writes it.
`FactsInv` keeps, for a key shared by several rows of the data, the rows in the Base as a stack with the newest on top: an import
that found none adds one for each (`Added`), one that found some writes over the newest, which the index names (`Updated`),
and leaves the content of the last row of the data on it.  `AtTheStart` and `AtTheEnd` connect both with the state
between imports (`Settled`).

`MvpOperation_proofs`, for any number of commands, executions and late requests, about `MvpSpec`, the MVP scripts alone:

| Theorem | States |
|---|---|
| `RowsAreWrittenOnce` | `MvpSpec => []NoRowTwice` |
| `PlanBoundsTheRows` | `MvpSpec => []RecoveryBounds` |

*Assumptions.*  `MvpAssumption` (at least one command); and what the model assumes of the operator, who
goes by the runbook and by the recovery plan of the last execution.

*Argument.*  Neither is inductive.  `OnceInv` says that the system is in one of three states: no execution has
come to its writes (`Nothing`); the first is writing, and the commands before the next one are what the Base holds
(`WritingOnce`); or it is over, and what is served or under way lies within its audit's bound
(`Over`).  In the last the plan's status is one that forbids a rerun, or there is no plan, so no execution
starts again; a script that is still resolving cannot be an execution there.  Both theorems read off `OnceInv`.

`Operation_proofs`, for any number of commands, attempts, datasets, records and environments:

| Theorem | States |
|---|---|
| `OperationTyping` | `Spec => []TypeOK` |
| `RowsOnceAlongTheRunbook` | `Spec => []NoRowTwice` |
| `RecoveryPlanBounds` | `Spec => []RecoveryBounds` |
| `RunbookWritesOnce` | `Spec => []WriteStepsOnce` |
| `CompletedIsWritten` | `Spec => []CompletedMeansWritten` |
| `AnswersAreSo` | `Spec => []AnswersHold` |
| `AuditBehindEveryStatus` | `Spec => []StatusHasAudit` |

*Assumptions.*  `MvpAssumption`, `JourneyAssumption` and `DatasetAssumption` (bounds are naturals, `NoRecord` is no
record); and what the model assumes of the operator, who does a step only when the runbook offers it.

*Argument.*  The three parts share no variable: a step of `Operation` is one of each part's steps or leaves its variables alone
(`Steps`), so `OperationInv` is the conjunction of an invariant of each (`OperatesInOrder`).  For the MVP scripts it is `OnceInv`.
`JourneyInv` says that what is entered of a step rests on the steps before it (`Rests`) and that a write step has
written just when it is entered as executed (`Counts`).
`TaskInv` says at each stage of a script what its results and commands are; that the command list of a whole dataset
has an audit row before each status row of the same run and record is shown by joining the lists of the agents,
then of the entries, by induction over the number of entries (`SetInduction`, `LoadedType`: a set of naturals has a
least element, since the library's induction takes an operator).  `AnswerInv` relates the last answer to the
snapshot file, and `WritesInv` what is served and under way to the plan it is of: commands of one plan are served
in its order up to the one given up, so a status that is there has its audit row there.

*Only model-checked*: the liveness properties `RunEnds`, `Returns` and `ScriptEnds`, which need fairness and `ENABLED`.  Every other
property that a passing run checks is also a theorem.

## 5. Not modelled, and the plan

Abstract specifications to add: a two-step protocol that the three runners implement.

Not modelled, and why:

- the order in which the link registry evicts: any link may go at any time in `LiveWriteback`;
- two servers on one queue file: the file belongs to one server's working directory;
- the Feishu connection: one reply per event and no state; it touches neither the
  Base nor the queue, and delivery is inside the vendor's SDK;
- the request guards: they refuse before any state is touched;
- `migrate-base-schema.ts`: it changes attributes of fields only;
- release gates, API-boundary audit, freeze report and trace scan: booleans turned
  into texts once;
- schemas' field checks, redaction, layout and report texts, the competition data views
  (sequential parsing and scoring of files), static pages, deployment.
