# virmux: models, checks and proofs

virmux is a single-host harness. It boots Firecracker microVMs, runs tools in
them through an agent on a vsock, and records every run three times: in an SQLite
database, in an append-only JSONL trace, and as files whose hashes are
registered. A skill plane (run, judge, A/B evaluation, refine, suggest, promote)
and a research plane (plan, map, reduce, replay) are built on those records.

This directory holds TLA+ models of that program's control logic, TLC
configurations that check them on small instances, and TLAPS proofs of what holds
for every instance. Paths below are relative to `src/`.

## 1. Inventory

| Part | Code | State it keeps | Operations | What is hard |
|---|---|---|---|---|
| research scheduler | `internal/skill/research/scheduler.go` | a status and a dependency count per track, two counters, a semaphore, an errgroup | `Run` over a plan, whole or a subset | a goroutine per track, a condition variable, a window between two critical sections, cancellation, cascades of failure |
| research replay, mapper, reducer | `internal/skill/research/{replay,mapper,reducer}.go`, `cmd/virmux/research.go` | `map/*.jsonl`, `map_backup/`, `mismatch.json`, `reduce/*`, a result cache, evidence rows | `map`, `reduce`, `replay [--only]` on a run's directory | files of one command are the input of the next; a failure half way leaves some of them moved; the cache outlives the run |
| research planner | `internal/skill/research/planner.go` | none (a plan is a value) | `Compile`, `ParsePlan`, `Validate` | what `Validate` does not look at: ids and dependencies |
| run ledger | `cmd/virmux/main.go`, `internal/trace/trace.go`, `internal/store/store.go` | the trace, `runs`, `events`, `tool_calls`, `artifacts`, the bundle of a failed run | `runWithStore`, `emit`, `persistRunArtifacts`, `maybeAutoExportFailure` | three writes per event with nothing around them, each may fail, the process may die between any two |
| RPC mux | `internal/transport/rpc/{mux,frame}.go`, `internal/agentd/server/server.go` | the table of pending calls, the channels, two byte streams | `Call`, `readLoop`, `ServeConn` | calls of several goroutines on one stream, a context that ends while the answer is on its way, the stream's end |
| vsock bridge | `internal/transport/vsock/vsock.go`, `runAgentdTool`, `cmd/virmux-agentd/main.go` | connections, the guest agent's single accept | dial with retry, CONNECT/ack, READY banner, requests | a guest that is not there yet, attempts that time out after the guest took them |
| VM lifecycle | `internal/vm/vm.go` | the VMM process, the serial log, its markers, the watchdog's timers | `Run`, `ZygoteWithHook`, `ResumeWithHook` | two timers against a late exit; cancellation; a guest that never speaks |
| snapshots and agents | `cmd/virmux/main.go` (zygote, resume), `internal/agent/store.go` | snapshot files, `latest.json`, the agent's record | `vm-zygote`, `vm-resume` with one fallback | three files written one after the other; a crash between them |
| export and import | `cmd/virmux/export_import.go` | bundles; rows and files of the importing host | `export`, `import` of runs and evaluations | sixteen tables read one by one; rows committed before files are copied; ids that are local to a host |
| skill run and replay | `cmd/virmux/skill.go`, `cmd/virmux/tool_receipts.go`, `internal/skill/run/core.go` | a tool budget; three records of every call: files, trace lines, rows | `skill run`, `skill replay` of one run or of two | a path of its own for a run over its budget; records written one after the other; hashes that must agree later |
| judge | `internal/skill/judgeflow`, `internal/skill/judge`, `internal/skill/rules` | `score.json`, `scores`, `judge_runs`, the registry | `skill judge` | a file, two tables, an event and a hash that must agree; a run that is judged twice, or while it runs |
| A/B evaluation | `internal/skill/absvc`, `internal/skill/eval` | `eval_runs`, `eval_cases`, `experiments`, `comparisons` | `skill ab` | a ref that is resolved once per file; cases inserted one by one; early returns |
| promotion | `internal/skill/promosvc`, `internal/skill/gates`, `internal/skill/gitops` | a git tag, `promotions` rows | `skill promote`, with `--rollback`, `--dry-run` | the tag moves before its row is written; refs that move; operators who meet |
| refine and suggest | `internal/skill/{refine,motif}`, `cmd/virmux/skill_{refine,suggest}.go` | the operator's working tree and index, branches, `refine_runs`, `suggest_runs` | `skill refine`, `skill suggest` | a sequence of git commands in somebody's working tree, with no undo |
| canary | `scripts/*canary*`, `canary_runs` | snapshot of the dataset, verdict rows | shell scripts around the commands | state shared between scripts |
| agent tools | `internal/agentd/tools/tools.go` | the guest's file system | `shell`, `http`, file reads and writes | timeouts, allow-list |
| slack server | `internal/slack/server.go` | rows of received commands | one HTTP handler | an insert's error is dropped |
| schema | `internal/store/store.go` | the database's tables | `Open`, migrations | a migration that recreates a table |

How they interact: every command goes through `runWithStore` (the run ledger),
which gives its body an `emit` callback. A research command hands that callback
to the scheduler, which calls it from one goroutine per track. `vm-run --tool`
and `skill run` call the vsock bridge from a hook of the VM lifecycle; the bridge dials,
and speaks RPC over the connection it gets. Judge, replay, evaluation and promotion read
rows and files that runs have left; they meet nothing but the database, the run
directories and git. Refine and suggest read what the judge and the evaluation wrote,
and work in the repository that the operator works in. An export reads all of it while
other commands may write.

### What makes each part correct

* Scheduler: no track starts before its dependencies are done; a failure blocks
  its descendants and nothing else; the two counters the loop compares are
  exact, or it returns too early or never; the caller never sleeps with nobody
  left to wake it; the semaphore's permits come back.
* Run ledger: no row without its trace line; a command that reports success left
  complete evidence; a status is written once, and "ok" is earned; the
  registered hashes are those of the files.
* Mux: a call gets its own answer or an error, always; the reader is never
  stuck on a call that is gone; a frame arrives whole.
* Bridge: the host speaks with a live agent or reports an error in bounded time,
  and leaves no connection open.
* VM lifecycle: whatever the guest does, the command returns, with "ok" only for
  what it was asked to do; every VMM it booted was told to stop and its exit was
  seen; a snapshot is recorded only if it is whole.
* Research run: a track that runs finds the files it depends on; a replay loses
  nothing it took away and says what it could not reproduce; a report is not made
  while a mapper writes.
* Export and import: what an export that nothing disturbed has sealed, a host takes; a
  bundle's rows arrive at once or not at all, and its files after them; an import that
  reports success has brought both.
* Skill run and judge: a run that succeeds has left three records that agree; a refusal is
  evidence like any run; a pass is earned by the records, not by the rubric alone;
  `score.json`, its row, its event and its hash are of one judge.
* A/B and promotion: a verdict has all its evidence; the tag is moved only to what does
  not regress, and only as the promotions table tells.
* Refine and suggest: a row's commit has what the command made and at most what was staged before; suggestions do
  not build upon each other; no edit of the operator is lost.

## 2. Modules

| Module | Models | Checked by |
|---|---|---|
| `Scheduler` | `DefaultScheduler.Run`: the caller's loop and one process per track | `MCScheduler`: runs `scheduler_*` |
| `TrackDag` | what `Run` promises: statuses over a plan, no goroutines or counters | refined by `Scheduler`, used by `ResearchRun` |
| `SchedulerProofs` | theorems about `Scheduler` | `tlapm` |
| `RpcMux` | `Call`, `readLoop`, `WriteFrame`, `ServeConn` and two byte streams of frame parts | `MCRpcMux`: run `mux_calls` |
| `VsockBridge` | `runAgentdTool`, `DialWithRetry`, `Dial`, the agent's `main` and `ServeConn`; Firecracker's device is external | runs `bridge_*` |
| `AgentProofs` | theorems about `VsockBridge` and about `RpcMux`, whose specification is `MuxSpec` so that one module can extend both | `tlapm` |
| `RunLedger` | `runWithStore`, `emit`, `Writer.Emit`, the registry and the automatic export | `MCRunLedger`: run `ledger_commands` |
| `RunLedgerProofs` | theorems about `RunLedger` | `tlapm` |
| `VmSession` | `runWithRuntime`, `ZygoteWithHook`, `ResumeWithHook`, the wait with its watchdog, and the commands around them; the VMM is external | run `vm_commands` |
| `VmSessionProofs` | theorems about `VmSession` | `tlapm` |
| `ResearchRun` | the commands of the research plane on one run's files, over `TrackDag` | `MCResearchRun`: run `research_commands` |
| `ResearchRunProofs` | theorems about `ResearchRun` | `tlapm` |
| `Exchange` | `export` and `import` of runs and evaluations: the queries, the bundle, the transaction, the copy of the tree | `MCExchange`: run `exchange_roundtrips` |
| `ExchangeProofs` | theorems about `Exchange` | `tlapm` |
| `AtomicImport` | what `import` promises of the importing host | refined by `Exchange` |
| `Promotion` | A/B runs, gates, promotions and rollbacks, beside pushes | `MCPromotion`: run `promotion_operators` |
| `PromotionProofs` | theorems about `Promotion` | `tlapm` |
| `SkillRecords` | `skill run` with its budget, `skill judge`, `skill replay`, on the records of runs | `MCSkillRecords`: run `records_commands` |
| `SkillBranches` | `skill refine` and `skill suggest` in the operator's working tree, with the git they use | `MCSkillBranches`: run `branches_tree` |
| `SkillProofs` | theorems about `SkillRecords` and about `SkillBranches`, whose specification is `BranchesSpec` so that one module can extend both | `tlapm` |

The modules compose along the calls of the code. `ResearchRun` uses
`INSTANCE TrackDag` as its scheduler, and `Scheduler` is shown to implement
`TrackDag` (whose `GiveUp` may block a track that is ready, since the code does: run `scheduler_race`), so what `ResearchRun` assumes of the scheduler is what the goroutines
do. `VmSession` has the vsock tool as one step, `AfterInject`, that succeeds or
fails; `VsockBridge` is that step in detail, and takes one request at a time from
the mux, which is `RpcMux`. `RunLedger` takes any command as the events its
goroutines emit; its two instances are those of a `vm-run` with a tool and of a
research run. `SkillRecords` is the ledger of a skill run seen by its readers: an emission,
which `RunLedger` has write by write, is there one step with all its partial outcomes.
`Exchange` moves rows of any of these tables, as keys and references, and is
shown to implement `AtomicImport`.

Some operators are used by no action (`BlockWhileRunning`, `NoHandshake`,
`TryTheNextLine`, ...). Each is a plausible slip in the definition that follows or
precedes it, as a mutant; `PROJECT.json` says which property TLC finds violated
when the definition's body is replaced by it.

### State and actions against the code

**Scheduler.** The variables are the locals of `Run`: `states`, `inDegree`,
`completedCount`, `runningCount`, the semaphore's weight, and where each goroutine
is. One action is one critical section of `mu`, or one semaphore operation, or a
step between two of them that another goroutine can see. `Collect`,
`CollectNothing`, `BlockTheRest` and `Wait` are the two critical sections of the
loop, which release the mutex in between; `ReportDone` and `ReportFailed` are the
deferred tail of a worker, with the cascade in the same critical section, as in the
code. `Repeats` are ids that two entries of a plan share: `Validate` lets them
through, the loop counts entries and the workers count ids.

**RpcMux.** A frame is two elements of a stream, because `WriteFrame` makes two
writes and `Call` holds no lock around them. `Call` is one process per call: claim
the id, write, wait in a select of three branches, and the deferred delete by id.
`readLoop` is three steps: read, look the channel up under the lock, send after it.
A marshalling error and a frame over the limit end like a failed write.

**VsockBridge.** The host is a program counter of `runAgentdTool` and the
dial loop under it; a connection is named by the attempt that opened it. The guest's
kernel acknowledges a connection the agent has not accepted, and the agent accepts
one in its life (`cmd/virmux-agentd/main.go`). Timers are actions that may happen
when they are set; a connection without a deadline has none, and that is the
point of `bridge_banner`.

**RunLedger.** An emission is three actions per process, `WriteLine`,
`InsertEvent` and `InsertToolCall`, each with its failure. A failing flush
leaves the writer broken (bufio keeps its first error) and may leave part of a
line. `Register` is one file of `persistRunArtifacts`, and records what it hashed.

**VmSession.** `host` follows the function that runs; `serial` is what the console
has said, as far as the readers of the log tell it apart; `waited` is what
`Machine.Wait` returned. A command that boots twice (a resume and its fallback) has two
sessions. `opened` has the sessions whose booter returned a machine: a start that fails may have launched
firecracker already (`BootFails`), and the host never holds that VMM. A VMM may hang, exit, ignore SIGTERM;
SIGKILL ends it.

**ResearchRun.** A file is "none", "torn" or what its rows look like to a comparison:
"fresh" rows, "hit" rows (all from the cache, which the mapper rewrites), or a mixture.
A replay moves the files of its tracks to `map_backup/`, runs the scheduler, compares.
`Compare` chooses its mismatches among the sets that the contents permit, since what
a torn file holds is unknown. A fault is an error of the file system or a crash; a
crashed command leaves what it has written. The cache starts cold; a warm one
changes only which rows are "hit" at first.

**Exchange.** A row is its table, its key and the keys it refers to; the job says which
rows belong to the run or the evaluation, and `source` grows while the export reads, table
by table in the code's order (`ReadTable`), so a row may arrive behind the reader.
`Seal` is the manifest and the archive, `Damage` what may happen to it on its way.
An import is looking for the directory, inserting (one transaction: `Clash` is a primary key, `Dangling` a
foreign key, `Skipped` the one table that is inserted unless it is there), and copying, one
action to create a file and one to fill it. `Break` is an error or the end of the process
between any two.

**Promotion.** `pc` follows an A/B run: the prompt and the fixtures are read by two git
commands that resolve the head again, two promptfoo answers, then the inserts in the code's
order, any of which may be the last. `Parsed`, `CompareAB`, `Winner` and `GateEval` are the
decisions, on integers; a median is doubled. An operator is a promotion or rollback:
gate, resolve, move the tag, insert. A push moves the head branch at any time.

**SkillRecords.** `RunPath` and `BudgetPath` are the steps of a run within and over its budget;
`at` is the next. The three records of a call are `files`, `lines` and `calls` (the row); `registry`
has what was hashed. A judge reads in two steps, `rules` and `metrics`, and then writes five times. `Verified` and `Compare` are the two replays. Each step has its failure, and the death
of the process is one.

**SkillBranches.** A commit is its parent and its tree; the index and the working tree are trees too. Git's
commands are external definitions by their effect (`Switch` refuses to overwrite, `Commit`
takes the whole index). `cmd` is the command under way and its next step; when it is `Nothing` the operator may edit,
stage, commit, discard, or return to main. `Motifs` and what ranks them are operators over the evidence; `Ranked` is any order in which none that is dearer comes later
or is left out. `Ancestors` is the least set of commits that is closed under parents.

## 3. Runs

| Run | Asks | States | Result |
|---|---|---|---|
| `scheduler_shapes` | with nine shapes of plan on three tracks (every connected acyclic one, a cycle, a self-dependency, an unknown id), every selection, two permits and a cancellation at any time: are counters, degrees and permits exact; is no wakeup lost; does a failure reach whatever depends on it; does `Run` return, with all settled, and is it a `TrackDag` | 23,411 | holds |
| `scheduler_race` | is a blocked track one with an unmet dependency | | violated |
| `mux_calls` | three calls, distinct ids or two under one id, one impatient, an agent that may go: own response, the reader moves on, every call returns | 190,982 | holds |
| `bridge_retries` | three attempts and two requests with timeouts, refusals, odd answers and crashes anywhere: the host speaks on the connection the agent accepted; no connection is left; the dial returns and the wait for a banner ends unless the banner was lost | 4,866 | holds |
| `bridge_banner` | does the bridge always return | | violated |
| `ledger_commands` | a `vm-run` with a tool, and a research run whose two tracks emit at once, with two failing writes and a crash anywhere: rows follow lines, the trace is sound, success is complete, ok is earned, a bundle agrees with itself | 32,702 | holds |
| `vm_commands` | all four commands, with a VMM that hangs, dies or ignores SIGTERM, every timer, every failing call: ok is earned, a recorded snapshot is whole, the events tell one story, the exits of the VMMs it was given are told, the command returns | 3,238 | holds |
| `research_commands` | three commands in any order on a run of three tracks (two plans), with two faults anywhere: files of dependencies, replay keeps the old, alarms, reports, commands end | 600,039 | holds |
| `exchange_roundtrips` | a research run, an A/B run, an evaluation with a promotion and a canary, and one without a directory; writers beside the export; two imports into a host that may have rows of its own; two faults: is a quiet export complete and taken; does success mean rows and files; does the host see one step | 1,100,010 | holds |
| `promotion_operators` | an A/B run, strict or tolerant, a push at any time, two operators, one fault: is what is promoted no regression; does the table explain the tag; has a verdict its evidence | 2,000,052 | holds |
| `records_commands` | a run within, over or without a budget, or denied, whose tool answers in any way; two judges with different rubrics at any time; one failing write or death: do the records of an ok run agree; is a refusal recorded; is a pass earned; are `score.json` and its row of one judge | 4,016,633 | holds |
| `branches_tree` | two refines or suggests of two runs and two motifs, one fault, and an operator who edits, stages, commits, discards and returns in between: has a row's commit its block and nothing but what was staged; do suggestions stand alone; is no edit lost | 134,897 | holds |

Deadlock is checked in every run but `research_commands` and `branches_tree`, which stop when
their bound on commands is reached. The slowest run takes a little over a minute.

Every module states its type invariant, `TypeOK` (`MuxTypeOK`, `BranchesTypeOK`). It holds in the run of its module,
and is proved for all of them (section 4); the configurations leave it out, since it says nothing
of the code that the other properties do not need anyway.

### Bounds, and why they are enough

* Scheduler: three tracks give every relation a track can have to another two: a
  chain, a fork, a join, a transitive edge, a cycle. A cascade of depth two is what tells
  a cascade from one that reaches children only. Two permits make a third track
  wait for one.
* Mux: two calls share an id while a third has its own; a response is late once its
  call has gone, for which one impatient call is enough.
* Bridge: the agent serves one connection, so the interesting cases are the
  accepted attempt, one before and one after it. A second request is one that
  follows a result.
* Ledger: `MaxFaults = 2` is one failing write and one more while the first is being
  handled. One event with a receipt and one group that is ignored are in each command.
* VM: no bound; `VmSession` is finite, and its constant is the set of commands.
* Exchange: two importers are needed to meet; one fault breaks the first import and a second the
  repeated one. The jobs have every kind of row there is: below the run, below the
  evaluation, below a comparison, below a curated evaluation, and shared by id with the host's own.
* Promotion: two operators meet or follow each other, and one rollback follows a promotion; two
  fixtures tell the sides apart in fails and in scores; one push falls between any two reads.
* Records: one run, since runs share nothing but the database (a second run matters to
  `Compare` only, see section 5); two judges meet or follow; one fault is a failing write or a death.
* Branches: the second command starts from what the first has left, one edit can be in any of three
  places; `Refine` of two runs and two motifs name different branches. `SYMMETRY` is over the runs, which no
  property or evidence tells apart.
* Research: `MaxCommands = 3` allows a plan, a replay or a map, and a second replay
  over the first's leftovers; `MaxFaults = 2` a fault in each of two commands. The
  plans have a track with two dependents and a chain of three, with one wide track and one
  that is declared nondeterministic.

### Fairness

* Scheduler: weak fairness of the caller and of each goroutine: the Go runtime
  runs what can run, and a mapper returns (it has no loop without an end). A
  cancellation is owed by nobody.
* Mux: weak fairness of each call's own steps, of `readLoop` and of the agent while it
  lives. No timeout, close or hang-up is owed.
* Bridge: weak fairness of the host, the VMM, the agent and the deadline, all of which
  run by themselves. Crashes and odd answers are owed by nobody. The VMM is stopped once
  the host has returned (vm.go:905, 917).
* VM: weak fairness of the host's steps and of each timer that is set. Nothing is asked of the
  guest or the VMM. The SDK's calls are taken to return.
* Research: weak fairness of the steps of a command that was given. No command is owed.
* Ledger, exchange, promotion, records, branches: no liveness is stated. Their commands are straight
  lines that end at the first error; nothing in them waits for another.

## 4. What is proved

`SchedulerProofs`, for every finite set of tracks, plan, selection and semaphore weight. The first
invariant, `IInv`, needs nothing of the ids: types; a goroutine is active exactly while its track
runs; `running` is the number of running tracks; permits and holders add up to the weight; and the
caller sleeps only while `running` is not 0. It is needed because none of the properties is
inductive alone: `SleeperHasAWaker` follows only from "asleep implies running # 0", the exact
`running`, and the match of goroutines with statuses. From it: `TypeCorrect`, `PermitSafety`,
`NoLostWakeup`, `TerminalStatusIsFinal`, all of them with repeated ids too. `FailureIsFollowed` is
inductive as soon as the match of goroutines with statuses is there: the cascade of a failure is the
least closed set behind it, so one step leaves nothing pending at any depth (`CascadeIsClosed`), and
no induction along paths is needed. With `Repeats = {}` the second, `CInv`, adds that `completed` is
exact, that degrees are exact, that a goroutine's dependencies are done, and that the loop is left
only when every track is settled. From it: `CounterSafety`, `DegreeSafety`, `BookkeepingSafety`
(these two and `PermitSafety` at once), `DependencySafety`, `ReturnSafety`, and `Refinement`: every
step is a step of `TrackDag` or stutters. The assumption is needed: with `Repeats = {b}` TLC finds
that `Run` never returns (`totalTracks` counts an entry that `completedCount` never will).

`RunLedgerProofs`, for any commands and scripts, any goroutines and any number of failing writes,
with crashes and without. `IInv` ties the progress of an emission to what is recorded (a process
that is to insert a row has its line in the trace; one that is to insert a call, or is done, has its
row), the position of a goroutine to its script (every event it is past is recorded, ignored, or of
a failed group), and the place of `runWithStore` to the status. From it: `EmitBeforeInsert`,
`OkRunsAreEarned`, `FinalStatusStays`, `TypeCorrect`. `JInv` adds what is not recorded yet: an event
that is still to be said has no row (`Fresh`), a torn line is the last and the writer knows of it
(`Torn`), the rows of tool calls follow the script (`CallsFollow`), and once a run is finished
without an error each file is registered as it is or still to be (`Settled`), which is what the
success and the bundle are made of. From it: `SuccessHasEvidence`, `BundlesAgree`, `TracesAreSound`.
`LedgerAssumption` says that scripts are sequences that name each event once, that no two goroutines
say the same event, that commands do not emit the run's own events, and that the null event is no
event.

`AgentProofs`, Part II, for any number of calls on one client and any assignment of ids. `MuxInv` says that a call under way
owns the entry of its id, that an entry is under its call's own id, and that whatever a response
passes through (`readLoop`'s hand, a channel, a result) belongs to a call with the response's id.
From it: `EntriesAreOwned`, which allows shared ids, and `ResponsesAreOwn`, which with distinct ids
turns "same id" into "same call".

`AgentProofs`, Part I, for any number of attempts and requests. `IInv` says that attempts make
connections one after the other and only the current one may be open (`OneAtATime`), that what waits
to be accepted was connected and nobody is served before the agent accepts (`Queue`), and that the
agent's words are only on the connection it accepted (`OwnWords`), so that a banner or a response on
the host's connection says whom the agent serves. From it: `TypeCorrect`, `HostSpeaksWithTheAgent`,
`ConnectionsAreClosed`.

`VmSessionProofs`, for any set of commands. `IInv` names, for each place of the host, what the hook
has been told so far (`Story`, over the few tales a session can tell: `Begun`, `Killed`, `Told`),
what became of a session that is over (`OtherSession`), what was done when a run is waited for
without an error (`WorkDone`) and what is recorded (`Recorded`, `Earned`). From it: `TypeCorrect`,
`OkMeansDone`, `OnlyWholeSnapshotsAreNamed`, `HookHearsOneStory`, `NoExitIsMissed`; the last is about the sessions in `opened`, since nobody waits for the
VMM of a start that failed (section 5). `VmSession` is
finite, so its run decides as much; the proof says why.

`ResearchRunProofs`, for every finite set of tracks, any plans, and any number of commands and
faults. `IInv` ties the states of a command to the files: what it has done is whole, what was done
before it is there, what runs has its dependencies done (`StatesFitFiles`); a mapper holds rows
exactly as long as it works (`MappersWork`); a track that is not wide never has but fresh rows
(`DeepIsFresh`); and a replay starts from empty places, so a whole file of its tracks is its own
(`ReplayStartsEmpty`). From it: `TypeCorrect`, `FilesAreThere`, `ReplayTellsTheTruth`,
`ReportIsComplete`, and the action property `OldIsKept`. No assumption on plans: with a cyclic one
nothing on the cycle runs.

`PromotionProofs`, for any branches and pushes, runs, settings, answers, operators, requests and
faults; fixtures are finite and scores integers (`PromotionAssumption`). The half about A/B runs,
`EInv`, says that the head moves along its history and a prompt was read from a place behind it
(`HeadsMoveOn`), what a run has at its place (`Loaded`), that a verdict is that of answers which
stay (`RowsAreTrue`), and which evidence is written by then (`Backed`). The half about operators,
`OInv`, says that one past the gate holds an evaluation that supports him (`Asked`, `Earned`), that
a tag is where a row or an unrecorded move has put it (`Accounted`), that operators who have not met
are not on one tag (`Exclusive`), and that without such a meeting and without an unrecorded move the
rows tell how the tag came where it is (`Story`). From it: `TypeCorrect`, `PromotionsAreEarned`,
`TagIsExplained`, `VerdictsAreBacked`.

`ExchangeProofs`, for any jobs, rows of the importing host, importers and faults. `IInv` adds to the
types that a bundle exists once it is sealed, that an import past its first look has a bundle that
agrees with its manifest (damage comes before anybody looks), that the rows of an import that has
committed stay, and that a copy has its directory. From it: `TypeCorrect`, and `ImportRefinement`,
in which `Insert` is the one step of the rows: a clash-free transaction adds a keyed row only where
there was none (`NoClash`), and what it skips is what is there (`InsertedRows`, from the assumption
that an evaluation's id names one row). `JInv` adds that the host is closed under references, that
what an export took of the tables of a run refers to the run, and that in run mode one import at
most is past its transaction (`OneRun`): before it no row of the run is held, since the run's own
row would be, and after it the key keeps the others out. From it: `SuccessMeansBoth`. `KInv` adds
that the exporting host is closed under references too, that while nobody writes what has been read
and what is still to be read are together what the queries choose (`ReadSoFar`), and that an import
was refused for a key only (`Refusals`). From it: `QuietExportsImport`. Its core is that the two
descriptions of the evidence agree: the closure along references (`EvidenceOf`) and the sixteen
queries, both equal to a third, table by table (`EvidenceByTable`, `QueriesFindEvidence`), and that
this set refers to nothing outside (`EvidenceIsClosed`), so no foreign key can fail. That takes
`SchemaAssumption`, on the rows of one host: primary keys are keys, no table but `canary_runs` and
`row_evidence` refers twice (the columns of store.go:282-499), a row's evidence is of the row's own
run (mapper.go:124-138), and a run that is no A/B run shares its id with no evaluation.

`SkillProofs`, Part I, for any runs, setups and answers, any judges of them with any rubrics, and any
number of failing writes. `IInv` has a part for each run (`RunInv`): it is on the path its budget
chose (`OnItsPath`), a refusal has left by each step what the steps before it write (`Refused`), a
run without an error so far has its files, its call and its row (`Backed`), a writer that has failed
is known to its command (`Noticed`), and an ok row or verdict has all of it (`Ok`). Since a command's
step touches nothing of another (`RunsAreApart`) and a judge nothing of a run but its trace and
score.json (`JudgeFrame`), each part needs only its own steps. The part for judges says what one that
began when its run was over has read (`HasRead`), and that its pass is earned (`Earned`); that rows
are of judges that got so far; that judges under way together have met (`Met`); and, for a run whose
judges were alone (`Recorded`), what each has left at its place (`Left`) and whose score.json it is
(`Newest`). From it: `TypeCorrect`, `OkRunsAreRecorded`, `RefusalsAreRecorded`, `PassesAreEarned`,
`ScoresAreRecorded`. `PassesAreEarned` needs that a threshold is positive and weights are natural
numbers; `RecordsAssumption` says so, and that commands and marks have different names.

`SkillProofs`, Part II, for any runs to learn from, any evidence and thresholds, and any number of
commands, edits and failures. `BranchesInv` has a part for each kind of command under way: a refine
has nothing but SKILL.md as it was not, and that as its step has it (`RefineInv`); a suggest has in the
index what was staged and its scaffold, and stands on the commit it began at from each candidate's
branch to its commit (`SuggestInv`). That a candidate's directory is missing there too follows from
`NothingIsDeleted`: what the working tree lacks the index and HEAD lack, since the operator of the model deletes no file (section 6).
A part for each row (`RefineRow`, `SuggestRow`) is about the history alone, and stays true because
commits stay and a branch only moves to children (`HistoryGrows`, `AncestorsStay`); that a run or a
motif has one row follows from its branch, which only one command can create. `NoEditIsLost` needs of
these that a command replaces in the working tree or the index only what HEAD has (`EditsStay`). From it:
`BranchesTypeCorrect`, `RefineRowsAreTrue`, `SuggestionsStandAlone`, `EditsAreKept`. Assumed is that
the evidence is a sequence of rows (`BranchesAssumption`) and that a detached HEAD is not the name of a branch (`NothingAssumption`).

Model-checked only: every liveness property (`ReaderMovesOn`, `EveryCallReturns`,
`BridgeMakesProgress`, `Terminates`, `EveryCommandReturns`, `EveryCommandEnds`), out of the prover's
reach. Every safety property of the passing runs is proved. Nothing is proved of what a motif's medians and
costs add up to, or of which candidates come first: that is recursion over data, and the theorems hold whatever they are.

## 5. What does not hold

Two runs check a property that the code violates:

* `scheduler_race` (scheduler.go:137): a worker that reports between the caller's two
  critical sections makes a track ready and `running` 0, and the caller blocks it as
  unsatisfied.
* `bridge_banner` (vsock.go:129): a banner that arrives with the ack is dropped with
  the buffered reader, and the host waits for it without a deadline.

The modules state more properties that one would expect and the code does not have. Each is a definition that
no configuration lists; added as an `INVARIANT` to the configuration named here, TLC shows a behaviour that
violates it.

| Definition | Configuration | What the code does |
|---|---|---|
| `RpcMux!FramesArriveWhole` | `RpcMux_calls` | Two concurrent calls write length and body with no lock around the two (mux.go:73), and a body may follow another's length. The commands call one at a time; `mux_test.go:53` does not. |
| `RunLedger!RegistryIsCurrent` | `RunLedger_commands` | The automatic export of a failed run appends an event to a trace whose hash is registered already (main.go:925; docs/adr/002:18, "artifacts registry metadata-complete"). |
| `VmSession!NoVmmIsForgotten` | `VmSession_commands` | A pause or snapshot that fails returns without stopping the VMM (vm.go:1140). `m.Start` that fails after it has launched firecracker (a FIFO, the configuration, a snapshot that does not load) closes files and pipes and stops nothing (vm.go:470-476), and a resume falls back beside the VMM that is left. (docs/showcase/002:15, "no orphan firecracker".) |
| `ResearchRun!DeterministicTracksMatch` | `ResearchRun_commands` | A row from the cache differs from the row that was cached (mapper.go:207), so the replay of a wide track is a mismatch. |
| `Exchange!EveryExportImports` | `Exchange_roundtrips` | A row written behind the reader of an export leaves its children without a parent, and the import is refused (export_import.go:292). |
| `Exchange!RowsArriveOnce` | `Exchange_roundtrips` | Cases of an evaluation have no key, and the evaluation's own row is inserted unless it is there: a second import of one without keyed rows, or of its run, adds its cases again (export_import.go:842-884). |
| `Promotion!TagHasItsRow` | `Promotion_operators` | A promotion whose insert fails leaves the tag where no row says (promosvc/service.go:165-200). |
| `SkillRecords!PassNeedsACall` | `SkillRecords_commands` | A run that made no call passes if its fixture expects a stream and the file is there. |
| `SkillRecords!OkRunsCanBeJudged` | `SkillRecords_commands` | `ValidateTraceLine` refuses the tool lines of answers that name no streams (trace.go:125), so a run of such a tool is ok and every judge of it fails. |
| `SkillRecords!SameCallsCompareEqual` | `SkillRecords_commands` with `Run = {r1, r2}`, `Judge = {}`, `Setups <- OneSetup`, `Answers <- OneAnswer`, `MaxFaults = 0` | Two runs that made the same call compare as different (docs/adr/004 cheat-sheet: "Deterministic drift detected"). |
| `SkillBranches!DeniedEditsStayOut` | `SkillBranches_tree` | A staged tools.yaml is committed without `--allow-tools-edit`, and the row says `tools_edit=false`: the opt-in is enforced on `git diff`, which shows the working tree against the index (skill_refine.go:101-110, 271), and `git commit` takes the index (178). docs/showcase/004:104, "default deny `tools.yaml` edits (needs `--allow-tools-edit`)". |
| `SkillBranches!TargetsBeginClean` | `SkillBranches_tree` | Only the file that refine writes, SKILL.md, has to be clean (skill_refine.go:250); a changed rubric.yaml, or tools.yaml with the option, does not stop the command. docs/showcase/004:89, "target files clean (`skills/<skill>/SKILL.md`, `rubric.yaml`, optionally `tools.yaml`)", and :106, "dirty target files => hard fail pre-branch". |
| `SkillBranches!PatchIsTheCommit` | `SkillBranches_tree` | refine.patch and `patch_hash` leave out what was staged, which is committed, and have unstaged edits of the skill's other files, which are not (skill_refine.go:120, 178). |
| `SkillBranches!HunkLimitIsMeant` | `SkillBranches_tree` | Hunks are counted by their "@@", of which each has two (skill_refine.go:128): half of what `--max-hunks` allows is refused. |
| `SkillBranches!TailSurvives` | `SkillBranches_tree` | A second refine drops what follows the block (refine.go:131). |
| `SkillBranches!RefinesAreRecorded` | `SkillBranches_tree` | A refine that fails after its branch leaves a branch or commit with no row, and the command can never be repeated for that run (skill_refine.go:92). |
| `SkillBranches!SuggestionsNeverChain` | `SkillBranches_tree` | Candidates of one command do not chain (docs/handoff/004:94); a second command starts from the first's last commit unless the operator returns to main. |

Some more that is true of the code and that no property denies: with an id used again after a
timeout `readLoop` can block for good; with two entries of one id `Run` spins; a suggest that is repeated
from main after a failure stops at the existing branch, with HEAD detached; `mismatch.json` is not
removed by a replay that finds none; a judge that begins during a run may pass a run that then fails.

## 6. Not modelled, and the plan

Left out: the guest's tools, the skill files' parser and lint, the Slack endpoint, the
database's schema and its migrations, the shell lanes, hashing and YAML: pure functions of
text or single writes, with nothing that interleaves. `PROJECT.json` has a line for each. Of the
modelled parts: costs and their gate, the judge's agreement check on a dataset (it writes nothing), two skill
commands at once in one working tree, an operator who deletes a file (with a staged
`git rm` of an older scaffold the first candidate's commit takes the deletion along, and the way back to the
base brings the old files back under the second one), the pull request of a suggest, evidence rows of a research
run and what its reducer demotes, FIFOs and volumes of the VM.

What is left, in the order of its weight:

1. The parts of the modelled components that are named above, first the costs of an evaluation and their gate.
2. Two skill commands at once in one working tree: `cmd` would become a function of processes, and
   `RefineInv` and `SuggestInv`, which say that nobody else writes while a command is under way, would tell which of their steps need it.
3. The link of `VmSession` to `VsockBridge`, and of `SkillRecords` to `RunLedger`, as refinements: the steps that stand
   for the other module are taken from its code by hand.
