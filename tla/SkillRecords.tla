---------------------------- MODULE SkillRecords ----------------------------
(***************************************************************************)
(* What a skill run leaves behind, and the commands that read it.          *)
(* `virmux skill run` (src/cmd/virmux/skill.go) checks the allowlist and   *)
(* the budget, has one tool called in a VM and records the call three      *)
(* times: in files under toolio/ (tool_receipts.go), on a line of the      *)
(* trace and in a row of tool_calls.  A run over its budget is recorded    *)
(* too, and calls nothing.  `skill judge` (src/internal/skill/judgeflow)   *)
(* scores a run from these records; `skill replay`                         *)
(* (src/internal/skill/run/core.go) compares them with each other, or two  *)
(* runs.                                                                   *)
(*                                                                         *)
(* Commands run in any order or at once, every write may fail, and nothing *)
(* is written atomically with anything else.  The VM is abstract: it       *)
(* answers or it does not.  The emission of an event is one step with all  *)
(* its partial outcomes (RunLedger has its interleavings).  Metrics are    *)
(* counted in halves and weights are integers.                             *)
(***************************************************************************)
EXTENDS Integers, Sequences, FiniteSets, SequencesExt

CONSTANTS
  Run, Judge,   \* commands: skill run, skill judge
  Setups,       \* what a run may be asked: its fixture, which is det (deterministic), expects a
                \* "stream", some other "file" or "none", and may ask for a schema; whether its
                \* tool is allowed; the budget of tool calls
  Answers,      \* what the tool may answer: ok, refs (it names its streams), out
  JudgeOf,      \* the run each judge looks at
  RubricOf,     \* of each judge: criterion weights and musts, and the weight to pass
  Moments,      \* where a run may be when a judge begins (a bound)
  Absolute,     \* --runs-dir is an absolute path
  MaxFaults,
  None

Criterion == {"format", "completeness", "actionability"}
Names == {"trace", "meta", "score", "skill", "req", "res", "receipt", "stream"}
Events == {"run.started", "selected", "tool", "marked", "exceeded", "finished", "judge.started", "torn"}
Marks == {"none", "pending", "blocked", "torn"}
Hash == Marks \cup Judge   \* of score.json: what it says

ASSUME RecordsAssumption ==
  /\ \A s \in Setups : s.det \in BOOLEAN /\ s.schema \in BOOLEAN /\ s.allowed \in BOOLEAN
                       /\ s.expect \in {"none", "file", "stream"} /\ s.budget \in Int
  /\ \A a \in Answers : a.ok \in BOOLEAN /\ a.refs \in BOOLEAN
  /\ JudgeOf \in [Judge -> Run]
  /\ \A j \in Judge : LET rb == RubricOf[j] IN rb.w \in [Criterion -> Nat] /\ rb.must \in [Criterion -> BOOLEAN] /\ rb.pass \in Nat \ {0}
  /\ Absolute \in BOOLEAN /\ MaxFaults \in Nat
  /\ None \notin Answers \cup [was : Seq(Hash), now : Hash] /\ Run \cap Judge = {} /\ Judge \cap (Events \cup Marks) = {}

VARIABLES
  \* skill runs
  setup,     \* what each was asked; never changes
  at,        \* where each is
  over,      \* it is over its budget
  err,       \* its runner has met an error
  late,      \* its skill-run.json or score.json could not be written
  told,      \* score.json could
  oops,      \* an error after the runner has returned
  verdict,   \* what the command returned
  answer,    \* the tool's answer
  \* judges
  jat,       \* where each is
  saw,       \* the status of the run it has read
  agreed,    \* what its replay rule says
  pass,      \* its verdict
  early,     \* judges that began before their run had returned
  crowded,   \* judges that have been under way with another one of the same run
  \* records of each run
  row,       \* its row of runs
  lines,     \* its trace: the events, and "torn" for a part of a line
  events,    \* its rows of events
  calls,     \* its row of tool_calls: the answer
  files,     \* files of its directory that are whole, other than the trace and score.json
  score,     \* score.json: "none", "pending", "blocked", "torn" or the judge that wrote it
  scores,    \* rows of scores: the judges
  judgeRuns, \* rows of judge_runs
  registry,  \* names in the artifacts table
  scoreReg,  \* the contents of score.json it has registered, in the order of their rows
  broken,    \* trace writers that have failed: the commands
  seen,      \* what a command has found in the registry for score.json, and the file's content
  faults

running == <<setup, at, over, err, late, told, oops, verdict, answer>>
judging == <<jat, saw, agreed, pass, early, crowded>>
ledger == <<row, lines, events, calls, broken>>
disk == <<files, score>>
rows == <<scores, judgeRuns>>
reg == <<registry, scoreReg, seen>>
vars == <<running, judging, ledger, disk, rows, reg, faults>>

Init ==
  /\ setup \in [Run -> Setups]
  /\ at = [r \in Run |-> "idle"] /\ over = [r \in Run |-> FALSE]
  /\ err = [r \in Run |-> FALSE] /\ late = [r \in Run |-> FALSE] /\ told = [r \in Run |-> FALSE] /\ oops = [r \in Run |-> FALSE]
  /\ verdict = [r \in Run |-> "none"] /\ answer = [r \in Run |-> None]
  /\ jat = [j \in Judge |-> "idle"] /\ saw = [j \in Judge |-> "none"] /\ agreed = [j \in Judge |-> FALSE]
  /\ pass = [j \in Judge |-> FALSE]
  /\ early = {} /\ crowded = {}
  /\ row = [r \in Run |-> "none"] /\ lines = [r \in Run |-> {}] /\ events = [r \in Run |-> {}]
  /\ calls = [r \in Run |-> None]
  /\ files = [r \in Run |-> {}] /\ score = [r \in Run |-> "none"]
  /\ scores = [r \in Run |-> <<>>] /\ judgeRuns = [r \in Run |-> <<>>]
  /\ registry = [r \in Run |-> {}] /\ scoreReg = [r \in Run |-> <<>>]
  /\ broken = {} /\ seen = [p \in Run \cup Judge |-> None] /\ faults = 0

Fault == faults < MaxFaults /\ faults' = faults + 1

(***************************************************************************)
(* emit, by the writer of command p, for run r: the line and the event.    *)
(* A writer whose flush has failed writes no more, and may have left a     *)
(* part of the line.                                                       *)
(***************************************************************************)
Emitted(p, r, e) ==
  /\ p \notin broken
  /\ lines' = [lines EXCEPT ![r] = @ \cup {e}] /\ events' = [events EXCEPT ![r] = @ \cup {e}]
  /\ UNCHANGED <<broken, faults>>

EmitFails(p, r, e) ==
  \/ /\ p \notin broken /\ Fault
     /\ \/ lines' = [lines EXCEPT ![r] = @ \cup {e}] /\ UNCHANGED broken
        \/ lines' \in {lines, [lines EXCEPT ![r] = @ \cup {"torn"}]} /\ broken' = broken \cup {p}
     /\ UNCHANGED events
  \/ p \in broken /\ UNCHANGED <<lines, events, broken, faults>>

(***************************************************************************)
(* skill run                                                               *)
(***************************************************************************)
\* A negative budget does not limit; a budget of zero allows nothing.
OnlyPositiveLimits(r) == ~(setup[r].budget > 0 /\ 1 > setup[r].budget)
BeforeToolCall(r) == ~(setup[r].budget > 0 /\ 1 > setup[r].budget) /\ setup[r].budget # 0

RunPath == <<"row", "started", "selected", "meta", "mark", "tool", "files", "result", "remark",
             "marked", "finished", "finish", "register">>
BudgetPath == <<"row", "started", "meta", "mark", "selected", "exceeded", "finished", "finish", "register">>
NoRowUpdate == <<"row", "started", "meta", "mark", "selected", "exceeded", "finished", "register">>
BudgetSteps == BudgetPath

Path(r) == IF over[r] THEN BudgetSteps ELSE RunPath
After(r) ==
  LET i == CHOOSE k \in DOMAIN Path(r) : Path(r)[k] = at[r] IN
    IF i = Len(Path(r)) THEN "returned" ELSE Path(r)[i + 1]
Goto(r, s) == at' = [at EXCEPT ![r] = s]

\* What the command returns when it gives up.
GiveUp(r) == Goto(r, "returned") /\ verdict' = [verdict EXCEPT ![r] = "error"]

\* The tool must be on the list.  What is over its budget gets a run of its own kind.
Begin(r) ==
  /\ at[r] = "idle"
  /\ IF setup[r].allowed
     THEN Goto(r, "row") /\ over' = [over EXCEPT ![r] = ~BeforeToolCall(r)] /\ UNCHANGED verdict
     ELSE Goto(r, "returned") /\ verdict' = [verdict EXCEPT ![r] = "denied"] /\ UNCHANGED over
  /\ UNCHANGED <<setup, err, late, told, oops, answer, judging, ledger, disk, rows, reg, faults>>

\* prepareRunFiles and StartRun.
StartRun(r) ==
  /\ at[r] = "row"
  /\ \/ /\ files' = [files EXCEPT ![r] = @ \cup {"meta"}] /\ row' = [row EXCEPT ![r] = "running"]
        /\ Goto(r, After(r)) /\ UNCHANGED <<verdict, faults>>
     \/ /\ Fault /\ files' \in {files, [files EXCEPT ![r] = @ \cup {"meta"}]}
        /\ GiveUp(r) /\ UNCHANGED row
  /\ UNCHANGED <<setup, over, err, late, told, oops, answer, judging, lines, events, calls, broken, score, rows, reg>>

\* run.started, or the row is finished as well as can be.
EmitStarted(r) ==
  /\ at[r] = "started"
  /\ \/ Emitted(r, r, "run.started") /\ Goto(r, After(r)) /\ UNCHANGED <<row, verdict>>
     \/ EmitFails(r, r, "run.started") /\ row' = [row EXCEPT ![r] = "failed"] /\ GiveUp(r)
  /\ UNCHANGED <<setup, over, err, late, told, oops, answer, judging, calls, disk, rows, reg>>

\* skill.run.selected.  The wrapped runner returns at once when it fails.
EmitSelected(r) ==
  /\ at[r] = "selected"
  /\ \/ Emitted(r, r, "selected") /\ Goto(r, After(r)) /\ UNCHANGED <<err, verdict>>
     \/ /\ EmitFails(r, r, "selected")
        /\ IF over[r] THEN GiveUp(r) /\ UNCHANGED err
           ELSE Goto(r, "finished") /\ err' = [err EXCEPT ![r] = TRUE] /\ UNCHANGED verdict
  /\ UNCHANGED <<setup, over, late, told, oops, answer, judging, row, calls, disk, rows, reg>>

\* skill-run.json.  In a run within its budget the error waits until the tool has been called.
WriteMeta(r) ==
  /\ at[r] = "meta"
  /\ \/ files' = [files EXCEPT ![r] = @ \cup {"skill"}] /\ Goto(r, After(r)) /\ UNCHANGED <<late, verdict, faults>>
     \/ /\ Fault /\ UNCHANGED files
        /\ IF over[r] THEN GiveUp(r) /\ UNCHANGED late
           ELSE Goto(r, After(r)) /\ late' = [late EXCEPT ![r] = TRUE] /\ UNCHANGED verdict
  /\ UNCHANGED <<setup, over, err, told, oops, answer, judging, ledger, score, rows, reg>>

\* EnsureScorePlaceholder
Placeholder(r) ==
  /\ at[r] = "mark"
  /\ \/ /\ score' = [score EXCEPT ![r] = IF over[r] THEN "blocked" ELSE "pending"]
        /\ told' = [told EXCEPT ![r] = TRUE] /\ Goto(r, After(r))
        /\ UNCHANGED <<late, verdict, faults>>
     \/ /\ Fault /\ score' \in {score, [score EXCEPT ![r] = "torn"]} /\ UNCHANGED told
        /\ IF over[r] THEN GiveUp(r) /\ UNCHANGED late
           ELSE Goto(r, After(r)) /\ late' = [late EXCEPT ![r] = TRUE] /\ UNCHANGED verdict
  /\ UNCHANGED <<setup, over, err, oops, answer, judging, ledger, files, rows, reg>>

\* The VM boots and its agent answers, or not.
CallTool(r) ==
  /\ at[r] = "tool"
  /\ \/ \E a \in Answers : answer' = [answer EXCEPT ![r] = a] /\ Goto(r, After(r)) /\ UNCHANGED err
     \/ Goto(r, "remark") /\ err' = [err EXCEPT ![r] = TRUE] /\ UNCHANGED answer
  /\ UNCHANGED <<setup, over, late, told, oops, verdict, judging, ledger, disk, rows, reg, faults>>

\* materializeToolRefs and writeToolIOArtifacts: up to five files, one after the other.
Streams(r) == IF answer[r].refs THEN {"stream"} ELSE {}
Written(r) == {Streams(r), Streams(r) \cup {"req"}, Streams(r) \cup {"req", "res"}}
WriteToolIO(r) ==
  /\ at[r] = "files"
  /\ \/ files' = [files EXCEPT ![r] = @ \cup Streams(r) \cup {"req", "res", "receipt"}]
        /\ Goto(r, After(r)) /\ UNCHANGED <<err, faults>>
     \/ /\ Fault /\ files' \in {files} \cup {[files EXCEPT ![r] = @ \cup W] : W \in Written(r)}
        /\ Goto(r, "remark") /\ err' = [err EXCEPT ![r] = TRUE]
  /\ UNCHANGED <<setup, over, late, told, oops, verdict, answer, judging, ledger, score, rows, reg>>

\* vm.tool.result is three writes; an answer that is not ok is an error once it is recorded.
ForgetTheEmission(failed, a) == ~a.ok
EmitOrToolFailed(failed, a) == failed \/ ~a.ok
ResultError(failed, a) == EmitOrToolFailed(failed, a)
EmitResult(r) ==
  /\ at[r] = "result"
  /\ \/ /\ Emitted(r, r, "tool") /\ calls' = [calls EXCEPT ![r] = answer[r]]
        /\ err' = [err EXCEPT ![r] = ResultError(FALSE, answer[r])]
     \/ /\ EmitFails(r, r, "tool") /\ UNCHANGED calls
        /\ err' = [err EXCEPT ![r] = ResultError(TRUE, answer[r])]
     \/ /\ r \notin broken /\ Fault /\ UNCHANGED <<calls, broken>>
        /\ lines' = [lines EXCEPT ![r] = @ \cup {"tool"}] /\ events' = [events EXCEPT ![r] = @ \cup {"tool"}]
        /\ err' = [err EXCEPT ![r] = ResultError(TRUE, answer[r])]
  /\ Goto(r, After(r))
  /\ UNCHANGED <<setup, over, late, told, oops, verdict, answer, judging, row, disk, rows, reg>>

\* score.json once more, if it could be written before; what goes wrong is dropped.
Remark(r) ==
  LET mark == IF err[r] THEN "blocked" ELSE "pending" IN
  /\ at[r] = "remark"
  /\ \/ score' = [score EXCEPT ![r] = IF told[r] THEN mark ELSE @] /\ UNCHANGED faults
     \/ told[r] /\ Fault /\ score' \in {score, [score EXCEPT ![r] = "torn"]}
  /\ Goto(r, After(r))
  /\ UNCHANGED <<setup, over, err, late, told, oops, verdict, answer, judging, ledger, files, rows, reg>>

\* skill.score.placeholder; the errors that have waited.
EmitMarked(r) ==
  /\ at[r] = "marked"
  /\ \/ Emitted(r, r, "marked") /\ err' = [err EXCEPT ![r] = @ \/ late[r]]
     \/ EmitFails(r, r, "marked") /\ err' = [err EXCEPT ![r] = TRUE]
  /\ Goto(r, After(r))
  /\ UNCHANGED <<setup, over, late, told, oops, verdict, answer, judging, row, calls, disk, rows, reg>>

\* skill.budget.exceeded
EmitExceeded(r) ==
  /\ at[r] = "exceeded"
  /\ \/ Emitted(r, r, "exceeded") /\ Goto(r, After(r)) /\ UNCHANGED verdict
     \/ EmitFails(r, r, "exceeded") /\ GiveUp(r)
  /\ UNCHANGED <<setup, over, err, late, told, oops, answer, judging, row, calls, disk, rows, reg>>

\* run.finished.  A run within its budget goes on when it fails.
EmitFinished(r) ==
  /\ at[r] = "finished"
  /\ \/ Emitted(r, r, "finished") /\ Goto(r, After(r)) /\ UNCHANGED <<oops, verdict>>
     \/ /\ EmitFails(r, r, "finished")
        /\ IF over[r] THEN GiveUp(r) /\ UNCHANGED oops
           ELSE Goto(r, After(r)) /\ oops' = [oops EXCEPT ![r] = TRUE] /\ UNCHANGED verdict
  /\ UNCHANGED <<setup, over, err, late, told, answer, judging, row, calls, disk, rows, reg>>

FinishRun(r) ==
  /\ at[r] = "finish"
  /\ \/ row' = [row EXCEPT ![r] = IF over[r] \/ err[r] THEN "failed" ELSE "ok"] /\ Goto(r, After(r))
        /\ UNCHANGED <<oops, verdict, faults>>
     \/ /\ Fault /\ UNCHANGED row
        /\ IF over[r] THEN GiveUp(r) /\ UNCHANGED oops
           ELSE Goto(r, After(r)) /\ oops' = [oops EXCEPT ![r] = TRUE] /\ UNCHANGED verdict
  /\ UNCHANGED <<setup, over, err, late, told, answer, judging, lines, events, calls, broken, disk, rows, reg>>

(***************************************************************************)
(* persistRunArtifacts, for score.json: look up what is registered, hash   *)
(* the file, remove the old row when the hash differs (what goes wrong is  *)
(* dropped) and insert.                                                    *)
(***************************************************************************)
Unregistered(old, new) == old = <<>>
Changed(old, new) == old = <<>> \/ Last(old) # new
Outdated(old, new) == Changed(old, new)

Inserted(p, r) ==
  LET s == seen[p] IN
    IF s.now = "none" \/ ~Outdated(s.was, s.now) THEN scoreReg
    ELSE [scoreReg EXCEPT ![r] = IF s.was = <<>> THEN Append(@, s.now) ELSE <<s.now>>]

Register(p, r) ==
  \/ scoreReg' = Inserted(p, r) /\ UNCHANGED faults
  \/ /\ seen[p].was # <<>> /\ Inserted(p, r) # scoreReg /\ Fault
     /\ scoreReg' = [scoreReg EXCEPT ![r] = Append(@, seen[p].now)]

LookAt(p, r) == seen' = [seen EXCEPT ![p] = [was |-> scoreReg[r], now |-> score[r]]]

\* A run registers what it has; score.json only if its runner said where it is.
LookUp(r) ==
  /\ at[r] = "register" /\ seen[r] = None
  /\ LookAt(r, r)
  /\ UNCHANGED <<running, judging, ledger, disk, rows, registry, scoreReg, faults>>

Outcome(r) ==
  IF over[r] THEN "budget" ELSE IF oops[r] THEN "error" ELSE IF err[r] THEN "failed" ELSE "ok"
Persist(r) ==
  /\ at[r] = "register" /\ seen[r] # None
  /\ \/ /\ registry' = [registry EXCEPT ![r] = @ \cup {"trace"} \cup files[r]]
        /\ IF told[r] THEN Register(r, r) ELSE UNCHANGED <<scoreReg, faults>>
        /\ verdict' = [verdict EXCEPT ![r] = Outcome(r)]
     \/ /\ Fault /\ verdict' = [verdict EXCEPT ![r] = "error"]
        /\ \/ registry' \in {[registry EXCEPT ![r] = @ \cup N] : N \in {{}, {"trace"}, {"trace", "meta"}}} /\ UNCHANGED scoreReg
           \/ /\ registry' \in {[registry EXCEPT ![r] = @ \cup N] : N \in {{"trace", "meta"}, {"trace", "meta", "skill"} \cap ({"trace"} \cup files[r])}}
              /\ scoreReg' = IF told[r] THEN Inserted(r, r) ELSE scoreReg
  /\ Goto(r, "returned")
  /\ UNCHANGED <<setup, over, err, late, told, oops, answer, judging, ledger, disk, rows, seen>>

\* The process ends.
RunDies(r) ==
  /\ at[r] \notin {"idle", "returned"} /\ Fault
  /\ Goto(r, "returned") /\ verdict' = [verdict EXCEPT ![r] = "died"]
  /\ UNCHANGED <<setup, over, err, late, told, oops, answer, judging, ledger, disk, rows, reg>>

RunStep(r) ==
  \/ Begin(r) \/ StartRun(r) \/ EmitStarted(r) \/ EmitSelected(r) \/ WriteMeta(r) \/ Placeholder(r)
  \/ CallTool(r) \/ WriteToolIO(r) \/ EmitResult(r) \/ Remark(r) \/ EmitMarked(r) \/ EmitExceeded(r)
  \/ EmitFinished(r) \/ FinishRun(r) \/ LookUp(r) \/ Persist(r) \/ RunDies(r)

(***************************************************************************)
(* skill replay                                                            *)
(***************************************************************************)
\* Every line parses, and every request under toolio/ has its answer.
Readable(r) == "torn" \notin lines[r] /\ ("req" \in files[r] => "res" \in files[r])

\* The rows of the three records, which hash the same bytes.
TraceRows(r) == IF "tool" \in lines[r] THEN <<answer[r]>> ELSE <<>>
FileRows(r) == IF "req" \in files[r] THEN <<answer[r]>> ELSE <<>>
DbRows(r) == IF calls[r] = None THEN <<>> ELSE <<calls[r]>>
Verified(r) == DbRows(r) = FileRows(r) /\ DbRows(r) = TraceRows(r)

\* --against: the tool calls, and then the present content of what either has registered.
\* The paths it finds there are relative to the working directory or absolute, those it
\* looks for to the run's directory.
Det(r) == "skill" \in files[r] => setup[r].det
Content(r, n) ==
  IF n \in {"trace", "meta"} THEN <<n, r>>
  ELSE IF n = "score" THEN <<n, score[r]>> ELSE IF n = "skill" THEN <<n, setup[r]>> ELSE <<n, answer[r]>>
Registered(r) == registry[r] \cup (IF scoreReg[r] = <<>> THEN {} ELSE {"score"})
Inventory(r) == {Content(r, n) : n \in Registered(r)}
Compare(a, b) ==
  IF ~Det(a) \/ ~Det(b) THEN "exempt"
  ELSE IF ~(Readable(a) /\ Readable(b) /\ Verified(a) /\ Verified(b)) THEN "error"
  ELSE IF DbRows(a) # DbRows(b) THEN "mismatch"
  ELSE IF ~Absolute /\ Registered(a) \cup Registered(b) # {} THEN "error"
  ELSE IF Inventory(a) # Inventory(b) THEN "mismatch" ELSE "verified"

(***************************************************************************)
(* skill judge                                                             *)
(***************************************************************************)
Of(j) == JudgeOf[j]
Judging(j) == jat[j] \notin {"idle", "done", "gone"}
To(j, s) == jat' = [jat EXCEPT ![j] = s]

\* It needs skill-run.json and the row, whose status it reads once.
Open(j) ==
  LET others == {k \in Judge \ {j} : Judging(k) /\ Of(k) = Of(j)} IN
  /\ jat[j] = "idle" /\ at[Of(j)] \in Moments
  /\ early' = IF at[Of(j)] = "returned" THEN early ELSE early \cup {j}
  /\ crowded' = IF others = {} THEN crowded ELSE crowded \cup others \cup {j}
  /\ IF "skill" \in files[Of(j)] /\ row[Of(j)] # "none"
     THEN To(j, "start") /\ saw' = [saw EXCEPT ![j] = row[Of(j)]]
     ELSE To(j, "gone") /\ UNCHANGED saw
  /\ UNCHANGED <<running, agreed, pass, ledger, disk, rows, reg, faults>>

EmitJudgeStarted(j) ==
  /\ jat[j] = "start"
  /\ \/ Emitted(j, Of(j), "judge.started") /\ To(j, "rules")
     \/ EmitFails(j, Of(j), "judge.started") /\ To(j, "gone")
  /\ UNCHANGED <<running, saw, agreed, pass, early, crowded, row, calls, disk, rows, reg>>

\* Only a mismatch is a verdict; what cannot be read is an error.
Replay(j) ==
  /\ jat[j] = "rules"
  /\ IF Readable(Of(j)) THEN To(j, "metrics") /\ agreed' = [agreed EXCEPT ![j] = Verified(Of(j))]
     ELSE To(j, "gone") /\ UNCHANGED agreed
  /\ UNCHANGED <<running, saw, pass, early, crowded, ledger, disk, rows, reg, faults>>

\* Tools write streams and nothing else, so what asks for JSON or for sections fails.
BudgetRule(r) == setup[r].budget <= 0 \/ 1 <= setup[r].budget
RulesPass(j) == agreed[j] /\ BudgetRule(Of(j)) /\ ~setup[Of(j)].schema

\* A line of a tool must name its streams.
ValidTrace(r) == "torn" \notin lines[r] /\ ("tool" \in lines[r] => answer[r].refs)

Metric(j) ==
  LET r     == Of(j)
      some  == files[r] \cap {"req", "res", "receipt", "stream"} # {}
      full  == IF some /\ "tool" \in lines[r] THEN 2 ELSE 0
      found == setup[r].expect = "stream" /\ "stream" \in files[r]
  IN  [format |-> IF saw[j] = "ok" THEN 2 ELSE 0,
       completeness |-> IF found THEN (full + 2) \div 2 ELSE full,
       actionability |-> IF some /\ saw[j] = "ok" THEN 2 ELSE 0]

\* The score and the musts, and the rules as further musts of no weight.
Musts(j, m) == \A c \in Criterion : RubricOf[j].must[c] => m[c] >= 1
RubricOnly(j, m) == Musts(j, m)
MustOK(j, m) == Musts(j, m) /\ RulesPass(j)
Score(j, m) ==
  LET w == RubricOf[j].w IN
    w.format * m.format + w.completeness * m.completeness + w.actionability * m.actionability

Evaluate(j) ==
  LET m == Metric(j) IN
  /\ jat[j] = "metrics"
  /\ IF ValidTrace(Of(j))
     THEN To(j, "write") /\ pass' = [pass EXCEPT ![j] = Score(j, m) >= 2 * RubricOf[j].pass /\ MustOK(j, m)]
     ELSE To(j, "gone") /\ UNCHANGED pass
  /\ UNCHANGED <<running, saw, agreed, early, crowded, ledger, disk, rows, reg, faults>>

WriteScore(j) ==
  /\ jat[j] = "write"
  /\ \/ score' = [score EXCEPT ![Of(j)] = j] /\ To(j, "insert") /\ UNCHANGED faults
     \/ Fault /\ score' = [score EXCEPT ![Of(j)] = "torn"] /\ To(j, "gone")
  /\ UNCHANGED <<running, saw, agreed, pass, early, crowded, ledger, files, rows, reg>>

InsertScore(j) ==
  /\ jat[j] = "insert"
  /\ scores' = [scores EXCEPT ![Of(j)] = Append(@, j)] /\ To(j, "judgeRun")
  /\ UNCHANGED <<running, saw, agreed, pass, early, crowded, ledger, disk, judgeRuns, reg, faults>>

InsertJudgeRun(j) ==
  /\ jat[j] = "judgeRun"
  /\ judgeRuns' = [judgeRuns EXCEPT ![Of(j)] = Append(@, j)] /\ To(j, "scored")
  /\ UNCHANGED <<running, saw, agreed, pass, early, crowded, ledger, disk, scores, reg, faults>>

EmitScored(j) ==
  /\ jat[j] = "scored"
  /\ \/ Emitted(j, Of(j), j) /\ To(j, "look")
     \/ EmitFails(j, Of(j), j) /\ To(j, "gone")
  /\ UNCHANGED <<running, saw, agreed, pass, early, crowded, row, calls, disk, rows, reg>>

LookUpScore(j) ==
  /\ jat[j] = "look"
  /\ LookAt(j, Of(j)) /\ To(j, "persist")
  /\ UNCHANGED <<running, saw, agreed, pass, early, crowded, ledger, disk, rows, registry, scoreReg, faults>>

PersistScore(j) ==
  /\ jat[j] = "persist"
  /\ Register(j, Of(j)) /\ To(j, "done")
  /\ UNCHANGED <<running, saw, agreed, pass, early, crowded, ledger, disk, rows, registry, seen>>

\* Any other failure of a write that leaves nothing, and the end of the process.
JudgeLeaves(j) ==
  /\ Judging(j) /\ Fault
  /\ To(j, "gone")
  /\ UNCHANGED <<running, saw, agreed, pass, early, crowded, ledger, disk, rows, reg>>

JudgeStep(j) ==
  \/ Open(j) \/ EmitJudgeStarted(j) \/ Replay(j) \/ Evaluate(j) \/ WriteScore(j) \/ InsertScore(j)
  \/ InsertJudgeRun(j) \/ EmitScored(j) \/ LookUpScore(j) \/ PersistScore(j) \/ JudgeLeaves(j)

Done ==
  /\ \A r \in Run : at[r] = "returned"
  /\ \A j \in Judge : jat[j] \in {"done", "gone"}
  /\ UNCHANGED vars

Next == (\E r \in Run : RunStep(r)) \/ (\E j \in Judge : JudgeStep(j)) \/ Done

Spec == Init /\ [][Next]_vars

(***************************************************************************)
(* Properties                                                              *)
(***************************************************************************)
TypeOK ==
  /\ at \in [Run -> Range(RunPath) \cup Range(BudgetPath) \cup {"idle", "returned"}]
  /\ verdict \in [Run -> {"none", "ok", "failed", "error", "denied", "budget", "died"}]
  /\ jat \in [Judge -> {"idle", "start", "rules", "metrics", "write", "insert", "judgeRun", "scored",
                        "look", "persist", "done", "gone"}]
  /\ row \in [Run -> {"none", "running", "ok", "failed"}]
  /\ files \in [Run -> SUBSET Names] /\ registry \in [Run -> SUBSET Names]
  /\ \A r \in Run : score[r] \in Hash
  /\ faults \in 0 .. MaxFaults

\* A skill run that returns without an error has recorded one call three times alike, with
\* the files that a judge needs, all of it registered; nothing but a judge's own broken
\* write can make the trace unreadable afterwards.  (The code: emit's three writes, the
\* late errors of wrapSkillRunner, persistRunArtifacts.)
OkRunsReplay ==
  \A r \in Run : verdict[r] = "ok" =>
    /\ row[r] = "ok" /\ calls[r] # None /\ calls[r].ok /\ Verified(r)
    /\ {"meta", "skill", "req", "res", "receipt"} \cup Streams(r) \subseteq files[r] \cap registry[r]
    /\ ~Readable(r) => \E j \in Judge \cap broken : Of(j) = r

\* A run that is over its budget calls no tool, and when the command says so the refusal is
\* evidence like any other: a failed row, an event and run.finished on the trace and in the
\* table, a score.json that is blocked until it is judged, all of it registered.
RefusalIsRecorded ==
  \A r \in Run :
    /\ over[r] \/ setup[r].budget = 0 => calls[r] = None /\ files[r] \cap {"req", "res", "stream"} = {}
    /\ verdict[r] = "budget" =>
         /\ row[r] = "failed" /\ {"run.started", "exceeded", "finished"} \subseteq lines[r] \cap events[r]
         /\ {"trace", "meta", "skill"} \subseteq registry[r] /\ scoreReg[r] # <<>>
         /\ score[r] \in {"blocked", "torn"} \cup Judge

\* A passing score of a run that was over when it was judged has earned it: the three
\* records tell the same calls, an ok row where the rubric insists on the format, and in any
\* case a call or the stream that was expected.  (The code: rules override the rubric, and
\* the verdict is computed again.)
PassIsEarned ==
  \A r \in Run : \A j \in Range(scores[r]) \ early : pass[j] =>
    /\ Verified(r) /\ ~setup[r].schema
    /\ RubricOf[j].must["format"] => row[r] = "ok" /\ calls[r] # None
    /\ calls[r] = None => setup[r].expect = "stream" /\ "stream" \in files[r]

\* A passing score of a run that was over is of a run with a call.
PassNeedsACall ==
  \A r \in Run : \A j \in Range(scores[r]) \ early : pass[j] => calls[r] # None

\* Judges of a run that was over and that met no other judge: one that returns has its rows,
\* its event and, while no later one has written, the hash of its score.json in the
\* registry; and score.json is of the newest row or of a judge that has not got so far.
ScoreIsRecorded ==
  \A r \in Run :
    LET J == {j \in Judge : Of(j) = r} IN
      J \cap (early \cup crowded) = {} =>
        /\ \A j \in J : jat[j] = "done" =>
             /\ j \in Range(scores[r]) \cap Range(judgeRuns[r]) /\ j \in lines[r] \cap events[r]
             /\ score[r] = j => Last(scoreReg[r]) = j
        /\ scores[r] # <<>> =>
             \/ score[r] = Last(scores[r])
             \/ score[r] \in (J \ Range(scores[r])) \cup {"torn"}

\* Two runs of one deterministic fixture that were answered alike compare as verified.
\* (The code: CompareReplayHashes.)
SameCallsCompareEqual ==
  \A a, b \in Run :
    a # b /\ verdict[a] = "ok" /\ verdict[b] = "ok" /\ setup[a] = setup[b] /\ setup[a].det
      /\ answer[a] = answer[b] /\ Readable(a) /\ Readable(b) => Compare(a, b) = "verified"

\* Any run that returned without an error can be judged.
OkRunsCanBeJudged == \A r \in Run : verdict[r] = "ok" /\ Readable(r) => ValidTrace(r)
=============================================================================
