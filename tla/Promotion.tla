----------------------------- MODULE Promotion -----------------------------
(***************************************************************************)
(* From an A/B run to the production tag.  `virmux skill ab` evaluates two *)
(* refs on the fixtures of the head ref and records a verdict              *)
(* (src/internal/skill/absvc, src/internal/skill/eval); `virmux skill      *)
(* promote` gates on that record (src/internal/skill/gates), moves the     *)
(* skill's git tag and adds a promotions row; with --rollback it moves the *)
(* tag to a ref it is given (src/internal/skill/promosvc).                 *)
(*                                                                         *)
(* Refs are read by name, more than once, and a branch may move between    *)
(* two reads.  An A/B run is a dozen writes with nothing around them; it   *)
(* leaves at the first that fails.  A promotion is two writes, to git and  *)
(* to SQLite, and operators do not wait for each other.  Scores are        *)
(* integers, medians are doubled, and costs are left out, which have a     *)
(* gate like that of scores.                                               *)
(***************************************************************************)
EXTENDS Integers, Sequences, FiniteSets, SequencesExt

CONSTANTS
  Skill, Fixture, Commit,
  BaseRef, HeadRef,   \* the branches that are compared
  Start,        \* the commit of each branch at first
  Pushes,       \* commits pushed to HeadRef, in their order
  Suite,        \* the fixtures of each commit
  Evaluation,   \* A/B runs, and the skill of each
  SkillOf,
  Settings,     \* of an A/B run: thresholds (score, fail), pairwise, antiTie
  Answers,      \* what promptfoo may answer for a side: fixtures to [score, pass]
  Operator,     \* promotions and rollbacks, in any order and at once
  Requests,     \* what they may ask: op, skill, eval, to, dry
  MaxFaults,
  None

Ref == {BaseRef, HeadRef}

ASSUME PromotionAssumption ==
  /\ Start \in [Ref -> Commit] /\ Pushes \in Seq(Commit)
  /\ Suite \in [Commit -> SUBSET Fixture] /\ IsFiniteSet(Fixture)
  /\ \A raw \in Answers : \A f \in DOMAIN raw : raw[f] \in [score : Int, pass : BOOLEAN]
  /\ SkillOf \in [Evaluation -> Skill]
  /\ \A r \in Requests : r.op \in {"promote", "rollback"} /\ r.skill \in Skill /\ r.dry \in BOOLEAN
       /\ r.eval \in Evaluation \cup {None} /\ r.to \in Ref \cup Commit
  /\ MaxFaults \in Nat
  /\ None \notin Commit \cup Evaluation

VARIABLES
  branch,     \* the commit of each branch
  pushed,     \* how many commits have been pushed
  tag,        \* the production tag of each skill; None: there is none
  \* A/B runs
  pc,         \* where each is
  with,       \* its settings
  body,       \* the commit its head prompt was read from
  tests,      \* the commit its fixtures were read from
  answer,     \* what promptfoo has said of each side
  status,     \* its row of runs
  finished,   \* its trace has run.finished
  \* rows
  evals,      \* eval_runs
  cases,      \* eval_cases: the fixtures
  experiment, \* experiments: is there one
  compared,   \* comparisons: the winner for each fixture
  promotions, \* promotions, in the order of their insertion
  \* operators
  at,         \* where each is
  req,        \* what it was asked
  from, to,   \* the from_ref and commit_sha it will record
  old,        \* evaluations whose verdict is older than --max-age-hours
  raced,      \* two operators have been under way on one tag
  faults

git == <<branch, pushed, tag>>
ab == <<pc, with, body, tests, answer, status, finished>>
rows == <<evals, cases, experiment, compared>>
ops == <<at, req, from, to, raced>>
vars == <<git, ab, rows, promotions, ops, old, faults>>

Empty == [f \in {} |-> None]

Init ==
  /\ branch = Start /\ pushed = 0
  /\ tag \in [Skill -> {None, Start[BaseRef]}]
  /\ pc = [a \in Evaluation |-> "idle"]
  /\ with \in [Evaluation -> Settings]
  /\ body = [a \in Evaluation |-> None] /\ tests = [a \in Evaluation |-> None]
  /\ answer = [a \in Evaluation |-> Empty]
  /\ status = [a \in Evaluation |-> "none"] /\ finished = {}
  /\ evals = Empty /\ cases = [a \in Evaluation |-> {}] /\ experiment = {}
  /\ compared = [a \in Evaluation |-> Empty]
  /\ promotions = <<>>
  /\ at = [o \in Operator |-> "idle"] /\ req = [o \in Operator |-> None]
  /\ from = [o \in Operator |-> None] /\ to = [o \in Operator |-> None]
  /\ old = {} /\ raced = FALSE /\ faults = 0

Fault == faults < MaxFaults /\ faults' = faults + 1

\* Somebody pushes to the head branch.
Push ==
  /\ pushed < Len(Pushes)
  /\ pushed' = pushed + 1
  /\ branch' = [branch EXCEPT ![HeadRef] = Pushes[pushed + 1]]
  /\ UNCHANGED <<tag, ab, rows, promotions, ops, old, faults>>

(***************************************************************************)
(* What the results of an A/B run say                                      *)
(***************************************************************************)
Nothing == [score |-> 0, pass |-> FALSE]

\* A fixture promptfoo has no result for is a failure without a score.
Parsed(raw, ids) == [f \in ids \cup DOMAIN raw |-> IF f \in DOMAIN raw THEN raw[f] ELSE Nothing]

Fails(m) == Cardinality({f \in DOMAIN m : ~m[f].pass})

\* Twice the median of the scores.
Median2(m) ==
  LET ids == SetToSeq(DOMAIN m)
      s   == SortSeq([i \in DOMAIN ids |-> m[ids[i]].score], LAMBDA x, y : x < y)
      mid == Len(s) \div 2
  IN  IF s = <<>> THEN 0
      ELSE IF Len(s) % 2 = 1 THEN 2 * s[mid + 1] ELSE s[mid] + s[mid + 1]

ScoreDelta2(b, h) == Median2(h) - Median2(b)
FailDelta(b, h) == Fails(h) - Fails(b)

\* A delta equal to its threshold passes.
CompareAB(b, h, th) == ScoreDelta2(b, h) >= 2 * th.score /\ FailDelta(b, h) <= th.fail

\* The winner for one fixture.
HigherScoreOnly(b, h, antiTie) ==
  IF h.score > b.score THEN "B" ELSE IF b.score > h.score THEN "A" ELSE "tie"
HeadWins(b, h, antiTie) == h.score > b.score \/ (h.score = b.score /\ h.pass /\ (~b.pass \/ antiTie))
BaseWins(b, h, antiTie) == b.score > h.score \/ (h.score = b.score /\ b.pass /\ ~(h.pass /\ antiTie))
Winner(b, h, antiTie) ==
  IF HeadWins(b, h, antiTie) THEN "B" ELSE IF BaseWins(b, h, antiTie) THEN "A" ELSE "tie"

(***************************************************************************)
(* An A/B run                                                              *)
(***************************************************************************)
Step(a, s) == pc' = [pc EXCEPT ![a] = s]
Ids(a) == Suite[tests[a]]
Side(a, s) == Parsed(answer[a][s], Ids(a))

\* The row is running before anything is read.  The trace has run.started; its errors are
\* dropped.
StartRun(a) ==
  /\ pc[a] = "idle"
  /\ status' = [status EXCEPT ![a] = "running"]
  /\ Step(a, "body")
  /\ UNCHANGED <<git, with, body, tests, answer, finished, rows, promotions, ops, old, faults>>

\* A snapshot is several `git show <ref>:<path>`, each of which looks the ref up again: the
\* prompt, then the list of fixtures and the fixtures.
LoadBody(a) ==
  /\ pc[a] = "body"
  /\ body' = [body EXCEPT ![a] = branch[HeadRef]]
  /\ Step(a, "tests")
  /\ UNCHANGED <<git, with, tests, answer, status, finished, rows, promotions, ops, old, faults>>

LoadTests(a) ==
  /\ pc[a] = "tests"
  /\ tests' = [tests EXCEPT ![a] = branch[HeadRef]]
  /\ Step(a, IF Suite[branch[HeadRef]] = {} THEN "gone" ELSE "base")
  /\ UNCHANGED <<git, with, body, answer, status, finished, rows, promotions, ops, old, faults>>

\* Every fixture of the head must be one of the base.
Frozen(a) == Ids(a) \subseteq Suite[branch[BaseRef]] /\ Suite[branch[BaseRef]] # {}
LoadBase(a) ==
  /\ pc[a] = "base"
  /\ Step(a, IF Frozen(a) THEN "left" ELSE "gone")
  /\ UNCHANGED <<git, with, body, tests, answer, status, finished, rows, promotions, ops, old, faults>>

\* promptfoo, on the head's fixtures with the base's prompt, and then with the head's; up
\* to three ways to call it are tried.  It answers for fixtures it was given, so the two
\* sides have as many cases and a rate of failures compares like their number.  No result
\* at all is an error.
Given(raw, a) == [f \in DOMAIN raw \cap Ids(a) |-> raw[f]]
Evaluate(a, s) ==
  /\ pc[a] = IF s = BaseRef THEN "left" ELSE "right"
  /\ \E raw \in Answers :
       /\ answer' = [answer EXCEPT ![a] = [x \in DOMAIN @ \cup {s} |-> IF x = s THEN Given(raw, a) ELSE @[x]]]
       /\ Step(a, IF Given(raw, a) = Empty THEN "gone" ELSE IF s = BaseRef THEN "right" ELSE "row")
  /\ UNCHANGED <<git, with, body, tests, status, finished, rows, promotions, ops, old, faults>>

\* The verdict file, and then the row that holds the verdict: before the cases.
Passed(a) == CompareAB(Side(a, BaseRef), Side(a, HeadRef), with[a])
InsertEvalRun(a) ==
  /\ pc[a] = "row"
  /\ evals' = [x \in DOMAIN evals \cup {a} |-> IF x # a THEN evals[x] ELSE
       [pass |-> Passed(a), failDelta |-> FailDelta(Side(a, BaseRef), Side(a, HeadRef))]]
  /\ Step(a, "cases")
  /\ UNCHANGED <<git, with, body, tests, answer, status, finished, cases, experiment, compared, promotions, ops, old, faults>>

SkipCases(a) == TRUE
AllCases(a) == cases[a] = Ids(a)
InsertEvalCase(a) ==
  /\ pc[a] = "cases" /\ ~AllCases(a)
  /\ \E f \in Ids(a) \ cases[a] : cases' = [cases EXCEPT ![a] = @ \cup {f}]
  /\ UNCHANGED <<git, ab, evals, experiment, compared, promotions, ops, old, faults>>

Judge(a) ==
  /\ pc[a] = "cases" /\ AllCases(a)
  /\ Step(a, IF with[a].pairwise THEN "exp" ELSE "finish")
  /\ UNCHANGED <<git, with, body, tests, answer, status, finished, rows, promotions, ops, old, faults>>

InsertExperiment(a) ==
  /\ pc[a] = "exp"
  /\ experiment' = experiment \cup {a}
  /\ Step(a, "compare")
  /\ UNCHANGED <<git, with, body, tests, answer, status, finished, evals, cases, compared, promotions, ops, old, faults>>

InsertComparison(a) ==
  /\ pc[a] = "compare" /\ DOMAIN compared[a] # Ids(a)
  /\ \E f \in Ids(a) \ DOMAIN compared[a] :
       LET w == Winner(Side(a, BaseRef)[f], Side(a, HeadRef)[f], with[a].antiTie) IN
         compared' = [compared EXCEPT ![a] = [x \in DOMAIN @ \cup {f} |-> IF x = f THEN w ELSE @[x]]]
  /\ UNCHANGED <<git, ab, evals, cases, experiment, promotions, ops, old, faults>>

Count(a) ==
  /\ pc[a] = "compare" /\ DOMAIN compared[a] = Ids(a)
  /\ Step(a, "finish")
  /\ UNCHANGED <<git, with, body, tests, answer, status, finished, rows, promotions, ops, old, faults>>

\* run.finished and the row's status; what goes wrong with either is dropped.
Finish(a) ==
  /\ pc[a] = "finish"
  /\ \/ /\ finished' = finished \cup {a}
        /\ status' = [status EXCEPT ![a] = IF evals[a].pass THEN "ok" ELSE "failed"]
        /\ UNCHANGED faults
     \/ Fault /\ UNCHANGED finished
        /\ status' = [status EXCEPT ![a] = IF evals[a].pass THEN "ok" ELSE "failed"]
     \/ Fault /\ finished' = finished \cup {a} /\ UNCHANGED status
  /\ Step(a, "done")
  /\ UNCHANGED <<git, with, body, tests, answer, rows, promotions, ops, old>>

\* Any other error, and the end of the process: the run's row stays running.
Leave(a) ==
  /\ pc[a] \notin {"idle", "done", "gone"} /\ Fault
  /\ Step(a, "gone")
  /\ UNCHANGED <<git, with, body, tests, answer, status, finished, rows, promotions, ops, old>>

EvalStep(a) ==
  \/ StartRun(a) \/ LoadBody(a) \/ LoadTests(a) \/ LoadBase(a)
  \/ Evaluate(a, BaseRef) \/ Evaluate(a, HeadRef)
  \/ InsertEvalRun(a) \/ InsertEvalCase(a) \/ Judge(a)
  \/ InsertExperiment(a) \/ InsertComparison(a) \/ Count(a) \/ Finish(a) \/ Leave(a)

(***************************************************************************)
(* Promotions and rollbacks                                                *)
(***************************************************************************)
Goto(o, s) == at' = [at EXCEPT ![o] = s]
UnderWay(o) == at[o] \in {"gate", "tagged", "target", "move", "row"}
Alone(o, s) == \A p \in Operator \ {o} : UnderWay(p) => req[p].skill # s

Ask(o) ==
  /\ at[o] = "idle"
  /\ \E r \in Requests :
       /\ req' = [req EXCEPT ![o] = r]
       /\ Goto(o, IF r.op = "promote" THEN "gate" ELSE "tagged")
       /\ raced' = (raced \/ ~Alone(o, r.skill))
  /\ UNCHANGED <<git, ab, rows, promotions, from, to, old, faults>>

\* The record passes: no more failures than the base, whatever the A/B run tolerated.
PassOnly(e) == evals[e].pass
GateEval(e) == evals[e].failDelta <= 0 /\ evals[e].pass

\* GetEvalRun, the skill, the gates, the age; then from is the base and to the head.
Gate(o) ==
  LET e == req[o].eval IN
  /\ at[o] = "gate"
  /\ IF e \in DOMAIN evals /\ SkillOf[e] = req[o].skill /\ GateEval(e) /\ e \notin old
     THEN Goto(o, "target") /\ from' = [from EXCEPT ![o] = BaseRef]
     ELSE Goto(o, "refused") /\ UNCHANGED from
  /\ UNCHANGED <<git, ab, rows, promotions, req, to, raced, old, faults>>

\* A rollback needs no evaluation, but one it names must be there; from is where the tag is.
ResolveTag(o) ==
  LET s == req[o].skill IN
  /\ at[o] = "tagged"
  /\ IF req[o].eval \in DOMAIN evals \cup {None} /\ tag[s] # None
     THEN Goto(o, "target") /\ from' = [from EXCEPT ![o] = tag[s]]
     ELSE Goto(o, "refused") /\ UNCHANGED from
  /\ UNCHANGED <<git, ab, rows, promotions, req, to, raced, old, faults>>

\* git rev-parse of the head branch, as it is now, or of the ref of a rollback.
Target(o) == IF req[o].op = "promote" THEN HeadRef ELSE req[o].to
Resolve(o) ==
  /\ at[o] = "target"
  /\ to' = [to EXCEPT ![o] = IF Target(o) \in Ref THEN branch[Target(o)] ELSE Target(o)]
  /\ Goto(o, IF req[o].dry THEN "done" ELSE "move")
  /\ UNCHANGED <<git, ab, rows, promotions, req, from, raced, old, faults>>

\* git tag -f
MoveTag(o) ==
  /\ at[o] = "move"
  /\ tag' = [tag EXCEPT ![req[o].skill] = to[o]]
  /\ Goto(o, "row")
  /\ UNCHANGED <<branch, pushed, ab, rows, promotions, req, from, to, raced, old, faults>>

BaseAsFrom(o) == IF req[o].op = "promote" THEN from[o] ELSE branch[BaseRef]
Recorded(o) == from[o]
InsertPromotion(o) ==
  /\ at[o] = "row"
  /\ promotions' = Append(promotions, [op |-> req[o].op, skill |-> req[o].skill, eval |-> req[o].eval,
                                       from |-> Recorded(o), commit |-> to[o]])
  /\ Goto(o, "done")
  /\ UNCHANGED <<git, ab, rows, req, from, to, raced, old, faults>>

\* An error or the end of the process.  The tag is not moved back.
Break(o) ==
  /\ UnderWay(o) /\ Fault
  /\ Goto(o, IF at[o] = "row" THEN "unrecorded" ELSE "refused")
  /\ UNCHANGED <<git, ab, rows, promotions, req, from, to, raced, old>>

\* A verdict passes its age.
Age(a) ==
  /\ a \in DOMAIN evals \ old
  /\ old' = old \cup {a}
  /\ UNCHANGED <<git, ab, rows, promotions, ops, faults>>

OperatorStep(o) ==
  \/ Ask(o) \/ Gate(o) \/ ResolveTag(o) \/ Resolve(o) \/ MoveTag(o) \/ InsertPromotion(o) \/ Break(o)

Done ==
  /\ \A a \in Evaluation : pc[a] \in {"done", "gone"}
  /\ \A o \in Operator : ~UnderWay(o) /\ at[o] # "idle"
  /\ UNCHANGED vars

Next ==
  \/ Push
  \/ \E a \in Evaluation : EvalStep(a) \/ Age(a)
  \/ \E o \in Operator : OperatorStep(o)
  \/ Done

Spec == Init /\ [][Next]_vars

(***************************************************************************)
(* Properties                                                              *)
(***************************************************************************)
Promoted == [op : {"promote", "rollback"}, skill : Skill, eval : Evaluation \cup {None},
             from : Commit \cup {BaseRef, None}, commit : Commit]

TypeOK ==
  /\ branch \in [Ref -> Commit] /\ pushed \in 0 .. Len(Pushes) /\ tag \in [Skill -> Commit \cup {None}]
  /\ pc \in [Evaluation -> {"idle", "body", "tests", "base", "left", "right", "row", "cases", "exp",
                            "compare", "finish", "done", "gone"}]
  /\ with \in [Evaluation -> Settings]
  /\ body \in [Evaluation -> Commit \cup {None}] /\ tests \in [Evaluation -> Commit \cup {None}]
  /\ DOMAIN answer = Evaluation /\ DOMAIN compared = Evaluation
  /\ status \in [Evaluation -> {"none", "running", "ok", "failed"}]
  /\ finished \subseteq Evaluation /\ experiment \subseteq Evaluation /\ old \subseteq DOMAIN evals
  /\ DOMAIN evals \subseteq Evaluation /\ cases \in [Evaluation -> SUBSET Fixture]
  /\ promotions \in Seq(Promoted)
  /\ at \in [Operator -> {"idle", "gate", "tagged", "target", "move", "row", "done", "refused", "unrecorded"}]
  /\ req \in [Operator -> Requests \cup {None}]
  /\ from \in [Operator -> Commit \cup {BaseRef, None}] /\ to \in [Operator -> Commit \cup {None}]
  /\ raced \in BOOLEAN /\ faults \in 0 .. MaxFaults

\* The rows of a skill, by their places in the table, and its last one.
Of(s) == {i \in DOMAIN promotions : promotions[i].skill = s}
IsLast(i, s) == i \in Of(s) /\ \A j \in Of(s) : j <= i
Follows(i, j, s) == i \in Of(s) /\ j \in Of(s) /\ j < i /\ \A k \in Of(s) : ~(j < k /\ k < i)

\* The commits of the head branch from c on.
History == <<Start[HeadRef]>> \o Pushes
Since(c) == {History[j] : j \in {k \in DOMAIN History : \E i \in 1 .. k : History[i] = c}}
Failed(raw, ids) == {f \in ids : f \notin DOMAIN raw \/ ~raw[f].pass}

\* Whatever an A/B run was told to tolerate and wherever the branches have gone since, a
\* promotion is of an evaluation of that skill in which the head failed on no more of its
\* fixtures than the base, and moves the tag to a commit that is not older than the one
\* whose prompt was evaluated.  (The code: CompareAB and its thresholds, GateEval's own
\* look at the fail rate, the refs that are resolved when they are used.)
PromotedIsNoRegression ==
  \A i \in DOMAIN promotions :
    LET p == promotions[i] IN
      p.op = "promote" =>
        /\ p.eval \in DOMAIN evals /\ SkillOf[p.eval] = p.skill
        /\ LET ids == Suite[tests[p.eval]] IN
             Cardinality(Failed(answer[p.eval][HeadRef], ids)) <= Cardinality(Failed(answer[p.eval][BaseRef], ids))
        /\ p.commit \in Since(body[p.eval])

\* The promotions table explains the tag.  Always: a tag that was moved is named by a row,
\* or by an operator who has not yet recorded it or never will.  And unless one of these
\* exists or two operators met: the tag is where the last row says, and every rollback
\* says it came from where the row before it went.  (The code: resolve, git tag, insert.)
Unrecorded(s) == {o \in Operator : at[o] \in {"row", "unrecorded"} /\ req[o].skill = s}
HistoryExplainsTag ==
  \A s \in Skill :
    /\ tag[s] \in {None, Start[BaseRef]} \cup {promotions[i].commit : i \in Of(s)} \cup {to[o] : o \in Unrecorded(s)}
    /\ ~raced /\ Unrecorded(s) = {} =>
         \A i \in Of(s) :
           /\ IsLast(i, s) => tag[s] = promotions[i].commit
           /\ promotions[i].op = "rollback" =>
                \A j \in Of(s) : Follows(i, j, s) => promotions[i].from = promotions[j].commit

\* The same, of an operator who has come to an end and not recorded what he did.
TagHasItsRow ==
  \A s \in Skill :
    ~raced /\ (\A o \in Operator : at[o] # "row") =>
      \A i \in Of(s) : IsLast(i, s) => tag[s] = promotions[i].commit

\* An A/B run that returns a verdict has left what backs it: the verdict of the very
\* results, a case for each fixture, and in a pairwise run a winner for each, which is
\* neither only if both sides fail alike.  (The code: the order of the inserts, each with
\* its early return.)
ResultIsBacked ==
  \A a \in Evaluation : pc[a] = "done" =>
    LET ids == Suite[tests[a]]
        b   == answer[a][BaseRef]
        h   == answer[a][HeadRef]
    IN  /\ a \in DOMAIN evals
        /\ evals[a].failDelta = Cardinality(Failed(h, ids)) - Cardinality(Failed(b, ids))
        /\ cases[a] = ids
        /\ with[a].pairwise => a \in experiment /\ DOMAIN compared[a] = ids
        /\ \A f \in DOMAIN compared[a] : compared[a][f] = "tie" => f \in Failed(b, ids) \cap Failed(h, ids)
        /\ faults = 0 => a \in finished /\ status[a] = IF evals[a].pass THEN "ok" ELSE "failed"
=============================================================================
