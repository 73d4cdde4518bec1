--------------------------- MODULE PromotionProofs ---------------------------
(***************************************************************************)
(* Theorems about Promotion, for any branches and pushes, any A/B runs,    *)
(* settings and answers, any operators and requests, and any number of     *)
(* faults.                                                                 *)
(***************************************************************************)
EXTENDS Promotion, FiniteSetTheorems, SequenceTheorems, TLAPS

\* An A/B run that has its verdict in the table.
Late == {"cases", "exp", "compare", "finish", "done"}

\* The head branch moves along its history, and a prompt was read from a place behind it.
HeadsMoveOn ==
  /\ branch[HeadRef] = History[pushed + 1]
  /\ \A a \in Evaluation : body[a] # None => \E j \in 1 .. pushed + 1 : body[a] = History[j]

\* What an A/B run has when it is at its place.
Result(m) == \A f \in DOMAIN m : m[f] \in [score : Int, pass : BOOLEAN]
Loaded ==
  \A a \in Evaluation :
    /\ pc[a] \notin {"idle", "body", "gone"} => body[a] # None
    /\ pc[a] \notin {"idle", "body", "tests", "gone"} => tests[a] # None
    /\ pc[a] \in {"idle", "body", "tests"} => DOMAIN answer[a] = {}
    /\ pc[a] = "right" => BaseRef \in DOMAIN answer[a]
    /\ pc[a] = "row" => Ref \subseteq DOMAIN answer[a]
    /\ \A s \in DOMAIN answer[a] :
         tests[a] # None /\ DOMAIN answer[a][s] \subseteq Ids(a) /\ Result(answer[a][s])

\* A verdict in the table is that of the answers, which stay as they are.
RowsAreTrue ==
  \A a \in DOMAIN evals :
    /\ pc[a] \in Late \cup {"gone"}
    /\ body[a] # None /\ tests[a] # None /\ Ref \subseteq DOMAIN answer[a]
    /\ evals[a].failDelta = FailDelta(Side(a, BaseRef), Side(a, HeadRef))

\* The evidence that has been written when an A/B run is at its place.
Backed ==
  \A a \in Evaluation :
    /\ pc[a] \in Late => a \in DOMAIN evals
    /\ pc[a] \in Late \ {"cases"} => cases[a] = Ids(a)
    /\ pc[a] = "compare" => a \in experiment
    /\ pc[a] \in {"finish", "done"} /\ with[a].pairwise => a \in experiment /\ DOMAIN compared[a] = Ids(a)
    /\ \A f \in DOMAIN compared[a] :
         /\ a \in DOMAIN evals /\ f \in Ids(a)
         /\ compared[a][f] = "tie" => ~Side(a, BaseRef)[f].pass /\ ~Side(a, HeadRef)[f].pass
    /\ faults = 0 /\ pc[a] = "done" => a \in finished /\ status[a] = IF evals[a].pass THEN "ok" ELSE "failed"

EInv == HeadsMoveOn /\ Loaded /\ RowsAreTrue /\ Backed

\* An evaluation that supports a promotion of skill s, and a commit it supports.
Supports(e, s) == e \in DOMAIN evals /\ SkillOf[e] = s /\ evals[e].failDelta <= 0
NotOlder(c, e) == c \in Since(body[e])

\* An operator has asked for what he does, and has passed the gate.
Asked ==
  \A o \in Operator :
    /\ at[o] # "idle" => req[o] \in Requests
    /\ at[o] = "gate" => req[o].op = "promote"
    /\ at[o] = "tagged" => req[o].op = "rollback"
    /\ at[o] \in {"move", "row", "unrecorded"} => to[o] \in Commit
    /\ at[o] \in {"target", "move", "row"} /\ req[o].op = "promote" => Supports(req[o].eval, req[o].skill)
    /\ at[o] \in {"move", "row"} /\ req[o].op = "promote" => NotOlder(to[o], req[o].eval)

Earned ==
  \A i \in DOMAIN promotions :
    promotions[i].op = "promote" =>
      Supports(promotions[i].eval, promotions[i].skill) /\ NotOlder(promotions[i].commit, promotions[i].eval)

\* The first half of HistoryExplainsTag.
Accounted ==
  \A s \in Skill :
    tag[s] \in {None, Start[BaseRef]} \cup {promotions[i].commit : i \in Of(s)} \cup {to[o] : o \in Unrecorded(s)}

\* Operators who have not met are not under way on one tag.
Exclusive ==
  ~raced => \A o, p \in Operator : o # p /\ UnderWay(o) /\ UnderWay(p) => req[o].skill # req[p].skill

\* Unless operators have met or one has left his move unrecorded: the tag is where the last
\* row says, or where the operator has moved it who is about to record it; a rollback has
\* started from the last row; every recorded one has started from the row before it.
Forgotten(s) == \E o \in Operator : at[o] = "unrecorded" /\ req[o].skill = s
Moved(s) == \E o \in Operator : at[o] = "row" /\ req[o].skill = s /\ tag[s] = to[o]
StoryOf(s) ==
  /\ \A i \in Of(s) :
       promotions[i].op = "rollback" =>
         \A j \in Of(s) : Follows(i, j, s) => promotions[i].from = promotions[j].commit
  /\ \A i \in Of(s) : IsLast(i, s) => tag[s] = promotions[i].commit \/ Moved(s)
  /\ \A o \in Operator : at[o] # "idle" /\ req[o].skill = s =>
       /\ at[o] = "row" => tag[s] = to[o]
       /\ at[o] \in {"target", "move", "row"} /\ req[o].op = "rollback" =>
            \A i \in Of(s) : IsLast(i, s) => from[o] = promotions[i].commit
Story == \A s \in Skill : ~raced /\ ~Forgotten(s) => StoryOf(s)

OInv == Asked /\ Earned /\ Accounted /\ Exclusive /\ Story

\* The inductive invariant: of the A/B runs, and of the operators.
IInv == TypeOK /\ EInv /\ OInv

(***************************************************************************)
(* Lemmas about the operators                                              *)
(***************************************************************************)
LEMMA HistoryIsASequence ==
  /\ History \in Seq(Commit) /\ Len(History) = Len(Pushes) + 1 /\ Len(Pushes) \in Nat
  /\ History[1] = Start[HeadRef]
  /\ \A i \in 1 .. Len(Pushes) : History[i + 1] = Pushes[i]
<1>1. <<Start[HeadRef]>> \in Seq(Commit) /\ Pushes \in Seq(Commit)
  BY PromotionAssumption DEF Ref
<1> QED
  BY <1>1, ConcatProperties DEF History

\* A commit of the head branch is not older than those before it.
LEMMA HeadIsNotOlder ==
  ASSUME NEW n \in 0 .. Len(Pushes), NEW j \in 1 .. n + 1
  PROVE  History[n + 1] \in Since(History[j])
<1>1. n + 1 \in DOMAIN History
  BY HistoryIsASequence
<1>2. j \in 1 .. n + 1 /\ History[j] = History[j]
  OBVIOUS
<1> QED
  BY <1>1, <1>2 DEF Since

\* What was not answered counts as failed, and the set of failures is finite.
LEMMA FailsAreFailures ==
  ASSUME NEW raw, NEW ids \in SUBSET Fixture, DOMAIN raw \subseteq ids
  PROVE  Fails(Parsed(raw, ids)) = Cardinality(Failed(raw, ids)) /\ Cardinality(Failed(raw, ids)) \in Nat
<1> DEFINE m == Parsed(raw, ids)
<1>1. DOMAIN m = ids
  BY DEF Parsed
<1>2. \A f \in ids : m[f] = IF f \in DOMAIN raw THEN raw[f] ELSE Nothing
  BY DEF Parsed
<1>3. {f \in DOMAIN m : ~m[f].pass} = Failed(raw, ids)
  BY <1>1, <1>2 DEF Failed, Nothing
<1>4. IsFiniteSet(ids)
  BY PromotionAssumption, FS_Subset
<1>5. IsFiniteSet(Failed(raw, ids))
  BY <1>4, FS_Subset DEF Failed
<1> QED
  BY <1>3, <1>5, FS_CardinalityType DEF Fails

\* A tie is a fixture on which both fail.
LEMMA TiesFail ==
  ASSUME NEW b \in [score : Int, pass : BOOLEAN], NEW h \in [score : Int, pass : BOOLEAN], NEW antiTie,
         Winner(b, h, antiTie) = "tie"
  PROVE  ~b.pass /\ ~h.pass
<1>1. h.score > b.score \/ b.score > h.score \/ h.score = b.score
  OBVIOUS
<1>2. h.pass \in BOOLEAN /\ b.pass \in BOOLEAN
  OBVIOUS
<1> QED
  BY <1>1, <1>2 DEF Winner, HeadWins, BaseWins

\* A side of the results: a case for each fixture, each with a score.
LEMMA SideIsAResult ==
  ASSUME NEW a, NEW s, DOMAIN answer[a][s] \subseteq Ids(a), Result(answer[a][s])
  PROVE  DOMAIN Side(a, s) = Ids(a) /\ Result(Side(a, s))
BY DEF Side, Parsed, Result, Nothing

(***************************************************************************)
(* A/B runs                                                                *)
(***************************************************************************)
LEMMA InitIInv == Init => IInv
<1> SUFFICES ASSUME Init PROVE IInv
  OBVIOUS
<1>1. TypeOK
  <2>1. Start[BaseRef] \in Commit
    BY PromotionAssumption DEF Ref
  <2>2. tag \in [Skill -> Commit \cup {None}]
    BY <2>1 DEF Init
  <2>3. pushed \in 0 .. Len(Pushes) /\ branch \in [Ref -> Commit] /\ faults \in 0 .. MaxFaults
    BY HistoryIsASequence, PromotionAssumption DEF Init
  <2>4. DOMAIN evals = {} /\ old = {} /\ promotions \in Seq(Promoted)
    BY DEF Init, Empty
  <2> QED
    BY <2>2, <2>3, <2>4 DEF Init, TypeOK
<1>2. EInv
  BY HistoryIsASequence DEF Init, EInv, HeadsMoveOn, Loaded, RowsAreTrue, Backed, Empty, Late
<1>3. OInv
  BY DEF Init, OInv, Asked, Earned, Accounted, Exclusive, Story, StoryOf, Of, UnderWay, IsLast
<1> QED
  BY <1>1, <1>2, <1>3 DEF IInv

\* Rows of eval_runs, and the prompts they are of, stay as they are.
RowsStay ==
  \A e \in DOMAIN evals : e \in DOMAIN evals' /\ evals'[e] = evals[e] /\ body'[e] = body[e]

\* Steps that read nothing, answer nothing and write no row.
LEMMA StartRunKeeps ==
  ASSUME TypeOK, EInv, NEW a \in Evaluation, StartRun(a)
  PROVE  TypeOK' /\ EInv' /\ RowsStay
<1> USE DEF StartRun, Step, git, rows, ops
<1>1. TypeOK'
  BY DEF TypeOK
<1>2. HeadsMoveOn'
  BY DEF EInv, HeadsMoveOn
<1>3. Loaded'
  BY DEF EInv, Loaded, TypeOK, Ids
<1>4. RowsAreTrue'
  BY DEF EInv, RowsAreTrue, TypeOK, Ids, Side, Late
<1>5. Backed'
  BY DEF EInv, Backed, TypeOK, Ids, Side, Late
<1> QED
  BY <1>1, <1>2, <1>3, <1>4, <1>5 DEF EInv, RowsStay

LEMMA LoadBodyKeeps ==
  ASSUME TypeOK, EInv, NEW a \in Evaluation, LoadBody(a)
  PROVE  TypeOK' /\ EInv' /\ RowsStay
<1> USE DEF LoadBody, Step, git, rows, ops
<1>0. branch[HeadRef] \in Commit /\ a \notin DOMAIN evals
  BY DEF TypeOK, Ref, EInv, RowsAreTrue, Late
<1>1. TypeOK'
  BY <1>0 DEF TypeOK
<1>2. HeadsMoveOn'
  BY DEF EInv, HeadsMoveOn, TypeOK
<1>3. Loaded'
  BY <1>0, PromotionAssumption DEF EInv, Loaded, TypeOK, Ids
<1>4. RowsAreTrue'
  BY <1>0 DEF EInv, RowsAreTrue, TypeOK, Ids, Side, Late
<1>5. Backed'
  BY <1>0 DEF EInv, Backed, TypeOK, Ids, Side, Late
<1> QED
  BY <1>0, <1>1, <1>2, <1>3, <1>4, <1>5 DEF EInv, RowsStay, TypeOK

LEMMA LoadTestsKeeps ==
  ASSUME TypeOK, EInv, NEW a \in Evaluation, LoadTests(a)
  PROVE  TypeOK' /\ EInv' /\ RowsStay
<1> USE DEF LoadTests, Step, git, rows, ops
<1>0. branch[HeadRef] \in Commit /\ a \notin DOMAIN evals
  BY DEF TypeOK, Ref, EInv, RowsAreTrue, Late
<1>1. TypeOK'
  BY <1>0 DEF TypeOK
<1>2. HeadsMoveOn'
  BY DEF EInv, HeadsMoveOn, TypeOK
<1>3. Loaded'
  BY <1>0, PromotionAssumption DEF EInv, Loaded, TypeOK, Ids
<1>4. RowsAreTrue'
  BY <1>0 DEF EInv, RowsAreTrue, TypeOK, Ids, Side, Late
<1>5. Backed'
  BY <1>0 DEF EInv, Backed, TypeOK, Ids, Side, Late
<1> QED
  BY <1>0, <1>1, <1>2, <1>3, <1>4, <1>5 DEF EInv, RowsStay, TypeOK

LEMMA LoadBaseKeeps ==
  ASSUME TypeOK, EInv, NEW a \in Evaluation, LoadBase(a)
  PROVE  TypeOK' /\ EInv' /\ RowsStay
<1> USE DEF LoadBase, Step, git, rows, ops
<1>1. TypeOK'
  BY DEF TypeOK
<1>2. HeadsMoveOn'
  BY DEF EInv, HeadsMoveOn
<1>3. Loaded'
  BY DEF EInv, Loaded, TypeOK, Ids
<1>4. RowsAreTrue'
  BY DEF EInv, RowsAreTrue, TypeOK, Ids, Side, Late
<1>5. Backed'
  BY DEF EInv, Backed, TypeOK, Ids, Side, Late
<1> QED
  BY <1>1, <1>2, <1>3, <1>4, <1>5 DEF EInv, RowsStay

LEMMA EvaluateKeeps ==
  ASSUME TypeOK, EInv, NEW a \in Evaluation, NEW s \in Ref, Evaluate(a, s)
  PROVE  TypeOK' /\ EInv' /\ RowsStay
<1> USE DEF Step, git, rows, ops
<1>0. a \notin DOMAIN evals /\ pc[a] \in {"left", "right"}
  BY DEF EInv, RowsAreTrue, Late, Evaluate
<1>1. PICK raw \in Answers :
        /\ answer' = [answer EXCEPT ![a] = [x \in DOMAIN @ \cup {s} |-> IF x = s THEN Given(raw, a) ELSE @[x]]]
        /\ pc' = [pc EXCEPT ![a] = IF Given(raw, a) = Empty THEN "gone" ELSE IF s = BaseRef THEN "right" ELSE "row"]
  BY DEF Evaluate
<1>2. UNCHANGED <<branch, pushed, tag, with, body, tests, status, finished, evals, cases, experiment, compared,
                  promotions, at, req, from, to, raced, old, faults>>
  BY DEF Evaluate
<1>3. DOMAIN Given(raw, a) \subseteq Ids(a) /\ Result(Given(raw, a))
  BY PromotionAssumption DEF Given, Result
<1>4. /\ DOMAIN answer' = Evaluation
      /\ DOMAIN answer'[a] = DOMAIN answer[a] \cup {s}
      /\ answer'[a][s] = Given(raw, a)
      /\ \A x \in DOMAIN answer[a] : x # s => answer'[a][x] = answer[a][x]
      /\ \A b \in Evaluation : b # a => answer'[b] = answer[b]
  BY <1>1 DEF TypeOK
<1>5. TypeOK'
  BY <1>1, <1>2, <1>4 DEF TypeOK
<1>6. HeadsMoveOn'
  BY <1>2 DEF EInv, HeadsMoveOn
<1>7. s = BaseRef => pc[a] = "left"
  BY DEF Evaluate
<1>8. s # BaseRef => s = HeadRef /\ pc[a] = "right"
  BY DEF Evaluate, Ref
<1>9. Loaded'
  BY <1>0, <1>1, <1>2, <1>3, <1>4, <1>7, <1>8 DEF EInv, Loaded, TypeOK, Ids, Ref
<1>10. RowsAreTrue'
  BY <1>0, <1>1, <1>2, <1>4 DEF EInv, RowsAreTrue, TypeOK, Ids, Side, Late
<1>11. Backed'
  BY <1>0, <1>1, <1>2, <1>4 DEF EInv, Backed, TypeOK, Ids, Side, Late
<1> QED
  BY <1>2, <1>5, <1>6, <1>9, <1>10, <1>11 DEF EInv, RowsStay

LEMMA InsertEvalRunKeeps ==
  ASSUME TypeOK, EInv, NEW a \in Evaluation, InsertEvalRun(a)
  PROVE  TypeOK' /\ EInv' /\ RowsStay
<1> USE DEF InsertEvalRun, Step, git, rows, ops
<1>0. a \notin DOMAIN evals
  BY DEF EInv, RowsAreTrue, Late
<1>1. /\ DOMAIN evals' = DOMAIN evals \cup {a}
      /\ \A e \in DOMAIN evals : evals'[e] = evals[e]
      /\ evals'[a].failDelta = FailDelta(Side(a, BaseRef), Side(a, HeadRef))
  BY <1>0
<1>2. TypeOK'
  BY <1>1 DEF TypeOK
<1>3. HeadsMoveOn'
  BY DEF EInv, HeadsMoveOn
<1>4. Loaded'
  BY DEF EInv, Loaded, TypeOK, Ids
<1>5. RowsAreTrue'
  BY <1>1 DEF EInv, RowsAreTrue, Loaded, TypeOK, Ids, Side, Late
<1>6. Backed'
  BY <1>0, <1>1 DEF EInv, Backed, TypeOK, Ids, Side, Late
<1> QED
  BY <1>1, <1>2, <1>3, <1>4, <1>5, <1>6 DEF EInv, RowsStay

LEMMA InsertEvalCaseKeeps ==
  ASSUME TypeOK, EInv, NEW a \in Evaluation, InsertEvalCase(a)
  PROVE  TypeOK' /\ EInv' /\ RowsStay
<1> USE DEF InsertEvalCase, git, ab, ops
<1>0. Ids(a) \subseteq Fixture
  BY PromotionAssumption DEF EInv, Loaded, TypeOK, Ids
<1>1. TypeOK'
  BY <1>0 DEF TypeOK
<1>2. HeadsMoveOn'
  BY DEF EInv, HeadsMoveOn
<1>3. Loaded'
  BY DEF EInv, Loaded, TypeOK, Ids
<1>4. RowsAreTrue'
  BY DEF EInv, RowsAreTrue, TypeOK, Ids, Side, Late
<1>5. Backed'
  BY DEF EInv, Backed, TypeOK, Ids, Side, Late
<1> QED
  BY <1>1, <1>2, <1>3, <1>4, <1>5 DEF EInv, RowsStay

LEMMA JudgeKeeps ==
  ASSUME TypeOK, EInv, NEW a \in Evaluation, Judge(a)
  PROVE  TypeOK' /\ EInv' /\ RowsStay
<1> USE DEF Judge, AllCases, Step, git, rows, ops
<1>1. TypeOK'
  BY DEF TypeOK
<1>2. HeadsMoveOn'
  BY DEF EInv, HeadsMoveOn
<1>3. Loaded'
  BY DEF EInv, Loaded, TypeOK, Ids
<1>4. RowsAreTrue'
  BY DEF EInv, RowsAreTrue, TypeOK, Ids, Side, Late
<1>5. Backed'
  BY DEF EInv, Backed, TypeOK, Ids, Side, Late
<1> QED
  BY <1>1, <1>2, <1>3, <1>4, <1>5 DEF EInv, RowsStay

LEMMA InsertExperimentKeeps ==
  ASSUME TypeOK, EInv, NEW a \in Evaluation, InsertExperiment(a)
  PROVE  TypeOK' /\ EInv' /\ RowsStay
<1> USE DEF InsertExperiment, Step, git, rows, ops
<1>1. TypeOK'
  BY DEF TypeOK
<1>2. HeadsMoveOn'
  BY DEF EInv, HeadsMoveOn
<1>3. Loaded'
  BY DEF EInv, Loaded, TypeOK, Ids
<1>4. RowsAreTrue'
  BY DEF EInv, RowsAreTrue, TypeOK, Ids, Side, Late
<1>5. Backed'
  BY DEF EInv, Backed, TypeOK, Ids, Side, Late
<1> QED
  BY <1>1, <1>2, <1>3, <1>4, <1>5 DEF EInv, RowsStay

LEMMA InsertComparisonKeeps ==
  ASSUME TypeOK, EInv, NEW a \in Evaluation, InsertComparison(a)
  PROVE  TypeOK' /\ EInv' /\ RowsStay
<1> USE DEF git, ab, ops
<1>1. PICK f \in Ids(a) : compared' = [compared EXCEPT ![a] =
        [x \in DOMAIN @ \cup {f} |->
           IF x = f THEN Winner(Side(a, BaseRef)[f], Side(a, HeadRef)[f], with[a].antiTie) ELSE @[x]]]
  BY DEF InsertComparison
<1>2. pc[a] = "compare" /\ UNCHANGED <<git, ab, evals, cases, experiment, promotions, ops, old, faults>>
  BY DEF InsertComparison
<1>3. a \in DOMAIN evals
  BY <1>2 DEF EInv, Backed, Late
<1>4. \A s \in Ref : DOMAIN Side(a, s) = Ids(a) /\ Result(Side(a, s))
  BY <1>3, SideIsAResult DEF EInv, RowsAreTrue, Loaded
<1>5. \A s \in Ref : Side(a, s)[f] \in [score : Int, pass : BOOLEAN]
  BY <1>4 DEF Result
<1>6. BaseRef \in Ref /\ HeadRef \in Ref
  BY DEF Ref
<1>7. Winner(Side(a, BaseRef)[f], Side(a, HeadRef)[f], with[a].antiTie) = "tie"
        => ~Side(a, BaseRef)[f].pass /\ ~Side(a, HeadRef)[f].pass
  BY <1>5, <1>6, TiesFail
<1>8. /\ DOMAIN compared' = Evaluation
      /\ \A b \in Evaluation : b # a => compared'[b] = compared[b]
      /\ \A x \in DOMAIN compared'[a] :
           \/ x \in DOMAIN compared[a] /\ compared'[a][x] = compared[a][x]
           \/ x = f /\ (compared'[a][x] = "tie" => ~Side(a, BaseRef)[f].pass /\ ~Side(a, HeadRef)[f].pass)
  BY <1>1, <1>7 DEF TypeOK
<1>9. TypeOK'
  BY <1>2, <1>8 DEF TypeOK
<1>10. HeadsMoveOn' /\ Loaded' /\ RowsAreTrue'
  BY <1>2 DEF EInv, HeadsMoveOn, Loaded, RowsAreTrue, TypeOK, Ids, Side, Late
<1>11. Backed'
  <2> SUFFICES ASSUME NEW b \in Evaluation
               PROVE  /\ pc'[b] \in {"finish", "done"} /\ with'[b].pairwise => DOMAIN compared'[b] = Ids(b)'
                      /\ \A x \in DOMAIN compared'[b] :
                           /\ b \in DOMAIN evals' /\ x \in Ids(b)'
                           /\ compared'[b][x] = "tie" => ~Side(b, BaseRef)'[x].pass /\ ~Side(b, HeadRef)'[x].pass
    BY <1>2 DEF EInv, Backed, Ids, Side, Late
  <2>1. Ids(b)' = Ids(b) /\ Side(b, BaseRef)' = Side(b, BaseRef) /\ Side(b, HeadRef)' = Side(b, HeadRef)
    BY <1>2 DEF Ids, Side
  <2>2. CASE b # a
    BY <1>2, <1>8, <2>1, <2>2 DEF EInv, Backed
  <2>3. CASE b = a
    BY <1>2, <1>3, <1>8, <2>1, <2>3 DEF EInv, Backed
  <2> QED
    BY <2>2, <2>3
<1> QED
  BY <1>2, <1>9, <1>10, <1>11 DEF EInv, RowsStay

LEMMA CountKeeps ==
  ASSUME TypeOK, EInv, NEW a \in Evaluation, Count(a)
  PROVE  TypeOK' /\ EInv' /\ RowsStay
<1> USE DEF Count, Step, git, rows, ops
<1>1. TypeOK'
  BY DEF TypeOK
<1>2. HeadsMoveOn'
  BY DEF EInv, HeadsMoveOn
<1>3. Loaded'
  BY DEF EInv, Loaded, TypeOK, Ids
<1>4. RowsAreTrue'
  BY DEF EInv, RowsAreTrue, TypeOK, Ids, Side, Late
<1>5. Backed'
  BY DEF EInv, Backed, TypeOK, Ids, Side, Late
<1> QED
  BY <1>1, <1>2, <1>3, <1>4, <1>5 DEF EInv, RowsStay

LEMMA FinishKeeps ==
  ASSUME TypeOK, EInv, NEW a \in Evaluation, Finish(a)
  PROVE  TypeOK' /\ EInv' /\ RowsStay
<1> USE DEF Finish, Fault, Step, git, rows, ops
<1>0. faults' \in 0 .. MaxFaults /\ faults' >= faults
  BY PromotionAssumption DEF TypeOK
<1>1. TypeOK'
  BY <1>0 DEF TypeOK
<1>2. HeadsMoveOn'
  BY DEF EInv, HeadsMoveOn
<1>3. Loaded'
  BY DEF EInv, Loaded, TypeOK, Ids
<1>4. RowsAreTrue'
  BY DEF EInv, RowsAreTrue, TypeOK, Ids, Side, Late
<1>5. faults' = 0 => /\ finished' = finished \cup {a} /\ faults = 0
                     /\ status' = [status EXCEPT ![a] = IF evals[a].pass THEN "ok" ELSE "failed"]
  BY PromotionAssumption DEF TypeOK
<1>6. Backed'
  BY <1>0, <1>5 DEF EInv, Backed, TypeOK, Ids, Side, Late
<1> QED
  BY <1>1, <1>2, <1>3, <1>4, <1>6 DEF EInv, RowsStay

LEMMA LeaveKeeps ==
  ASSUME TypeOK, EInv, NEW a \in Evaluation, Leave(a)
  PROVE  TypeOK' /\ EInv' /\ RowsStay
<1> USE DEF Leave, Fault, Step, git, rows, ops
<1>0. faults' \in 0 .. MaxFaults /\ faults' # 0
  BY PromotionAssumption DEF TypeOK
<1>1. TypeOK'
  BY <1>0 DEF TypeOK
<1>2. HeadsMoveOn'
  BY DEF EInv, HeadsMoveOn
<1>3. Loaded'
  BY DEF EInv, Loaded, TypeOK, Ids
<1>4. RowsAreTrue'
  BY DEF EInv, RowsAreTrue, TypeOK, Ids, Side, Late
<1>5. Backed'
  BY <1>0 DEF EInv, Backed, TypeOK, Ids, Side, Late
<1> QED
  BY <1>1, <1>2, <1>3, <1>4, <1>5 DEF EInv, RowsStay

LEMMA EvalStepKeeps ==
  ASSUME TypeOK, EInv, NEW a \in Evaluation, EvalStep(a)
  PROVE  TypeOK' /\ EInv' /\ RowsStay
<1>1. BaseRef \in Ref /\ HeadRef \in Ref
  BY DEF Ref
<1> QED
  BY <1>1, StartRunKeeps, LoadBodyKeeps, LoadTestsKeeps, LoadBaseKeeps, EvaluateKeeps, InsertEvalRunKeeps,
     InsertEvalCaseKeeps, JudgeKeeps, InsertExperimentKeeps, InsertComparisonKeeps, CountKeeps, FinishKeeps,
     LeaveKeeps DEF EvalStep

\* An A/B run leaves the operators, the tags and the promotions alone.
LEMMA EvalStepIsQuiet ==
  ASSUME NEW a \in Evaluation, EvalStep(a)
  PROVE  UNCHANGED <<git, promotions, ops>>
BY DEF EvalStep, StartRun, LoadBody, LoadTests, LoadBase, Evaluate, InsertEvalRun, InsertEvalCase, Judge,
       InsertExperiment, InsertComparison, Count, Finish, Leave, git, ops, ab, rows

\* What was a support stays one.
LEMMA SupportStays ==
  ASSUME RowsStay
  PROVE  /\ \A e, x : Supports(e, x) => Supports(e, x)'
         /\ \A e, x, c : Supports(e, x) /\ NotOlder(c, e) => NotOlder(c, e)'
BY DEF RowsStay, Supports, NotOlder

\* Whoever leaves the operators, the tags and the promotions alone keeps their invariant.
LEMMA QuietKeepsOperators ==
  ASSUME OInv, RowsStay, UNCHANGED <<tag, promotions, ops>>
  PROVE  OInv'
<1> USE DEF ops
<1>1. \A s : Of(s)' = Of(s) /\ Unrecorded(s)' = Unrecorded(s)
  BY DEF Of, Unrecorded
<1>2. Asked'
  BY SupportStays DEF OInv, Asked
<1>3. Earned'
  BY SupportStays DEF OInv, Earned
<1>4. Accounted' /\ Exclusive'
  BY <1>1 DEF OInv, Accounted, Exclusive, UnderWay
<1>5. Story'
  BY <1>1 DEF OInv, Story, StoryOf, Forgotten, Moved, IsLast, Follows
<1> QED
  BY <1>2, <1>3, <1>4, <1>5 DEF OInv

(***************************************************************************)
(* Pushes and the clock                                                    *)
(***************************************************************************)
LEMMA PushKeeps == ASSUME IInv, Push PROVE IInv'
<1> USE DEF Push, ab, rows, ops
<1>1. pushed' \in 0 .. Len(Pushes) /\ Pushes[pushed + 1] \in Commit /\ History[pushed' + 1] = Pushes[pushed + 1]
  <2>1. pushed \in Nat /\ pushed < Len(Pushes) /\ pushed' = pushed + 1
    BY HistoryIsASequence DEF IInv, TypeOK
  <2>2. pushed + 1 \in 1 .. Len(Pushes) /\ Pushes \in Seq(Commit)
    BY <2>1, HistoryIsASequence, PromotionAssumption
  <2> QED
    BY <2>1, <2>2, HistoryIsASequence
<1>2. TypeOK'
  BY <1>1 DEF IInv, TypeOK
<1>3. HeadsMoveOn'
  BY <1>1 DEF IInv, TypeOK, EInv, HeadsMoveOn, Ref
<1>4. Loaded' /\ RowsAreTrue' /\ Backed'
  BY DEF IInv, EInv, Loaded, RowsAreTrue, Backed, Ids, Side
<1>5. RowsStay
  BY DEF RowsStay
<1>6. OInv'
  BY <1>5, QuietKeepsOperators DEF IInv
<1> QED
  BY <1>2, <1>3, <1>4, <1>6 DEF IInv, EInv

LEMMA AgeKeeps == ASSUME IInv, NEW a \in Evaluation, Age(a) PROVE IInv'
<1> USE DEF Age, git, ab, rows, ops
<1>1. TypeOK'
  BY DEF IInv, TypeOK
<1>2. EInv'
  BY DEF IInv, EInv, HeadsMoveOn, Loaded, RowsAreTrue, Backed, Ids, Side
<1>3. RowsStay
  BY DEF RowsStay
<1>4. OInv'
  BY <1>3, QuietKeepsOperators DEF IInv
<1> QED
  BY <1>1, <1>2, <1>4 DEF IInv

(***************************************************************************)
(* Operators                                                               *)
(***************************************************************************)
\* An operator leaves the branches and the A/B runs alone.
LEMMA OperatorIsQuiet ==
  ASSUME TypeOK, NEW o \in Operator, OperatorStep(o)
  PROVE  UNCHANGED <<branch, pushed, ab, rows, old>> /\ faults' >= faults /\ faults' \in 0 .. MaxFaults
BY PromotionAssumption
   DEF TypeOK, OperatorStep, Ask, Gate, ResolveTag, Resolve, MoveTag, InsertPromotion, Break, Fault, git, ab, rows, ops

LEMMA QuietKeepsEvaluations ==
  ASSUME TypeOK, EInv, UNCHANGED <<branch, pushed, ab, rows>>, faults' >= faults, faults' \in 0 .. MaxFaults
  PROVE  EInv' /\ RowsStay
<1> USE DEF ab, rows
<1>1. HeadsMoveOn' /\ Loaded' /\ RowsAreTrue'
  BY DEF EInv, HeadsMoveOn, Loaded, RowsAreTrue, Ids, Side
<1>2. faults' = 0 => faults = 0
  BY DEF TypeOK
<1>3. Backed'
  BY <1>2 DEF EInv, Backed, Ids, Side
<1> QED
  BY <1>1, <1>3 DEF EInv, RowsStay

\* A request is what it should be.
LEMMA RequestsAreAsked ==
  ASSUME NEW r \in Requests
  PROVE  /\ r.op \in {"promote", "rollback"} /\ r.skill \in Skill
         /\ r.eval \in Evaluation \cup {None} /\ r.to \in Ref \cup Commit
BY PromotionAssumption

LEMMA AskKeeps == ASSUME IInv, NEW o \in Operator, Ask(o) PROVE TypeOK' /\ OInv'
<1> USE DEF git, ab, rows
<1>1. PICK r \in Requests :
        /\ req' = [req EXCEPT ![o] = r]
        /\ at' = [at EXCEPT ![o] = IF r.op = "promote" THEN "gate" ELSE "tagged"]
        /\ raced' = (raced \/ ~Alone(o, r.skill))
  BY DEF Ask, Goto
<1>2. at[o] = "idle" /\ UNCHANGED <<branch, pushed, tag, ab, rows, promotions, from, to, old, faults>>
  BY DEF Ask
<1>3. TypeOK'
  BY <1>1, <1>2 DEF IInv, TypeOK
<1>4. \A s : Of(s)' = Of(s)
  BY <1>2 DEF Of
<1>5. \A p \in Operator : p # o => at'[p] = at[p] /\ req'[p] = req[p]
  BY <1>1 DEF IInv, TypeOK
<1>6. at'[o] \in {"gate", "tagged"} /\ req'[o] = r
  BY <1>1 DEF IInv, TypeOK
<1>7. \A s : Unrecorded(s)' = Unrecorded(s)
  BY <1>2, <1>5, <1>6 DEF Unrecorded
<1>8. Asked'
  BY <1>1, <1>2, <1>5, <1>6, RequestsAreAsked DEF IInv, TypeOK, OInv, Asked, Supports, NotOlder
<1>9. Earned' /\ Accounted'
  BY <1>2, <1>4, <1>7 DEF IInv, OInv, Earned, Accounted, Supports, NotOlder
<1>10. Exclusive'
  <2>1. ~raced' => ~raced /\ \A p \in Operator \ {o} : UnderWay(p) => req[p].skill # r.skill
    BY <1>1 DEF IInv, TypeOK, Alone
  <2>2. \A p \in Operator \ {o} : UnderWay(p)' <=> UnderWay(p)
    BY <1>5 DEF UnderWay
  <2> QED
    BY <1>5, <1>6, <2>1, <2>2 DEF IInv, OInv, Exclusive
<1>11. Story'
  <2> SUFFICES ASSUME NEW s \in Skill, ~raced', ~Forgotten(s)' PROVE StoryOf(s)'
    BY DEF Story
  <2>1. ~raced /\ ~Forgotten(s)
    BY <1>1, <1>2, <1>5 DEF Forgotten
  <2>2. StoryOf(s)
    BY <2>1 DEF IInv, OInv, Story
  <2>3. Moved(s) => Moved(s)'
    BY <1>2, <1>5 DEF Moved
  <2> QED
    BY <1>2, <1>4, <1>5, <1>6, <2>2, <2>3 DEF StoryOf, IsLast, Follows
<1> QED
  BY <1>3, <1>8, <1>9, <1>10, <1>11 DEF OInv

\* A step of an operator on his way that leaves the tag and the table alone.
LEMMA OnTheWayKeeps ==
  ASSUME IInv, NEW o \in Operator, UnderWay(o), UNCHANGED <<branch, pushed, tag, ab, rows, promotions, req, raced, old>>,
         \A p \in Operator : p # o => at'[p] = at[p] /\ from'[p] = from[p] /\ to'[p] = to[p],
         at'[o] # "row", at'[o] = "unrecorded" <=> at[o] = "row", at[o] = "row" => to'[o] = to[o],
         at'[o] \in {"target", "move"} /\ req[o].op = "rollback" /\ ~raced /\ ~Forgotten(req[o].skill) =>
           \A i \in Of(req[o].skill) : IsLast(i, req[o].skill) => from'[o] = promotions[i].commit
  PROVE  /\ Accounted' /\ Earned' /\ Story'
         /\ at'[o] # "idle" => Exclusive'
<1>1. \A s : Of(s)' = Of(s)
  BY DEF Of
<1>2. ASSUME NEW s, NEW p \in Unrecorded(s) PROVE p \in Unrecorded(s)' /\ to'[p] = to[p]
  <2>1. p \in Operator /\ at[p] \in {"row", "unrecorded"} /\ req'[p].skill = s
    BY <1>2 DEF Unrecorded
  <2>2. p = o => at[p] = "row"
    BY <2>1 DEF UnderWay
  <2>3. at'[p] \in {"row", "unrecorded"} /\ to'[p] = to[p]
    BY <2>1, <2>2
  <2> QED
    BY <2>1, <2>3 DEF Unrecorded
<1>3. Accounted'
  BY <1>1, <1>2 DEF IInv, OInv, Accounted
<1>4. Earned'
  BY DEF IInv, OInv, Earned, Supports, NotOlder, ab, rows
<1>5. at'[o] # "idle" => Exclusive'
  BY DEF IInv, OInv, Exclusive, UnderWay
<1>6. Story'
  <2> SUFFICES ASSUME NEW s \in Skill, ~raced', ~Forgotten(s)' PROVE StoryOf(s)'
    BY DEF Story
  <2>1. ~raced /\ ~Forgotten(s)
    BY DEF Forgotten, UnderWay
  <2>2. StoryOf(s)
    BY <2>1 DEF IInv, OInv, Story
  <2>3. at[o] = "row" => req[o].skill # s
    BY DEF Forgotten
  <2>4. Moved(s) => Moved(s)'
    BY <2>3 DEF Moved
  <2>5. ASSUME NEW p \in Operator, at'[p] # "idle", req'[p].skill = s
        PROVE  /\ at'[p] = "row" => tag'[s] = to'[p]
               /\ at'[p] \in {"target", "move", "row"} /\ req'[p].op = "rollback" =>
                    \A i \in Of(s) : IsLast(i, s) => from'[p] = promotions[i].commit
    BY <2>1, <2>2, <2>5 DEF StoryOf
  <2> QED
    BY <1>1, <2>2, <2>4, <2>5 DEF StoryOf, IsLast, Follows
<1> QED
  BY <1>3, <1>4, <1>5, <1>6

\* The gate lets through what supports a promotion.
LEMMA GateKeeps == ASSUME IInv, NEW o \in Operator, Gate(o) PROVE TypeOK' /\ OInv'
<1> USE DEF Gate, Goto, git, ab, rows
<1>1. TypeOK'
  BY DEF IInv, TypeOK
<1>2. /\ \A p \in Operator : p # o => at'[p] = at[p] /\ from'[p] = from[p]
      /\ at'[o] \in {"target", "refused"} /\ at[o] = "gate" /\ req[o].op = "promote"
      /\ at'[o] = "target" => Supports(req[o].eval, req[o].skill)
  BY DEF IInv, TypeOK, OInv, Asked, Supports, GateEval
<1>3. Accounted' /\ Earned' /\ Story' /\ Exclusive'
  BY <1>2, OnTheWayKeeps DEF UnderWay
<1>4. Asked'
  BY <1>2 DEF IInv, OInv, Asked, Supports, NotOlder
<1> QED
  BY <1>1, <1>3, <1>4 DEF OInv

\* A rollback starts from where the tag is: where the last row says, if all is well.
LEMMA ResolveTagKeeps == ASSUME IInv, NEW o \in Operator, ResolveTag(o) PROVE TypeOK' /\ OInv'
<1> USE DEF ResolveTag, Goto, git, ab, rows
<1>1. req[o] \in Requests /\ req[o].skill \in Skill
  BY RequestsAreAsked DEF IInv, OInv, Asked
<1>2. TypeOK'
  BY <1>1 DEF IInv, TypeOK
<1>3. /\ \A p \in Operator : p # o => at'[p] = at[p] /\ from'[p] = from[p]
      /\ at'[o] \in {"target", "refused"} /\ at[o] = "tagged" /\ req[o].op = "rollback"
      /\ at'[o] = "target" => from'[o] = tag[req[o].skill]
  BY DEF IInv, TypeOK, OInv, Asked
<1>4. ASSUME ~raced, ~Forgotten(req[o].skill), NEW i \in Of(req[o].skill), IsLast(i, req[o].skill)
      PROVE  tag[req[o].skill] = promotions[i].commit
  <2>1. ~Moved(req[o].skill)
    BY <1>3, <1>4 DEF Moved, IInv, OInv, Exclusive, UnderWay
  <2> QED
    BY <1>1, <1>4, <2>1 DEF IInv, OInv, Story, StoryOf
<1>5. Accounted' /\ Earned' /\ Story' /\ Exclusive'
  BY <1>3, <1>4, OnTheWayKeeps DEF UnderWay
<1>6. Asked'
  BY <1>3 DEF IInv, OInv, Asked, Supports, NotOlder
<1> QED
  BY <1>2, <1>5, <1>6 DEF OInv

\* A promotion goes to the head of the branch, which is not older than what was evaluated.
LEMMA ResolveKeeps == ASSUME IInv, NEW o \in Operator, Resolve(o) PROVE TypeOK' /\ OInv'
<1> USE DEF Resolve, Goto, git, ab, rows
<1>1. req[o] \in Requests /\ req[o].to \in Ref \cup Commit /\ at[o] = "target"
  BY RequestsAreAsked DEF IInv, OInv, Asked
<1>2. to'[o] \in Commit
  BY <1>1 DEF IInv, TypeOK, Target, Ref
<1>3. TypeOK'
  BY <1>2 DEF IInv, TypeOK
<1>4. /\ \A p \in Operator : p # o => at'[p] = at[p] /\ to'[p] = to[p]
      /\ at'[o] \in {"done", "move"}
      /\ req[o].op = "promote" => to'[o] = branch[HeadRef]
  BY DEF IInv, TypeOK, Target, Ref
<1>5. ASSUME req[o].op = "promote" PROVE Supports(req[o].eval, req[o].skill) /\ NotOlder(to'[o], req[o].eval)
  <2>1. Supports(req[o].eval, req[o].skill)
    BY <1>1, <1>5 DEF IInv, OInv, Asked
  <2>2. body[req[o].eval] # None /\ req[o].eval \in Evaluation
    BY <2>1 DEF Supports, IInv, TypeOK, EInv, RowsAreTrue
  <2>3. PICK j \in 1 .. pushed + 1 : body[req[o].eval] = History[j]
    BY <2>2 DEF IInv, EInv, HeadsMoveOn
  <2>4. branch[HeadRef] = History[pushed + 1] /\ pushed \in 0 .. Len(Pushes)
    BY DEF IInv, TypeOK, EInv, HeadsMoveOn
  <2> QED
    BY <1>4, <1>5, <2>1, <2>3, <2>4, HeadIsNotOlder DEF NotOlder
<1>6. ASSUME req[o].op = "rollback", ~raced, ~Forgotten(req[o].skill)
      PROVE  \A i \in Of(req[o].skill) : IsLast(i, req[o].skill) => from[o] = promotions[i].commit
  BY <1>1, <1>6, RequestsAreAsked DEF IInv, OInv, Story, StoryOf
<1>7. Accounted' /\ Earned' /\ Story' /\ Exclusive'
  BY <1>1, <1>4, <1>6, OnTheWayKeeps DEF UnderWay
<1>8. Asked'
  BY <1>1, <1>2, <1>4, <1>5 DEF IInv, OInv, Asked, Supports, NotOlder
<1> QED
  BY <1>3, <1>7, <1>8 DEF OInv

LEMMA BreakKeeps == ASSUME IInv, NEW o \in Operator, Break(o) PROVE TypeOK' /\ OInv'
<1> USE DEF Break, Goto, git, ab, rows
<1>1. faults' \in 0 .. MaxFaults
  BY PromotionAssumption DEF IInv, TypeOK, Fault
<1>2. TypeOK'
  BY <1>1 DEF IInv, TypeOK
<1>3. /\ \A p \in Operator : p # o => at'[p] = at[p]
      /\ at'[o] = IF at[o] = "row" THEN "unrecorded" ELSE "refused"
  BY DEF IInv, TypeOK
<1>4. Accounted' /\ Earned' /\ Story' /\ Exclusive'
  BY <1>3, OnTheWayKeeps
<1>5. Asked'
  BY <1>3 DEF IInv, OInv, Asked, Supports, NotOlder, UnderWay
<1> QED
  BY <1>2, <1>4, <1>5 DEF OInv

LEMMA MoveTagKeeps == ASSUME IInv, NEW o \in Operator, MoveTag(o) PROVE TypeOK' /\ OInv'
<1> USE DEF MoveTag, Goto, ab, rows
<1> DEFINE t == req[o].skill
<1>1. req[o] \in Requests /\ t \in Skill /\ to[o] \in Commit /\ at[o] = "move"
  BY RequestsAreAsked DEF IInv, OInv, Asked
<1>2. /\ tag' = [tag EXCEPT ![t] = to[o]] /\ at' = [at EXCEPT ![o] = "row"]
      /\ UNCHANGED <<branch, pushed, pc, with, body, tests, answer, status, finished, evals, cases, experiment,
                      compared, promotions, req, from, to, raced, old, faults>>
  OBVIOUS
<1>3. TypeOK'
  BY <1>1, <1>2 DEF IInv, TypeOK
<1>4. /\ \A p \in Operator : p # o => at'[p] = at[p]
      /\ at'[o] = "row" /\ tag'[t] = to[o]
      /\ \A s \in Skill : s # t => tag'[s] = tag[s]
  BY <1>1, <1>2 DEF IInv, TypeOK
<1>5. \A s : Of(s)' = Of(s)
  BY <1>2 DEF Of
<1>6. Asked' /\ Earned'
  BY <1>1, <1>2, <1>4 DEF IInv, OInv, Asked, Earned, Supports, NotOlder
<1>7. \A s \in Skill : Unrecorded(s) \subseteq Unrecorded(s)'
  BY <1>2, <1>4 DEF Unrecorded
<1>8. o \in Unrecorded(t)'
  BY <1>2, <1>4 DEF Unrecorded
<1>9. Accounted'
  BY <1>2, <1>4, <1>5, <1>7, <1>8 DEF IInv, OInv, Accounted
<1>10. Exclusive'
  BY <1>1, <1>2, <1>4 DEF IInv, OInv, Exclusive, UnderWay
<1>11. Story'
  <2> SUFFICES ASSUME NEW s \in Skill, ~raced', ~Forgotten(s)' PROVE StoryOf(s)'
    BY DEF Story
  <2>1. ~raced /\ ~Forgotten(s)
    BY <1>1, <1>2, <1>4 DEF Forgotten
  <2>2. StoryOf(s)
    BY <2>1 DEF IInv, OInv, Story
  <2>3. CASE s = t
    <3>1. Moved(s)'
      BY <1>2, <1>4, <2>3 DEF Moved
    <3>2. \A p \in Operator : p # o /\ UnderWay(p) => req[p].skill # s
      BY <1>1, <2>1, <2>3 DEF IInv, OInv, Exclusive, UnderWay
    <3> QED
      BY <1>1, <1>2, <1>4, <1>5, <2>2, <2>3, <3>1, <3>2 DEF StoryOf, IsLast, Follows, UnderWay
  <2>4. CASE s # t
    <3>1. Moved(s) => Moved(s)'
      BY <1>2, <1>4, <2>4 DEF Moved
    <3> QED
      BY <1>1, <1>2, <1>4, <1>5, <2>2, <2>4, <3>1 DEF StoryOf, IsLast, Follows
  <2> QED
    BY <2>3, <2>4
<1> QED
  BY <1>3, <1>6, <1>9, <1>10, <1>11 DEF OInv

\* A row that is inserted has the next place.
LEMMA InsertedComesLast ==
  ASSUME NEW S, NEW q \in Seq(S), NEW x \in S
  PROVE  \E n \in Nat :
           /\ n \in DOMAIN Append(q, x) /\ Append(q, x)[n] = x
           /\ \A i \in DOMAIN q : i \in Nat /\ i < n /\ i \in DOMAIN Append(q, x) /\ Append(q, x)[i] = q[i]
           /\ \A i \in DOMAIN Append(q, x) : i = n \/ i \in DOMAIN q
<1>1. Len(q) \in Nat /\ DOMAIN q = 1 .. Len(q)
  OBVIOUS
<1>2. Append(q, x) \in Seq(S) /\ Len(Append(q, x)) = Len(q) + 1
      /\ Append(q, x)[Len(q) + 1] = x /\ \A i \in 1 .. Len(q) : Append(q, x)[i] = q[i]
  BY AppendProperties
<1>3. DOMAIN Append(q, x) = 1 .. (Len(q) + 1)
  BY <1>2
<1> WITNESS Len(q) + 1 \in Nat
<1> QED
  BY <1>1, <1>2, <1>3

\* The row comes last in the table, and is the last one of its skill.
LEMMA InsertPromotionKeeps == ASSUME IInv, NEW o \in Operator, InsertPromotion(o) PROVE TypeOK' /\ OInv'
<1> USE DEF git, ab, rows
<1> DEFINE t == req[o].skill
           p0 == [op |-> req[o].op, skill |-> t, eval |-> req[o].eval, from |-> from[o], commit |-> to[o]]
<1>1. /\ at[o] = "row" /\ promotions' = Append(promotions, p0) /\ at' = [at EXCEPT ![o] = "done"]
      /\ UNCHANGED <<branch, pushed, tag, pc, with, body, tests, answer, status, finished, evals, cases, experiment,
                      compared, req, from, to, raced, old, faults>>
  BY DEF InsertPromotion, Goto, Recorded
<1>2. req[o] \in Requests /\ t \in Skill /\ to[o] \in Commit
  BY <1>1, RequestsAreAsked DEF IInv, OInv, Asked
<1>3. p0 \in Promoted
  BY <1>2, RequestsAreAsked DEF Promoted, IInv, TypeOK
<1>4. promotions \in Seq(Promoted) /\ promotions' \in Seq(Promoted)
  BY <1>1, <1>3, AppendProperties DEF IInv, TypeOK
<1>5. /\ t = req[o].skill /\ t' = t /\ p0.skill = t
       /\ p0.op = req[o].op /\ p0.eval = req[o].eval /\ p0.from = from[o] /\ p0.commit = to[o]
  BY <1>1
<1> HIDE DEF t, p0
<1>6. PICK n \in Nat :
        /\ n \in DOMAIN promotions' /\ promotions'[n] = p0
        /\ \A i \in DOMAIN promotions : i \in Nat /\ i < n /\ i \in DOMAIN promotions' /\ promotions'[i] = promotions[i]
        /\ \A i \in DOMAIN promotions' : i = n \/ i \in DOMAIN promotions
  BY <1>1, <1>3, <1>4, InsertedComesLast
<1>7. TypeOK'
  BY <1>1, <1>4 DEF IInv, TypeOK
<1>8. /\ at'[o] = "done" /\ \A p \in Operator : p # o => at'[p] = at[p]
  BY <1>1 DEF IInv, TypeOK
<1>9. /\ Of(t)' = Of(t) \cup {n}
      /\ \A s : s # t => Of(s)' = Of(s)
      /\ \A s : \A i \in Of(s) : i \in DOMAIN promotions /\ i \in Nat /\ i < n /\ promotions'[i] = promotions[i]
  <2>1. Of(t)' = Of(t) \cup {n}
    <3>1. n \in Of(t)' /\ n \notin Of(t)
      BY <1>5, <1>6 DEF Of
    <3>2. ASSUME NEW i, i # n PROVE i \in Of(t)' <=> i \in Of(t)
      BY <1>5, <1>6, <3>2 DEF Of
    <3> QED
      BY <3>1, <3>2
  <2>2. ASSUME NEW s, s # t PROVE Of(s)' = Of(s)
    BY <1>5, <1>6, <2>2 DEF Of
  <2>3. ASSUME NEW s, NEW i \in Of(s) PROVE i \in DOMAIN promotions
    BY DEF Of
  <2> QED
    BY <1>6, <2>1, <2>2, <2>3
<1>10. Asked' /\ Exclusive'
  BY <1>1, <1>8 DEF IInv, OInv, Asked, Exclusive, UnderWay, Supports, NotOlder
<1>11. Earned'
  <2>1. req[o].op = "promote" => Supports(req[o].eval, t) /\ NotOlder(to[o], req[o].eval)
    BY <1>1, <1>5 DEF IInv, OInv, Asked
  <2>2. \A i \in DOMAIN promotions' : i = n \/ (i \in DOMAIN promotions /\ promotions'[i] = promotions[i])
    BY <1>6
  <2> QED
    BY <1>1, <1>5, <1>6, <2>1, <2>2 DEF IInv, OInv, Earned, Supports, NotOlder
<1>12. Accounted'
  <2> SUFFICES ASSUME NEW s \in Skill
               PROVE  tag[s] \in {None, Start[BaseRef]} \cup {promotions'[i].commit : i \in Of(s)'}
                                  \cup {to[p] : p \in Unrecorded(s)'}
    BY <1>1 DEF Accounted
  <2>1. \A p \in Unrecorded(s) : p \in Unrecorded(s)' \/ (p = o /\ s = t)
    BY <1>1, <1>5, <1>8 DEF Unrecorded
  <2>2. \A i \in Of(s) : i \in Of(s)' /\ promotions'[i] = promotions[i]
    BY <1>9
  <2>3. s = t => n \in Of(s)' /\ promotions'[n].commit = to[o]
    BY <1>5, <1>6, <1>9
  <2> QED
    BY <2>1, <2>2, <2>3 DEF IInv, OInv, Accounted
<1>13. Story'
  <2> SUFFICES ASSUME NEW s \in Skill, ~raced', ~Forgotten(s)' PROVE StoryOf(s)'
    BY DEF Story
  <2>1. ~raced /\ ~Forgotten(s)
    BY <1>1, <1>8 DEF Forgotten
  <2>2. StoryOf(s)
    BY <2>1 DEF IInv, OInv, Story
  <2>3. CASE s = t
    <3>0. /\ Of(s)' = Of(s) \cup {n}
          /\ \A i \in Of(s) : i \in Nat /\ i < n /\ promotions'[i] = promotions[i]
      BY <1>9, <2>3
    <3>1. \A p \in Operator : p # o /\ UnderWay(p) => req[p].skill # s
      BY <1>1, <1>5, <2>1, <2>3 DEF IInv, OInv, Exclusive, UnderWay
    <3>2. tag[s] = to[o]
      BY <1>1, <1>5, <2>2, <2>3 DEF StoryOf
    <3>3. \A i \in Of(s)' : IsLast(i, s)' => i = n
      BY <3>0 DEF IsLast
    <3>4. \A i, j \in Of(s) : Follows(i, j, s)' => Follows(i, j, s)
      BY <3>0 DEF Follows
    <3>5. \A j \in Of(s)' : Follows(n, j, s)' => j \in Of(s) /\ IsLast(j, s)
      BY <3>0 DEF Follows, IsLast
    <3>6. \A i \in Of(s) : ~Follows(i, n, s)'
      BY <3>0 DEF Follows
    <3>7. ~Follows(n, n, s)'
      BY DEF Follows
    <3>8. req[o].op = "rollback" => \A j \in Of(s) : IsLast(j, s) => from[o] = promotions[j].commit
      BY <1>1, <1>5, <2>2, <2>3 DEF StoryOf
    <3>9. \A i \in Of(s)' : promotions'[i].op = "rollback" =>
            \A j \in Of(s)' : Follows(i, j, s)' => promotions'[i].from = promotions'[j].commit
      <4> SUFFICES ASSUME NEW i \in Of(s)', promotions'[i].op = "rollback", NEW j \in Of(s)', Follows(i, j, s)'
                   PROVE  promotions'[i].from = promotions'[j].commit
        OBVIOUS
      <4>1. CASE i = n
        <5>1. j \in Of(s) /\ IsLast(j, s) /\ promotions'[j] = promotions[j]
          BY <3>0, <3>5, <4>1
        <5>2. req[o].op = "rollback" /\ promotions'[i].from = from[o]
          BY <1>5, <1>6, <4>1
        <5> QED
          BY <3>8, <5>1, <5>2
      <4>2. CASE i # n
        <5>1. i \in Of(s) /\ j \in Of(s)
          BY <3>0, <3>6, <4>2
        <5> QED
          BY <2>2, <3>0, <3>4, <5>1 DEF StoryOf
      <4> QED
        BY <4>1, <4>2
    <3>10. tag'[s] = promotions'[n].commit
      BY <1>1, <1>5, <1>6, <3>2
    <3> QED
      BY <1>1, <1>8, <3>1, <3>3, <3>9, <3>10 DEF StoryOf, UnderWay
  <2>4. CASE s # t
    <3>1. Moved(s) => Moved(s)'
      BY <1>1, <1>5, <1>8, <2>4 DEF Moved
    <3> QED
      BY <1>1, <1>5, <1>8, <1>9, <2>2, <2>4, <3>1 DEF StoryOf, IsLast, Follows
  <2> QED
    BY <2>3, <2>4
<1> QED
  BY <1>7, <1>10, <1>11, <1>12, <1>13 DEF OInv

(***************************************************************************)
(* The theorems                                                            *)
(***************************************************************************)
LEMMA NextIInv == IInv /\ [Next]_vars => IInv'
<1> SUFFICES ASSUME IInv, [Next]_vars PROVE IInv'
  OBVIOUS
<1>1. ASSUME NEW a \in Evaluation, EvalStep(a) PROVE IInv'
  <2>1. TypeOK' /\ EInv' /\ RowsStay
    BY <1>1, EvalStepKeeps DEF IInv
  <2>2. UNCHANGED <<tag, promotions, ops>>
    BY <1>1, EvalStepIsQuiet DEF git
  <2> QED
    BY <2>1, <2>2, QuietKeepsOperators DEF IInv
<1>2. ASSUME NEW o \in Operator, OperatorStep(o) PROVE IInv'
  <2>1. EInv'
    BY <1>2, OperatorIsQuiet, QuietKeepsEvaluations DEF IInv
  <2>2. TypeOK' /\ OInv'
    BY <1>2, AskKeeps, GateKeeps, ResolveTagKeeps, ResolveKeeps, MoveTagKeeps, InsertPromotionKeeps, BreakKeeps
       DEF OperatorStep
  <2> QED
    BY <2>1, <2>2 DEF IInv
<1>3. CASE UNCHANGED vars
  <2>1. TypeOK' /\ EInv'
    BY <1>3 DEF vars, git, ab, rows, ops, IInv, TypeOK, EInv, HeadsMoveOn, Loaded, RowsAreTrue, Backed, Ids, Side
  <2>2. RowsStay /\ UNCHANGED <<tag, promotions, ops>>
    BY <1>3 DEF vars, git, ab, rows, RowsStay
  <2> QED
    BY <2>1, <2>2, QuietKeepsOperators DEF IInv
<1> QED
  BY <1>1, <1>2, <1>3, PushKeeps, AgeKeeps DEF Next, Done

LEMMA Invariance == Spec => []IInv
BY InitIInv, NextIInv, PTL DEF Spec

\* The types, for any instance.
THEOREM TypeCorrect == Spec => []TypeOK
<1>1. IInv => TypeOK
  BY DEF IInv
<1> QED
  BY <1>1, Invariance, PTL

\* Whatever was tolerated and wherever the branches have gone, what is promoted was
\* evaluated, did not regress, and is not older than what was evaluated.
THEOREM PromotionsAreEarned == Spec => []PromotedIsNoRegression
<1>1. ASSUME IInv PROVE PromotedIsNoRegression
  <2> SUFFICES ASSUME NEW i \in DOMAIN promotions, promotions[i].op = "promote"
               PROVE  LET p == promotions[i] IN
                        /\ p.eval \in DOMAIN evals /\ SkillOf[p.eval] = p.skill
                        /\ LET ids == Suite[tests[p.eval]] IN
                             Cardinality(Failed(answer[p.eval][HeadRef], ids))
                               <= Cardinality(Failed(answer[p.eval][BaseRef], ids))
                        /\ p.commit \in Since(body[p.eval])
    BY DEF PromotedIsNoRegression
  <2> DEFINE e == promotions[i].eval
             ids == Suite[tests[e]]
  <2>1. Supports(e, promotions[i].skill) /\ NotOlder(promotions[i].commit, e)
    BY <1>1 DEF IInv, OInv, Earned
  <2>2. e \in Evaluation /\ tests[e] # None /\ Ref \subseteq DOMAIN answer[e]
        /\ evals[e].failDelta = FailDelta(Side(e, BaseRef), Side(e, HeadRef))
    BY <1>1, <2>1 DEF IInv, TypeOK, EInv, RowsAreTrue, Supports
  <2>3. ids \subseteq Fixture
    BY <1>1, <2>2, PromotionAssumption DEF IInv, TypeOK
  <2>4. \A s \in Ref : DOMAIN answer[e][s] \subseteq ids
    BY <1>1, <2>2 DEF IInv, EInv, Loaded, Ids
  <2>5. \A s \in Ref : /\ Fails(Side(e, s)) = Cardinality(Failed(answer[e][s], ids))
                       /\ Cardinality(Failed(answer[e][s], ids)) \in Nat
    BY <2>3, <2>4, FailsAreFailures DEF Side, Ids
  <2>6. Fails(Side(e, HeadRef)) - Fails(Side(e, BaseRef)) <= 0
    BY <2>1, <2>2 DEF Supports, FailDelta
  <2>7. Cardinality(Failed(answer[e][HeadRef], ids)) <= Cardinality(Failed(answer[e][BaseRef], ids))
    BY <2>5, <2>6 DEF Ref
  <2> QED
    BY <2>1, <2>7 DEF Supports, NotOlder
<1> QED
  BY <1>1, Invariance, PTL

\* The promotions table explains the tag, as long as no move went unrecorded and no two
\* operators met; and where they did, the tag is still where some row or operator put it.
THEOREM TagIsExplained == Spec => []HistoryExplainsTag
<1>1. ASSUME IInv PROVE HistoryExplainsTag
  <2> SUFFICES ASSUME NEW s \in Skill, ~raced, Unrecorded(s) = {}
               PROVE  \A i \in Of(s) :
                        /\ IsLast(i, s) => tag[s] = promotions[i].commit
                        /\ promotions[i].op = "rollback" =>
                             \A j \in Of(s) : Follows(i, j, s) => promotions[i].from = promotions[j].commit
    BY <1>1 DEF HistoryExplainsTag, IInv, OInv, Accounted
  <2>1. ~Forgotten(s) /\ ~Moved(s)
    BY DEF Unrecorded, Forgotten, Moved
  <2> QED
    BY <1>1, <2>1 DEF IInv, OInv, Story, StoryOf
<1> QED
  BY <1>1, Invariance, PTL

\* A verdict that is returned has its evidence, whatever the answers and the settings.
THEOREM VerdictsAreBacked == Spec => []ResultIsBacked
<1>1. ASSUME IInv PROVE ResultIsBacked
  <2> SUFFICES ASSUME NEW a \in Evaluation, pc[a] = "done"
               PROVE  LET ids == Suite[tests[a]]
                          b   == answer[a][BaseRef]
                          h   == answer[a][HeadRef]
                      IN  /\ a \in DOMAIN evals
                          /\ evals[a].failDelta = Cardinality(Failed(h, ids)) - Cardinality(Failed(b, ids))
                          /\ cases[a] = ids
                          /\ with[a].pairwise => a \in experiment /\ DOMAIN compared[a] = ids
                          /\ \A f \in DOMAIN compared[a] :
                               compared[a][f] = "tie" => f \in Failed(b, ids) \cap Failed(h, ids)
                          /\ faults = 0 => a \in finished /\ status[a] = IF evals[a].pass THEN "ok" ELSE "failed"
    BY DEF ResultIsBacked
  <2> DEFINE ids == Suite[tests[a]]
  <2>1. a \in DOMAIN evals /\ cases[a] = ids
    BY <1>1 DEF IInv, EInv, Backed, Late, Ids
  <2>2. /\ tests[a] # None /\ Ref \subseteq DOMAIN answer[a]
        /\ evals[a].failDelta = FailDelta(Side(a, BaseRef), Side(a, HeadRef))
    BY <1>1, <2>1 DEF IInv, EInv, RowsAreTrue
  <2>3. ids \subseteq Fixture
    BY <1>1, <2>2, PromotionAssumption DEF IInv, TypeOK
  <2>4. \A s \in Ref : DOMAIN answer[a][s] \subseteq ids
    BY <1>1, <2>2 DEF IInv, EInv, Loaded, Ids
  <2>5. \A s \in Ref : Fails(Side(a, s)) = Cardinality(Failed(answer[a][s], ids))
    BY <2>3, <2>4, FailsAreFailures DEF Side, Ids
  <2>6. \A s \in Ref : \A f \in ids : ~Side(a, s)[f].pass => f \in Failed(answer[a][s], ids)
    BY <2>4 DEF Side, Parsed, Ids, Failed
  <2>7. \A f \in DOMAIN compared[a] : f \in ids /\
          (compared[a][f] = "tie" => ~Side(a, BaseRef)[f].pass /\ ~Side(a, HeadRef)[f].pass)
    BY <1>1 DEF IInv, EInv, Backed, Ids
  <2>8. evals[a].failDelta = Cardinality(Failed(answer[a][HeadRef], ids)) - Cardinality(Failed(answer[a][BaseRef], ids))
    BY <2>2, <2>5 DEF FailDelta, Ref
  <2>9. \A f \in DOMAIN compared[a] : compared[a][f] = "tie" =>
          f \in Failed(answer[a][BaseRef], ids) \cap Failed(answer[a][HeadRef], ids)
    BY <2>6, <2>7 DEF Ref
  <2> QED
    BY <1>1, <2>1, <2>8, <2>9 DEF IInv, EInv, Backed, Ids
<1> QED
  BY <1>1, Invariance, PTL
=============================================================================
