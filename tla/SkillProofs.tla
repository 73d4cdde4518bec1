---------------------------- MODULE SkillProofs ----------------------------
(***************************************************************************)
(* Theorems about the commands on skills.  Part I is about SkillRecords,   *)
(* for any runs, any judges of them with any rubrics, and any number of    *)
(* failing writes; Part II is about SkillBranches, for any runs to learn   *)
(* from, any evidence, and any number of commands, edits and failures.     *)
(***************************************************************************)
EXTENDS SkillRecords, SkillBranches, SequenceTheorems, FiniteSetTheorems, TLAPS

(***************************************************************************)
(* Part I: SkillRecords                                                    *)
(***************************************************************************)
\* TypeOK, and the variables it leaves out.
Types ==
  /\ TypeOK
  /\ setup \in [Run -> Setups]
  /\ over \in [Run -> BOOLEAN] /\ err \in [Run -> BOOLEAN] /\ late \in [Run -> BOOLEAN]
  /\ told \in [Run -> BOOLEAN] /\ oops \in [Run -> BOOLEAN]
  /\ answer \in [Run -> Answers \cup {None}] /\ calls \in [Run -> Answers \cup {None}]
  /\ saw \in [Judge -> {"none", "running", "ok", "failed"}]
  /\ agreed \in [Judge -> BOOLEAN] /\ pass \in [Judge -> BOOLEAN]
  /\ early \subseteq Judge /\ crowded \subseteq Judge
  /\ lines \in [Run -> SUBSET (Events \cup Judge)] /\ events \in [Run -> SUBSET (Events \cup Judge)]
  /\ score \in [Run -> Hash]
  /\ scores \in [Run -> Seq(Judge)] /\ judgeRuns \in [Run -> Seq(Judge)]
  /\ scoreReg \in [Run -> Seq(Hash)]
  /\ broken \subseteq Run \cup Judge
  /\ seen \in [Run \cup Judge -> {None} \cup [was : Seq(Hash), now : Hash]]

(***************************************************************************)
(* A run                                                                   *)
(***************************************************************************)
\* A run is on the path that its budget chose, and what did not begin has left nothing.
OnItsPath(r) ==
  /\ at[r] = "idle" => ~over[r] /\ calls[r] = None /\ files[r] = {} /\ row[r] = "none" /\ seen[r] = None
  /\ at[r] \notin {"idle", "returned"} => over[r] = ~BeforeToolCall(r)
  /\ at[r] # "returned" <=> verdict[r] = "none"
  /\ over[r] => at[r] \in Range(BudgetPath) \cup {"returned"}
  /\ ~over[r] => at[r] \in Range(RunPath) \cup {"idle", "returned"}
  /\ over[r] \/ setup[r].budget = 0 => calls[r] = None /\ files[r] \cap {"req", "res", "stream"} = {}

\* What a run over its budget has left behind when it is at one of the steps S, or beyond.
Past(r, S) == at[r] \in S \/ verdict[r] = "budget"
Refused(r) ==
  /\ verdict[r] = "budget" => over[r]
  /\ over[r] =>
       /\ at[r] \notin {"row", "returned"} \/ verdict[r] = "budget" => "meta" \in files[r]
       /\ Past(r, {"meta", "mark", "selected", "exceeded", "finished", "finish", "register"})
            => "run.started" \in lines[r] \cap events[r]
       /\ Past(r, {"mark", "selected", "exceeded", "finished", "finish", "register"}) => "skill" \in files[r]
       /\ Past(r, {"selected", "exceeded", "finished", "finish", "register"})
            => told[r] /\ score[r] \in {"blocked", "torn"} \cup Judge
       /\ Past(r, {"finished", "finish", "register"}) => "exceeded" \in lines[r] \cap events[r]
       /\ Past(r, {"finish", "register"}) => "finished" \in lines[r] \cap events[r]
       /\ Past(r, {"register"}) => row[r] = "failed"
       /\ verdict[r] = "budget" => {"trace", "meta", "skill"} \subseteq registry[r] /\ scoreReg[r] # <<>>

\* What it has found in the registry has a successor there, and a refused run finds its score.json.
Looked(r) ==
  seen[r] # None =>
    /\ seen[r].was # <<>> => scoreReg[r] # <<>>
    /\ over[r] => seen[r].now # "none"

\* What a run within its budget has left behind.
Filed(r) == {"req", "res", "receipt"} \cup Streams(r) \subseteq files[r]
Called(r) == answer[r] \in Answers /\ calls[r] = answer[r] /\ calls[r].ok /\ "tool" \in lines[r]
NoError(r, S) == at[r] \in S /\ ~err[r]
Backed(r) ==
  ~over[r] =>
    /\ err[r] => at[r] \in {"remark", "marked", "finished", "finish", "register", "returned"}
    /\ oops[r] => at[r] \in {"finish", "register", "returned"}
    /\ at[r] \notin {"idle", "row", "returned"} => "meta" \in files[r]
    /\ at[r] \in {"mark", "tool", "files", "result", "remark", "marked"} => "skill" \in files[r] \/ late[r]
    /\ NoError(r, {"finished", "finish", "register"}) => "skill" \in files[r]
    /\ at[r] \in {"files", "result"} => answer[r] \in Answers
    /\ at[r] = "result" \/ NoError(r, {"remark", "marked", "finished", "finish", "register"}) => Filed(r)
    /\ NoError(r, {"remark", "marked", "finished", "finish", "register"}) => Called(r)
    /\ at[r] = "register" /\ ~oops[r] => row[r] = IF err[r] THEN "failed" ELSE "ok"

\* A run whose own writer has failed does not return without an error; another part of a line
\* is a judge's.
Noticed(r) ==
  /\ r \in broken => err[r] \/ oops[r] \/ at[r] = "returned"
  /\ verdict[r] = "ok" => r \notin broken
  /\ "torn" \in lines[r] => r \in broken \/ \E j \in Judge \cap broken : Of(j) = r

Ok(r) ==
  /\ row[r] = "ok" => calls[r] # None
  /\ verdict[r] = "ok" =>
       /\ row[r] = "ok" /\ Called(r) /\ Filed(r)
       /\ {"meta", "skill", "req", "res", "receipt"} \cup Streams(r) \subseteq files[r] \cap registry[r]

RunInv(r) == OnItsPath(r) /\ Refused(r) /\ Looked(r) /\ Backed(r) /\ Noticed(r) /\ Ok(r)

(***************************************************************************)
(* A judge                                                                 *)
(***************************************************************************)
\* What a passing judge has seen.
Earned(j) ==
  LET r == Of(j) IN
    /\ Verified(r) /\ ~setup[r].schema
    /\ RubricOf[j].must["format"] => row[r] = "ok" /\ calls[r] # None
    /\ calls[r] = None => setup[r].expect = "stream" /\ "stream" \in files[r]

\* A judge that began when its run was over has read what is there.
HasRead(j) ==
  j \notin early =>
    /\ jat[j] # "idle" => at[Of(j)] = "returned"
    /\ jat[j] \notin {"idle", "gone"} => saw[j] = row[Of(j)]
    /\ jat[j] = "metrics" => agreed[j] = Verified(Of(j))
    /\ pass[j] => Earned(j)

\* A verdict comes from an evaluation, and a judge that is about to register has looked.
InOrder(j) ==
  /\ pass[j] => jat[j] \notin {"idle", "start", "rules", "metrics"}
  /\ jat[j] = "persist" => seen[j] # None

\* The rows of a run are of its judges, and of those that have got so far.
Rowed == {"judgeRun", "scored", "look", "persist", "done"}
RowsAreOfJudges ==
  \A r \in Run : \A j \in Range(scores[r]) : j \in Judge /\ Of(j) = r /\ jat[j] \in Rowed \cup {"gone"}

\* Judges that are under way together have met.
Met ==
  \A j, k \in Judge :
    j # k /\ Of(j) = Of(k) /\ Judging(j) /\ Judging(k) => j \in crowded /\ k \in crowded

JudgesOf(r) == {j \in Judge : Of(j) = r}
Alone(r) == JudgesOf(r) \cap (early \cup crowded) = {}

\* What a judge that has been alone with its run has left behind.
Left(j) ==
  LET r == Of(j) IN
    /\ jat[j] \in {"insert", "judgeRun", "scored", "look", "persist"} => score[r] = j
    /\ jat[j] = "persist" => seen[j].now = j /\ seen[j].was = scoreReg[r]
    /\ jat[j] \in Rowed => j \in Range(scores[r])
    /\ jat[j] \in Rowed \ {"judgeRun"} => j \in Range(judgeRuns[r])
    /\ jat[j] \in {"look", "persist", "done"} => j \in lines[r] \cap events[r]
    /\ jat[j] = "done" /\ score[r] = j => scoreReg[r] # <<>> /\ Last(scoreReg[r]) = j

Newest(r) ==
  scores[r] # <<>> =>
    \/ score[r] = Last(scores[r])
    \/ score[r] \in (JudgesOf(r) \ Range(scores[r])) \cup {"torn"}

Recorded == \A r \in Run : Alone(r) => Newest(r) /\ \A j \in JudgesOf(r) : Left(j)

\* The inductive invariant.
IInv ==
  /\ Types
  /\ \A r \in Run : RunInv(r)
  /\ \A j \in Judge : HasRead(j) /\ InOrder(j)
  /\ RowsAreOfJudges /\ Met /\ Recorded

(***************************************************************************)
(* Lemmas about the paths and about sequences                              *)
(***************************************************************************)
LEMMA Places ==
  /\ Range(RunPath) = {"row", "started", "selected", "meta", "mark", "tool", "files", "result", "remark",
                       "marked", "finished", "finish", "register"}
  /\ Range(BudgetPath) = {"row", "started", "meta", "mark", "selected", "exceeded", "finished", "finish", "register"}
<1>1. DOMAIN RunPath = 1 .. 13 /\ DOMAIN BudgetPath = 1 .. 9
  BY DEF RunPath, BudgetPath
<1>2. /\ 1 .. 13 = {1, 2, 3, 4, 5, 6, 7, 8, 9, 10, 11, 12, 13}
      /\ 1 .. 9 = {1, 2, 3, 4, 5, 6, 7, 8, 9}
  OBVIOUS
<1>3. Range(RunPath) = {RunPath[1], RunPath[2], RunPath[3], RunPath[4], RunPath[5], RunPath[6], RunPath[7],
                        RunPath[8], RunPath[9], RunPath[10], RunPath[11], RunPath[12], RunPath[13]}
  BY <1>1, <1>2 DEF Range
<1>4. Range(BudgetPath) = {BudgetPath[1], BudgetPath[2], BudgetPath[3], BudgetPath[4], BudgetPath[5],
                           BudgetPath[6], BudgetPath[7], BudgetPath[8], BudgetPath[9]}
  BY <1>1, <1>2 DEF Range
<1>5. Range(RunPath) = {"row", "started", "selected", "meta", "mark", "tool", "files", "result", "remark",
                        "marked", "finished", "finish", "register"}
  BY <1>3 DEF RunPath
<1>6. Range(BudgetPath) = {"row", "started", "meta", "mark", "selected", "exceeded", "finished", "finish", "register"}
  BY <1>4 DEF BudgetPath
<1> QED
  BY <1>5, <1>6

\* Where a run goes after a step.
LEMMA Follow ==
  ASSUME NEW r, NEW k \in DOMAIN Path(r), at[r] = Path(r)[k],
         \A i \in DOMAIN Path(r) : Path(r)[i] = at[r] => i = k
  PROVE  After(r) = IF k = Len(Path(r)) THEN "returned" ELSE Path(r)[k + 1]
<1>1. (CHOOSE i \in DOMAIN Path(r) : Path(r)[i] = at[r]) = k
  OBVIOUS
<1> QED
  BY <1>1 DEF After

LEMMA AfterRun ==
  ASSUME NEW r, ~over[r]
  PROVE  /\ at[r] = "row" => After(r) = "started"
         /\ at[r] = "started" => After(r) = "selected"
         /\ at[r] = "selected" => After(r) = "meta"
         /\ at[r] = "meta" => After(r) = "mark"
         /\ at[r] = "mark" => After(r) = "tool"
         /\ at[r] = "tool" => After(r) = "files"
         /\ at[r] = "files" => After(r) = "result"
         /\ at[r] = "result" => After(r) = "remark"
         /\ at[r] = "remark" => After(r) = "marked"
         /\ at[r] = "marked" => After(r) = "finished"
         /\ at[r] = "finished" => After(r) = "finish"
         /\ at[r] = "finish" => After(r) = "register"
<1> DEFINE N(k) == IF k = 13 THEN "returned" ELSE RunPath[k + 1]
<1>1. Path(r) = RunPath /\ DOMAIN RunPath = 1 .. 13 /\ Len(RunPath) = 13
  BY DEF Path, RunPath
<1>2. \A k, i \in 1 .. 13 : RunPath[i] = RunPath[k] => i = k
  BY SMTT(60) DEF RunPath
<1>3. ASSUME NEW k \in 1 .. 13, at[r] = RunPath[k] PROVE After(r) = N(k)
  <2>1. k \in DOMAIN Path(r) /\ at[r] = Path(r)[k] /\ \A i \in DOMAIN Path(r) : Path(r)[i] = at[r] => i = k
    BY <1>1, <1>2, <1>3, Zenon
  <2>2. After(r) = IF k = Len(Path(r)) THEN "returned" ELSE Path(r)[k + 1]
    BY <2>1, Follow, Zenon
  <2> QED
    BY <1>1, <2>2
<1> HIDE DEF N
<1>4. /\ RunPath[1] = "row" /\ RunPath[2] = "started" /\ RunPath[3] = "selected" /\ RunPath[4] = "meta"
      /\ RunPath[5] = "mark" /\ RunPath[6] = "tool" /\ RunPath[7] = "files" /\ RunPath[8] = "result"
      /\ RunPath[9] = "remark" /\ RunPath[10] = "marked" /\ RunPath[11] = "finished" /\ RunPath[12] = "finish"
  BY DEF RunPath
<1>5. /\ N(1) = "started" /\ N(2) = "selected" /\ N(3) = "meta" /\ N(4) = "mark" /\ N(5) = "tool"
      /\ N(6) = "files" /\ N(7) = "result" /\ N(8) = "remark" /\ N(9) = "marked" /\ N(10) = "finished"
      /\ N(11) = "finish" /\ N(12) = "register"
  BY DEF N, RunPath
<1> QED
  BY <1>3, <1>4, <1>5

LEMMA AfterRefusal ==
  ASSUME NEW r, over[r]
  PROVE  /\ at[r] = "row" => After(r) = "started"
         /\ at[r] = "started" => After(r) = "meta"
         /\ at[r] = "meta" => After(r) = "mark"
         /\ at[r] = "mark" => After(r) = "selected"
         /\ at[r] = "selected" => After(r) = "exceeded"
         /\ at[r] = "exceeded" => After(r) = "finished"
         /\ at[r] = "finished" => After(r) = "finish"
         /\ at[r] = "finish" => After(r) = "register"
<1> DEFINE N(k) == IF k = 9 THEN "returned" ELSE BudgetPath[k + 1]
<1>1. Path(r) = BudgetPath /\ DOMAIN BudgetPath = 1 .. 9 /\ Len(BudgetPath) = 9
  BY DEF Path, BudgetSteps, BudgetPath
<1>2. \A k, i \in 1 .. 9 : BudgetPath[i] = BudgetPath[k] => i = k
  BY SMTT(60) DEF BudgetPath
<1>3. ASSUME NEW k \in 1 .. 9, at[r] = BudgetPath[k] PROVE After(r) = N(k)
  <2>1. k \in DOMAIN Path(r) /\ at[r] = Path(r)[k] /\ \A i \in DOMAIN Path(r) : Path(r)[i] = at[r] => i = k
    BY <1>1, <1>2, <1>3, Zenon
  <2>2. After(r) = IF k = Len(Path(r)) THEN "returned" ELSE Path(r)[k + 1]
    BY <2>1, Follow, Zenon
  <2> QED
    BY <1>1, <2>2
<1> HIDE DEF N
<1>4. /\ BudgetPath[1] = "row" /\ BudgetPath[2] = "started" /\ BudgetPath[3] = "meta" /\ BudgetPath[4] = "mark"
      /\ BudgetPath[5] = "selected" /\ BudgetPath[6] = "exceeded" /\ BudgetPath[7] = "finished"
      /\ BudgetPath[8] = "finish"
  BY DEF BudgetPath
<1>5. /\ N(1) = "started" /\ N(2) = "meta" /\ N(3) = "mark" /\ N(4) = "selected" /\ N(5) = "exceeded"
      /\ N(6) = "finished" /\ N(7) = "finish" /\ N(8) = "register"
  BY DEF N, BudgetPath
<1> QED
  BY <1>3, <1>4, <1>5

\* Names of different kinds differ.
LEMMA Kinds ==
  /\ None \notin Answers /\ Run \cap Judge = {} /\ Judge \cap (Events \cup Marks) = {}
  /\ \A s \in Seq(Hash), n \in Hash : [was |-> s, now |-> n] # None
BY RecordsAssumption

LEMMA Appended ==
  ASSUME NEW S, NEW s \in Seq(S), NEW e \in S
  PROVE  /\ Append(s, e) \in Seq(S) /\ Append(s, e) # <<>> /\ Last(Append(s, e)) = e
         /\ Range(Append(s, e)) = Range(s) \cup {e}
<1>1. /\ Append(s, e) \in Seq(S) /\ Len(Append(s, e)) = Len(s) + 1 /\ Len(s) \in Nat
      /\ Append(s, e)[Len(s) + 1] = e /\ \A i \in 1 .. Len(s) : Append(s, e)[i] = s[i]
  OBVIOUS
<1>2. Append(s, e) # <<>> /\ Last(Append(s, e)) = e
  BY <1>1 DEF Last
<1>3. DOMAIN Append(s, e) = 1 .. (Len(s) + 1) /\ DOMAIN s = 1 .. Len(s)
  BY <1>1
<1>4. \A i : i \in 1 .. (Len(s) + 1) <=> i = Len(s) + 1 \/ i \in 1 .. Len(s)
  BY <1>1
<1>5. Range(Append(s, e)) = Range(s) \cup {e}
  BY <1>1, <1>3, <1>4 DEF Range
<1> QED
  BY <1>1, <1>2, <1>5

LEMMA Singly == ASSUME NEW S, NEW e \in S PROVE <<e>> \in Seq(S) /\ <<e>> # <<>> /\ Last(<<e>>) = e
BY DEF Last

LEMMA SomeElement == ASSUME NEW S, NEW s \in Seq(S), s # <<>> PROVE \E e \in S : e \in Range(s)
<1>1. Len(s) \in Nat /\ Len(s) # 0 /\ DOMAIN s = 1 .. Len(s)
  OBVIOUS
<1>2. 1 \in DOMAIN s /\ s[1] \in S
  BY <1>1
<1> QED
  BY <1>2 DEF Range

(***************************************************************************)
(* Emissions, by the writer of command p                                   *)
(***************************************************************************)
Writes(p, r, e) ==
  /\ lines' \in [Run -> SUBSET (Events \cup Judge)] /\ events' \in [Run -> SUBSET (Events \cup Judge)]
  /\ \A q \in Run \ {r} : lines'[q] = lines[q] /\ events'[q] = events[q]
  /\ lines[r] \subseteq lines'[r] /\ lines'[r] \subseteq lines[r] \cup {e, "torn"}
  /\ events[r] \subseteq events'[r]
  /\ broken \subseteq broken' /\ broken' \subseteq broken \cup {p}
  /\ "torn" \in lines'[r] => "torn" \in lines[r] \/ p \in broken'
  /\ faults' \in 0 .. MaxFaults

\* Faults are counted.
LEMMA Counted == ASSUME Types, Fault \/ UNCHANGED faults PROVE faults' \in 0 .. MaxFaults
BY RecordsAssumption DEF Types, TypeOK, Fault

LEMMA Emits ==
  ASSUME Types, NEW p, NEW r \in Run, NEW e \in (Events \ {"torn"}) \cup Judge, e # "torn",
         Emitted(p, r, e) \/ EmitFails(p, r, e)
  PROVE  /\ Writes(p, r, e)
         /\ Emitted(p, r, e) => e \in lines'[r] \cap events'[r] /\ broken' = broken /\ p \notin broken
<1>1. /\ lines \in [Run -> SUBSET (Events \cup Judge)] /\ events \in [Run -> SUBSET (Events \cup Judge)]
      /\ "torn" \in Events /\ e \in Events \cup Judge /\ faults \in 0 .. MaxFaults /\ MaxFaults \in Nat
  BY RecordsAssumption DEF Types, TypeOK, Events
<1>2. ASSUME Emitted(p, r, e)
      PROVE  e \in lines'[r] \cap events'[r] /\ broken' = broken /\ p \notin broken
  BY <1>1, <1>2 DEF Emitted
<1>3. ASSUME Emitted(p, r, e) PROVE Writes(p, r, e)
  BY <1>1, <1>3 DEF Emitted, Writes
<1>4. ASSUME EmitFails(p, r, e) PROVE Writes(p, r, e)
  <2>1. faults' \in 0 .. MaxFaults /\ broken \subseteq broken' /\ broken' \subseteq broken \cup {p} /\ events' = events
    BY <1>4, Counted DEF EmitFails
  <2>2. /\ lines' \in {lines, [lines EXCEPT ![r] = @ \cup {e}], [lines EXCEPT ![r] = @ \cup {"torn"}]}
        /\ lines' = lines \/ lines' = [lines EXCEPT ![r] = @ \cup {e}] \/ p \in broken'
    BY <1>4 DEF EmitFails
  <2>3. /\ lines' \in [Run -> SUBSET (Events \cup Judge)] /\ \A q \in Run \ {r} : lines'[q] = lines[q]
        /\ lines[r] \subseteq lines'[r] /\ lines'[r] \subseteq lines[r] \cup {e, "torn"}
        /\ "torn" \in lines'[r] => "torn" \in lines[r] \/ p \in broken'
    BY <1>1, <2>2
  <2>4. /\ events' \in [Run -> SUBSET (Events \cup Judge)] /\ \A q \in Run \ {r} : events'[q] = events[q]
        /\ events[r] \subseteq events'[r]
    BY <1>1, <2>1
  <2> QED
    BY <2>1, <2>3, <2>4, Zenon DEF Writes
<1> QED
  BY <1>2, <1>3, <1>4

(***************************************************************************)
(* The steps of a run                                                      *)
(***************************************************************************)
Place == Range(RunPath) \cup Range(BudgetPath) \cup {"idle", "returned"}

LEMMA AfterIsPlace ==
  ASSUME NEW r \in Run, RunInv(r), at[r] \notin {"idle", "register", "returned"}
  PROVE  After(r) \in Place
BY Places, AfterRun, AfterRefusal DEF RunInv, OnItsPath, Place

\* A step to any place.
LEMMA Goes ==
  ASSUME Types, NEW r \in Run, NEW s \in Place, Goto(r, s)
  PROVE  at' \in [Run -> Place] /\ at'[r] = s
BY DEF Types, TypeOK, Place, Goto

LEMMA BeginStep ==
  ASSUME Types, NEW r \in Run, RunInv(r), Begin(r)
  PROVE  Types' /\ RunInv(r)'
<1>1. Types'
  <2>1. at' \in [Run -> Place]
    BY Places, Goes DEF Begin, GiveUp, Place
  <2>2. verdict' \in [Run -> {"none", "ok", "failed", "error", "denied", "budget", "died"}]
    BY DEF Begin, Types, TypeOK
  <2>3. UNCHANGED <<jat, row, files, registry, score, faults>>
    BY DEF Begin, judging, ledger, disk, reg
  <2>4. TypeOK'
    BY <2>1, <2>2, <2>3 DEF Types, TypeOK, Place
  <2> QED
    BY <2>4 DEF Begin, Goto, judging, ledger, disk, rows, reg, Types
<1> USE Places DEF Begin, Goto, judging, ledger, disk, rows, reg
<1>2. OnItsPath(r)'
  BY DEF Types, TypeOK, RunInv, OnItsPath, BeforeToolCall
<1>3. Refused(r)'
  BY DEF Types, TypeOK, RunInv, OnItsPath, Refused, Past
<1>4. Looked(r)'
  BY DEF Types, TypeOK, RunInv, OnItsPath, Looked
<1>5. Backed(r)'
  BY DEF Types, TypeOK, RunInv, OnItsPath, Backed, NoError, Filed, Called, Streams
<1>6. Noticed(r)'
  BY DEF Types, TypeOK, RunInv, OnItsPath, Backed, Noticed, Of
<1>7. Ok(r)'
  BY DEF Types, TypeOK, RunInv, OnItsPath, Ok, Called, Filed, Streams
<1> QED
  BY <1>1, <1>2, <1>3, <1>4, <1>5, <1>6, <1>7 DEF RunInv

LEMMA StartRunStep ==
  ASSUME Types, NEW r \in Run, RunInv(r), StartRun(r)
  PROVE  Types' /\ RunInv(r)'
<1>1. Types'
  <2>1. at[r] \notin {"idle", "register", "returned"}
    BY DEF StartRun
  <2>2. at' \in [Run -> Place]
    BY <2>1, AfterIsPlace, Places, Goes DEF StartRun, GiveUp, Place
  <2>3. verdict' \in [Run -> {"none", "ok", "failed", "error", "denied", "budget", "died"}]
    BY DEF StartRun, GiveUp, Types, TypeOK
  <2>4. row' \in [Run -> {"none", "running", "ok", "failed"}]
    BY DEF StartRun, Types, TypeOK
  <2>5. files' \in [Run -> SUBSET Names]
    <3>1. files \in [Run -> SUBSET Names] /\ "meta" \in Names
      BY DEF Types, TypeOK, Names
    <3> QED
      BY <3>1 DEF StartRun
  <2>6. faults' \in 0 .. MaxFaults
    BY Counted DEF StartRun
  <2>7. TypeOK'
    BY <2>2, <2>3, <2>4, <2>5, <2>6 DEF Types, TypeOK, Place, StartRun, judging, rows, reg
  <2> QED
    BY <2>7, <2>3, <2>4, <2>5, <2>6 DEF Types, StartRun, judging, rows, reg
<1> USE Places, AfterRun, AfterRefusal DEF StartRun, GiveUp, Goto, judging, rows, reg, Fault
<1>2. OnItsPath(r)'
  <2>1. files'[r] = files[r] \/ files'[r] = files[r] \cup {"meta"}
    BY DEF Types, TypeOK
  <2>2. files'[r] \cap {"req", "res", "stream"} = files[r] \cap {"req", "res", "stream"}
    BY <2>1
  <2>3. at'[r] \in {After(r), "returned"} /\ (at'[r] = "returned" <=> verdict'[r] # "none")
    BY DEF Types, TypeOK, RunInv, OnItsPath
  <2>4. at[r] \notin {"idle", "returned"} /\ UNCHANGED <<over, setup, calls>>
    OBVIOUS
  <2> QED
    BY <2>2, <2>3, <2>4, Zenon DEF RunInv, OnItsPath, BeforeToolCall
<1>3. Refused(r)'
  BY DEF Types, TypeOK, RunInv, OnItsPath, Refused, Past
<1>4. Looked(r)'
  BY DEF Types, TypeOK, RunInv, OnItsPath, Looked
<1>5. Backed(r)'
  BY DEF Types, TypeOK, RunInv, OnItsPath, Backed, NoError, Filed, Called, Streams
<1>6. Noticed(r)'
  BY DEF Types, TypeOK, RunInv, OnItsPath, Backed, Noticed, Of
<1>7. Ok(r)'
  BY DEF Types, TypeOK, RunInv, OnItsPath, Ok, Called, Filed, Streams
<1> QED
  BY <1>1, <1>2, <1>3, <1>4, <1>5, <1>6, <1>7 DEF RunInv

LEMMA EmitStartedStep ==
  ASSUME Types, NEW r \in Run, RunInv(r), EmitStarted(r)
  PROVE  Types' /\ RunInv(r)'
<1>0. Writes(r, r, "run.started")
      /\ (Emitted(r, r, "run.started") => "run.started" \in lines'[r] \cap events'[r] /\ broken' = broken /\ r \notin broken)
  BY Emits DEF EmitStarted, Events
<1>1. Types'
  <2>1. at[r] \notin {"idle", "register", "returned"}
    BY DEF EmitStarted
  <2>2. at' \in [Run -> Place]
    BY <2>1, AfterIsPlace, Places, Goes DEF EmitStarted, GiveUp, Place
  <2>3. verdict' \in [Run -> {"none", "ok", "failed", "error", "denied", "budget", "died"}]
    BY DEF EmitStarted, GiveUp, Types, TypeOK
  <2>4. row' \in [Run -> {"none", "running", "ok", "failed"}]
    BY DEF EmitStarted, Types, TypeOK
  <2>5. faults' \in 0 .. MaxFaults
    BY <1>0 DEF Writes
  <2>6. TypeOK'
    BY <2>2, <2>3, <2>4, <2>5 DEF Types, TypeOK, Place, EmitStarted, judging, disk, rows, reg
  <2> QED
    BY <1>0, <2>6, <2>3, <2>4, <2>5 DEF Types, EmitStarted, judging, disk, rows, reg, Writes
<1> USE <1>0, Places, AfterRun, AfterRefusal DEF EmitStarted, GiveUp, Goto, judging, disk, rows, reg, Writes
<1>2. OnItsPath(r)'
  BY DEF Types, TypeOK, RunInv, OnItsPath, BeforeToolCall
<1>3. Refused(r)'
  BY DEF Types, TypeOK, RunInv, OnItsPath, Refused, Past
<1>4. Looked(r)'
  BY DEF Types, TypeOK, RunInv, OnItsPath, Looked
<1>5. Backed(r)'
  BY DEF Types, TypeOK, RunInv, OnItsPath, Backed, NoError, Filed, Called, Streams
<1>6. Noticed(r)'
  BY DEF Types, TypeOK, RunInv, OnItsPath, Backed, Noticed, Of
<1>7. Ok(r)'
  BY DEF Types, TypeOK, RunInv, OnItsPath, Ok, Called, Filed, Streams
<1> QED
  BY <1>1, <1>2, <1>3, <1>4, <1>5, <1>6, <1>7 DEF RunInv

LEMMA EmitSelectedStep ==
  ASSUME Types, NEW r \in Run, RunInv(r), EmitSelected(r)
  PROVE  Types' /\ RunInv(r)'
<1>0. Writes(r, r, "selected")
      /\ (Emitted(r, r, "selected") => "selected" \in lines'[r] \cap events'[r] /\ broken' = broken /\ r \notin broken)
  BY Emits DEF EmitSelected, Events
<1>1. Types'
  <2>1. at[r] \notin {"idle", "register", "returned"}
    BY DEF EmitSelected
  <2>2. at' \in [Run -> Place]
    BY <2>1, AfterIsPlace, Places, Goes DEF EmitSelected, GiveUp, Place
  <2>3. verdict' = verdict \/ verdict' = [verdict EXCEPT ![r] = "error"]
    BY DEF EmitSelected, GiveUp
  <2>4. verdict' \in [Run -> {"none", "ok", "failed", "error", "denied", "budget", "died"}]
    BY <2>3 DEF Types, TypeOK
  <2>5. UNCHANGED <<jat, row, files, registry, score>> /\ faults' \in 0 .. MaxFaults
    BY <1>0 DEF EmitSelected, judging, disk, reg, Writes
  <2>6. TypeOK'
    BY <2>2, <2>4, <2>5 DEF Types, TypeOK, Place
  <2> QED
    BY <1>0, <2>6 DEF EmitSelected, GiveUp, Goto, judging, disk, rows, reg, Writes, Types
<1> USE <1>0, Places, AfterRun, AfterRefusal DEF EmitSelected, GiveUp, Goto, judging, disk, rows, reg, Writes
<1>2. OnItsPath(r)'
  BY DEF Types, TypeOK, RunInv, OnItsPath, BeforeToolCall
<1>3. Refused(r)'
  BY DEF Types, TypeOK, RunInv, OnItsPath, Refused, Past
<1>4. Looked(r)'
  BY DEF Types, TypeOK, RunInv, OnItsPath, Looked
<1>5. Backed(r)'
  BY DEF Types, TypeOK, RunInv, OnItsPath, Backed, NoError, Filed, Called, Streams
<1>6. Noticed(r)'
  BY DEF Types, TypeOK, RunInv, OnItsPath, Backed, Noticed, Of
<1>7. Ok(r)'
  BY DEF Types, TypeOK, RunInv, OnItsPath, Ok, Called, Filed, Streams
<1> QED
  BY <1>1, <1>2, <1>3, <1>4, <1>5, <1>6, <1>7 DEF RunInv

LEMMA WriteMetaStep ==
  ASSUME Types, NEW r \in Run, RunInv(r), WriteMeta(r)
  PROVE  Types' /\ RunInv(r)'
<1>1. Types'
  <2>1. at[r] \notin {"idle", "register", "returned"}
    BY DEF WriteMeta
  <2>2. at' \in [Run -> Place]
    BY <2>1, AfterIsPlace, Places, Goes DEF WriteMeta, GiveUp, Place
  <2>3. verdict' \in [Run -> {"none", "ok", "failed", "error", "denied", "budget", "died"}]
    BY DEF WriteMeta, GiveUp, Types, TypeOK
  <2>4. files' \in [Run -> SUBSET Names]
    <3>1. files \in [Run -> SUBSET Names] /\ "skill" \in Names
      BY DEF Types, TypeOK, Names
    <3> QED
      BY <3>1 DEF WriteMeta
  <2>5. faults' \in 0 .. MaxFaults
    BY Counted DEF WriteMeta
  <2>6. TypeOK'
    BY <2>2, <2>3, <2>4, <2>5 DEF Types, TypeOK, Place, WriteMeta, judging, ledger, rows, reg
  <2> QED
    BY <2>6, <2>3, <2>4, <2>5 DEF Types, WriteMeta, judging, ledger, rows, reg, GiveUp
<1> USE Places, AfterRun, AfterRefusal DEF WriteMeta, GiveUp, Goto, judging, ledger, rows, reg, Fault
<1>2. OnItsPath(r)'
  <2>1. files'[r] = files[r] \/ files'[r] = files[r] \cup {"skill"}
    BY DEF Types, TypeOK
  <2>2. files'[r] \cap {"req", "res", "stream"} = files[r] \cap {"req", "res", "stream"}
    BY <2>1
  <2>3. at'[r] \in {After(r), "returned"} /\ (at'[r] = "returned" <=> verdict'[r] # "none")
    BY DEF Types, TypeOK, RunInv, OnItsPath
  <2>4. at[r] \notin {"idle", "returned"} /\ UNCHANGED <<over, setup, calls>>
    OBVIOUS
  <2> QED
    BY <2>2, <2>3, <2>4, Zenon DEF RunInv, OnItsPath, BeforeToolCall
<1>3. Refused(r)'
  BY DEF Types, TypeOK, RunInv, OnItsPath, Refused, Past
<1>4. Looked(r)'
  BY DEF Types, TypeOK, RunInv, OnItsPath, Looked
<1>5. Backed(r)'
  BY DEF Types, TypeOK, RunInv, OnItsPath, Backed, NoError, Filed, Called, Streams
<1>6. Noticed(r)'
  BY DEF Types, TypeOK, RunInv, OnItsPath, Backed, Noticed, Of
<1>7. Ok(r)'
  BY DEF Types, TypeOK, RunInv, OnItsPath, Ok, Called, Filed, Streams
<1> QED
  BY <1>1, <1>2, <1>3, <1>4, <1>5, <1>6, <1>7 DEF RunInv

LEMMA PlaceholderStep ==
  ASSUME Types, NEW r \in Run, RunInv(r), Placeholder(r)
  PROVE  Types' /\ RunInv(r)'
<1>1. Types'
  <2>1. at[r] \notin {"idle", "register", "returned"}
    BY DEF Placeholder
  <2>2. at' \in [Run -> Place]
    BY <2>1, AfterIsPlace, Places, Goes DEF Placeholder, GiveUp, Place
  <2>3. verdict' \in [Run -> {"none", "ok", "failed", "error", "denied", "budget", "died"}]
    <3>1. verdict' = verdict \/ verdict' = [verdict EXCEPT ![r] = "error"]
      BY DEF Placeholder, GiveUp
    <3> QED
      BY <3>1 DEF Types, TypeOK
  <2>4. score' \in [Run -> Hash]
    BY DEF Placeholder, Types, Hash, Marks
  <2>5. faults' \in 0 .. MaxFaults
    BY Counted DEF Placeholder
  <2>6. TypeOK'
    BY <2>2, <2>3, <2>4, <2>5 DEF Types, TypeOK, Place, Placeholder, judging, ledger, rows, reg, Hash
  <2> QED
    <3>1. told' \in [Run -> BOOLEAN] /\ late' \in [Run -> BOOLEAN]
      <4>1. told' \in {told, [told EXCEPT ![r] = TRUE]} /\ late' \in {late, [late EXCEPT ![r] = TRUE]}
        BY DEF Placeholder
      <4> QED
        BY <4>1 DEF Types
    <3>2. UNCHANGED <<setup, over, err, oops, answer, judging, ledger, files, rows, reg>>
      BY DEF Placeholder
    <3> QED
      BY <2>6, <2>4, <3>1, <3>2 DEF Types, judging, ledger, rows, reg
<1> USE Places, AfterRun, AfterRefusal DEF Placeholder, GiveUp, Goto, judging, ledger, rows, reg, Fault
<1>2. OnItsPath(r)'
  BY DEF Types, TypeOK, RunInv, OnItsPath, BeforeToolCall
<1>3. Refused(r)'
  BY DEF Types, TypeOK, RunInv, OnItsPath, Refused, Past
<1>4. Looked(r)'
  BY DEF Types, TypeOK, RunInv, OnItsPath, Looked
<1>5. Backed(r)'
  BY DEF Types, TypeOK, RunInv, OnItsPath, Backed, NoError, Filed, Called, Streams
<1>6. Noticed(r)'
  BY DEF Types, TypeOK, RunInv, OnItsPath, Backed, Noticed, Of
<1>7. Ok(r)'
  BY DEF Types, TypeOK, RunInv, OnItsPath, Ok, Called, Filed, Streams
<1> QED
  BY <1>1, <1>2, <1>3, <1>4, <1>5, <1>6, <1>7 DEF RunInv

LEMMA CallToolStep ==
  ASSUME Types, NEW r \in Run, RunInv(r), CallTool(r)
  PROVE  Types' /\ RunInv(r)'
<1>1. Types'
  <2>1. at[r] \notin {"idle", "register", "returned"}
    BY DEF CallTool
  <2>2. at' \in [Run -> Place]
    BY <2>1, AfterIsPlace, Places, Goes DEF CallTool, GiveUp, Place
  <2>3. TypeOK'
    BY <2>2 DEF CallTool, Goto, judging, ledger, disk, rows, reg, Types, TypeOK, Place
  <2> QED
    BY <2>3 DEF CallTool, Goto, judging, ledger, disk, rows, reg, Types
<1> USE Places, AfterRun, AfterRefusal DEF CallTool, Goto, judging, ledger, disk, rows, reg
<1>2. OnItsPath(r)'
  BY DEF Types, TypeOK, RunInv, OnItsPath, BeforeToolCall
<1>3. Refused(r)'
  BY DEF Types, TypeOK, RunInv, OnItsPath, Refused, Past
<1>4. Looked(r)'
  BY DEF Types, TypeOK, RunInv, OnItsPath, Looked
<1>5. Backed(r)'
  BY DEF Types, TypeOK, RunInv, OnItsPath, Backed, NoError, Filed, Called, Streams
<1>6. Noticed(r)'
  BY DEF Types, TypeOK, RunInv, OnItsPath, Backed, Noticed, Of
<1>7. Ok(r)'
  BY DEF Types, TypeOK, RunInv, OnItsPath, Ok, Called, Filed, Streams
<1> QED
  BY <1>1, <1>2, <1>3, <1>4, <1>5, <1>6, <1>7 DEF RunInv

LEMMA WriteToolIOStep ==
  ASSUME Types, NEW r \in Run, RunInv(r), WriteToolIO(r)
  PROVE  Types' /\ RunInv(r)'
<1>1. Types'
  <2>1. at[r] \notin {"idle", "register", "returned"}
    BY DEF WriteToolIO
  <2>2. at' \in [Run -> Place]
    BY <2>1, AfterIsPlace, Places, Goes DEF WriteToolIO, GiveUp, Place
  <2>3. files' \in [Run -> SUBSET Names]
    <3>1. files \in [Run -> SUBSET Names] /\ Streams(r) \cup {"req", "res", "receipt"} \subseteq Names
          /\ \A W \in Written(r) : W \subseteq Names
      BY DEF Types, TypeOK, Names, Streams, Written
    <3> QED
      BY <3>1 DEF WriteToolIO
  <2>4. faults' \in 0 .. MaxFaults
    BY Counted DEF WriteToolIO
  <2>5. TypeOK'
    BY <2>2, <2>3, <2>4 DEF Types, TypeOK, Place, WriteToolIO, judging, ledger, rows, reg
  <2> QED
    BY <2>5, <2>3, <2>4 DEF Types, WriteToolIO, judging, ledger, rows, reg
<1> USE Places, AfterRun, AfterRefusal DEF WriteToolIO, Goto, judging, ledger, rows, reg, Fault, Written, Streams
<1>2. OnItsPath(r)'
  BY DEF Types, TypeOK, RunInv, OnItsPath, BeforeToolCall
<1>3. Refused(r)'
  BY DEF Types, TypeOK, RunInv, OnItsPath, Refused, Past
<1>4. Looked(r)'
  BY DEF Types, TypeOK, RunInv, OnItsPath, Looked
<1>5. Backed(r)'
  BY DEF Types, TypeOK, RunInv, OnItsPath, Backed, NoError, Filed, Called, Streams
<1>6. Noticed(r)'
  BY DEF Types, TypeOK, RunInv, OnItsPath, Backed, Noticed, Of
<1>7. Ok(r)'
  BY DEF Types, TypeOK, RunInv, OnItsPath, Ok, Called, Filed, Streams
<1> QED
  BY <1>1, <1>2, <1>3, <1>4, <1>5, <1>6, <1>7 DEF RunInv

LEMMA EmitResultStep ==
  ASSUME Types, NEW r \in Run, RunInv(r), EmitResult(r)
  PROVE  Types' /\ RunInv(r)'
<1>0. Writes(r, r, "tool") /\ err' \in [Run -> BOOLEAN] /\ calls' \in [Run -> Answers \cup {None}]
      /\ calls'[r] \in {calls[r], answer[r]}
      /\ (~err'[r] => calls'[r] = answer[r] /\ answer[r].ok /\ "tool" \in lines'[r])
      /\ (r \in broken' => r \in broken \/ err'[r])
  <2>1. err \in [Run -> BOOLEAN] /\ calls \in [Run -> Answers \cup {None}] /\ answer[r] \in Answers \cup {None}
    BY DEF Types
  <2>2. CASE Emitted(r, r, "tool") /\ calls' = [calls EXCEPT ![r] = answer[r]]
             /\ err' = [err EXCEPT ![r] = ResultError(FALSE, answer[r])]
    BY <2>1, <2>2, Emits DEF Events, ResultError, EmitOrToolFailed
  <2>3. CASE EmitFails(r, r, "tool") /\ UNCHANGED calls /\ err' = [err EXCEPT ![r] = ResultError(TRUE, answer[r])]
    BY <2>1, <2>3, Emits DEF Events, ResultError, EmitOrToolFailed
  <2>4. CASE /\ r \notin broken /\ Fault /\ UNCHANGED <<calls, broken>>
             /\ lines' = [lines EXCEPT ![r] = @ \cup {"tool"}] /\ events' = [events EXCEPT ![r] = @ \cup {"tool"}]
             /\ err' = [err EXCEPT ![r] = ResultError(TRUE, answer[r])]
    <3>1. Writes(r, r, "tool")
      BY <2>4, Counted DEF Types, Writes, Events
    <3> QED
      BY <2>1, <2>4, <3>1 DEF ResultError, EmitOrToolFailed
  <2> QED
    BY <2>2, <2>3, <2>4 DEF EmitResult
<1>1. Types'
  <2>1. at[r] \notin {"idle", "register", "returned"}
    BY DEF EmitResult
  <2>2. at' \in [Run -> Place]
    BY <2>1, AfterIsPlace, Places, Goes DEF EmitResult
  <2>3. TypeOK'
    BY <1>0, <2>2 DEF EmitResult, judging, disk, rows, reg, Writes, Types, TypeOK, Place
  <2> QED
    BY <1>0, <2>3 DEF EmitResult, judging, disk, rows, reg, Writes, Types
<1>2. UNCHANGED <<setup, over, late, told, oops, verdict, answer, judging, row, disk, rows, reg>>
      /\ at[r] = "result" /\ at'[r] = After(r)
  BY Goes DEF EmitResult, Goto, Types, TypeOK
<1> USE <1>0, <1>2, Places, AfterRun, AfterRefusal DEF judging, disk, rows, reg, Writes
<1>3. OnItsPath(r)'
  BY DEF Types, RunInv, OnItsPath, BeforeToolCall
<1>4. Refused(r)'
  BY DEF RunInv, OnItsPath, Refused, Past
<1>5. Looked(r)'
  BY DEF RunInv, OnItsPath, Looked
<1>6. Backed(r)'
  BY DEF RunInv, OnItsPath, Backed, NoError, Filed, Called, Streams
<1>7. Noticed(r)'
  BY DEF RunInv, OnItsPath, Backed, Noticed, Of
<1>8. Ok(r)'
  BY Kinds DEF RunInv, OnItsPath, Backed, Ok, Called, Filed, Streams
<1> QED
  BY <1>1, <1>3, <1>4, <1>5, <1>6, <1>7, <1>8 DEF RunInv

LEMMA RemarkStep ==
  ASSUME Types, NEW r \in Run, RunInv(r), Remark(r)
  PROVE  Types' /\ RunInv(r)'
<1>1. Types'
  <2>1. at[r] \notin {"idle", "register", "returned"}
    BY DEF Remark
  <2>2. at' \in [Run -> Place]
    BY <2>1, AfterIsPlace, Places, Goes DEF Remark, GiveUp, Place
  <2>3. score' \in [Run -> Hash]
    BY DEF Remark, Types, Hash, Marks
  <2>4. faults' \in 0 .. MaxFaults
    BY Counted DEF Remark
  <2>5. TypeOK'
    BY <2>2, <2>3, <2>4 DEF Types, TypeOK, Place, Remark, judging, ledger, rows, reg, Hash
  <2> QED
    BY <2>5, <2>3, <2>4 DEF Types, Remark, judging, ledger, rows, reg
<1> USE Places, AfterRun, AfterRefusal DEF Remark, Goto, judging, ledger, rows, reg, Fault
<1>2. OnItsPath(r)'
  BY DEF Types, TypeOK, RunInv, OnItsPath, BeforeToolCall
<1>3. Refused(r)'
  BY DEF Types, TypeOK, RunInv, OnItsPath, Refused, Past
<1>4. Looked(r)'
  BY DEF Types, TypeOK, RunInv, OnItsPath, Looked
<1>5. Backed(r)'
  BY DEF Types, TypeOK, RunInv, OnItsPath, Backed, NoError, Filed, Called, Streams
<1>6. Noticed(r)'
  BY DEF Types, TypeOK, RunInv, OnItsPath, Backed, Noticed, Of
<1>7. Ok(r)'
  BY DEF Types, TypeOK, RunInv, OnItsPath, Ok, Called, Filed, Streams
<1> QED
  BY <1>1, <1>2, <1>3, <1>4, <1>5, <1>6, <1>7 DEF RunInv

LEMMA EmitMarkedStep ==
  ASSUME Types, NEW r \in Run, RunInv(r), EmitMarked(r)
  PROVE  Types' /\ RunInv(r)'
<1>0. Writes(r, r, "marked")
      /\ (Emitted(r, r, "marked") => "marked" \in lines'[r] \cap events'[r] /\ broken' = broken /\ r \notin broken)
  BY Emits DEF EmitMarked, Events
<1>1. Types'
  <2>1. at[r] \notin {"idle", "register", "returned"}
    BY DEF EmitMarked
  <2>2. at' \in [Run -> Place]
    BY <2>1, AfterIsPlace, Places, Goes DEF EmitMarked, GiveUp, Place
  <2>3. TypeOK'
    BY <1>0, <2>2 DEF EmitMarked, Goto, judging, disk, rows, reg, Writes, Types, TypeOK, Place
  <2> QED
    BY <1>0, <2>3 DEF EmitMarked, Goto, judging, disk, rows, reg, Writes, Types
<1> USE <1>0, Places, AfterRun, AfterRefusal DEF EmitMarked, Goto, judging, disk, rows, reg, Writes
<1>2. OnItsPath(r)'
  BY DEF Types, TypeOK, RunInv, OnItsPath, BeforeToolCall
<1>3. Refused(r)'
  BY DEF Types, TypeOK, RunInv, OnItsPath, Refused, Past
<1>4. Looked(r)'
  BY DEF Types, TypeOK, RunInv, OnItsPath, Looked
<1>5. Backed(r)'
  BY DEF Types, TypeOK, RunInv, OnItsPath, Backed, NoError, Filed, Called, Streams
<1>6. Noticed(r)'
  BY DEF Types, TypeOK, RunInv, OnItsPath, Backed, Noticed, Of
<1>7. Ok(r)'
  BY DEF Types, TypeOK, RunInv, OnItsPath, Ok, Called, Filed, Streams
<1> QED
  BY <1>1, <1>2, <1>3, <1>4, <1>5, <1>6, <1>7 DEF RunInv

LEMMA EmitExceededStep ==
  ASSUME Types, NEW r \in Run, RunInv(r), EmitExceeded(r)
  PROVE  Types' /\ RunInv(r)'
<1>0. Writes(r, r, "exceeded")
      /\ (Emitted(r, r, "exceeded") => "exceeded" \in lines'[r] \cap events'[r] /\ broken' = broken /\ r \notin broken)
  BY Emits DEF EmitExceeded, Events
<1>1. Types'
  <2>1. at[r] \notin {"idle", "register", "returned"}
    BY DEF EmitExceeded
  <2>2. at' \in [Run -> Place]
    BY <2>1, AfterIsPlace, Places, Goes DEF EmitExceeded, GiveUp, Place
  <2>3. TypeOK'
    BY <1>0, <2>2 DEF EmitExceeded, GiveUp, Goto, judging, disk, rows, reg, Writes, Types, TypeOK, Place
  <2> QED
    BY <1>0, <2>3 DEF EmitExceeded, GiveUp, Goto, judging, disk, rows, reg, Writes, Types
<1> USE <1>0, Places, AfterRun, AfterRefusal DEF EmitExceeded, GiveUp, Goto, judging, disk, rows, reg, Writes
<1>2. OnItsPath(r)'
  BY DEF Types, TypeOK, RunInv, OnItsPath, BeforeToolCall
<1>3. Refused(r)'
  BY DEF Types, TypeOK, RunInv, OnItsPath, Refused, Past
<1>4. Looked(r)'
  BY DEF Types, TypeOK, RunInv, OnItsPath, Looked
<1>5. Backed(r)'
  BY DEF Types, TypeOK, RunInv, OnItsPath, Backed, NoError, Filed, Called, Streams
<1>6. Noticed(r)'
  BY DEF Types, TypeOK, RunInv, OnItsPath, Backed, Noticed, Of
<1>7. Ok(r)'
  BY DEF Types, TypeOK, RunInv, OnItsPath, Ok, Called, Filed, Streams
<1> QED
  BY <1>1, <1>2, <1>3, <1>4, <1>5, <1>6, <1>7 DEF RunInv

LEMMA EmitFinishedStep ==
  ASSUME Types, NEW r \in Run, RunInv(r), EmitFinished(r)
  PROVE  Types' /\ RunInv(r)'
<1>0. Writes(r, r, "finished")
      /\ (Emitted(r, r, "finished") => "finished" \in lines'[r] \cap events'[r] /\ broken' = broken /\ r \notin broken)
  BY Emits DEF EmitFinished, Events
<1>1. Types'
  <2>1. at[r] \notin {"idle", "register", "returned"}
    BY DEF EmitFinished
  <2>2. at' \in [Run -> Place]
    BY <2>1, AfterIsPlace, Places, Goes DEF EmitFinished, GiveUp, Place
  <2>3. TypeOK'
    BY <1>0, <2>2 DEF EmitFinished, GiveUp, Goto, judging, disk, rows, reg, Writes, Types, TypeOK, Place
  <2> QED
    BY <1>0, <2>3 DEF EmitFinished, GiveUp, Goto, judging, disk, rows, reg, Writes, Types
<1> USE <1>0, Places, AfterRun, AfterRefusal DEF EmitFinished, GiveUp, Goto, judging, disk, rows, reg, Writes
<1>2. OnItsPath(r)'
  BY DEF Types, TypeOK, RunInv, OnItsPath, BeforeToolCall
<1>3. Refused(r)'
  BY DEF Types, TypeOK, RunInv, OnItsPath, Refused, Past
<1>4. Looked(r)'
  BY DEF Types, TypeOK, RunInv, OnItsPath, Looked
<1>5. Backed(r)'
  BY DEF Types, TypeOK, RunInv, OnItsPath, Backed, NoError, Filed, Called, Streams
<1>6. Noticed(r)'
  BY DEF Types, TypeOK, RunInv, OnItsPath, Backed, Noticed, Of
<1>7. Ok(r)'
  BY DEF Types, TypeOK, RunInv, OnItsPath, Ok, Called, Filed, Streams
<1> QED
  BY <1>1, <1>2, <1>3, <1>4, <1>5, <1>6, <1>7 DEF RunInv

LEMMA FinishRunStep ==
  ASSUME Types, NEW r \in Run, RunInv(r), FinishRun(r)
  PROVE  Types' /\ RunInv(r)'
<1>1. Types'
  <2>1. at[r] \notin {"idle", "register", "returned"}
    BY DEF FinishRun
  <2>2. at' \in [Run -> Place]
    BY <2>1, AfterIsPlace, Places, Goes DEF FinishRun, GiveUp, Place
  <2>3. verdict' \in [Run -> {"none", "ok", "failed", "error", "denied", "budget", "died"}]
    BY DEF FinishRun, GiveUp, Types, TypeOK
  <2>4. row' \in [Run -> {"none", "running", "ok", "failed"}]
    BY DEF FinishRun, Types, TypeOK
  <2>5. faults' \in 0 .. MaxFaults
    BY Counted DEF FinishRun
  <2>6. TypeOK'
    BY <2>2, <2>3, <2>4, <2>5 DEF Types, TypeOK, Place, FinishRun, judging, disk, rows, reg
  <2> QED
    BY <2>6, <2>3, <2>4, <2>5 DEF Types, FinishRun, judging, disk, rows, reg, GiveUp
<1> USE Places, AfterRun, AfterRefusal DEF FinishRun, GiveUp, Goto, judging, disk, rows, reg, Fault
<1>2. OnItsPath(r)'
  BY DEF Types, TypeOK, RunInv, OnItsPath, BeforeToolCall
<1>3. Refused(r)'
  BY DEF Types, TypeOK, RunInv, OnItsPath, Refused, Past
<1>4. Looked(r)'
  BY DEF Types, TypeOK, RunInv, OnItsPath, Looked
<1>5. Backed(r)'
  <2>1. ~over[r] => at[r] = "finish" /\ at'[r] \in {"register", "returned"}
    BY DEF Types, TypeOK
  <2>2. ~over[r] /\ ~oops'[r] => row'[r] = IF err[r] THEN "failed" ELSE "ok"
    BY DEF Types, TypeOK
  <2> QED
    BY <2>1, <2>2 DEF RunInv, Backed, NoError, Filed, Called, Streams
<1>6. Noticed(r)'
  BY DEF Types, TypeOK, RunInv, OnItsPath, Backed, Noticed, Of
<1>7. Ok(r)'
  <2>1. row'[r] = "ok" => row[r] = "ok" \/ Called(r)
    BY DEF Types, TypeOK, RunInv, OnItsPath, Backed, NoError
  <2>2. verdict'[r] # "ok"
    BY DEF Types, TypeOK, RunInv, OnItsPath
  <2> QED
    BY <2>1, <2>2, Kinds DEF RunInv, Ok, Called
<1> QED
  BY <1>1, <1>2, <1>3, <1>4, <1>5, <1>6, <1>7 DEF RunInv

LEMMA LookUpStep ==
  ASSUME Types, NEW r \in Run, RunInv(r), LookUp(r)
  PROVE  Types' /\ RunInv(r)'
<1>1. Types'
  <2>3. TypeOK'
    BY Types DEF LookUp, LookAt, running, judging, ledger, disk, rows, Types, TypeOK, Place
  <2> QED
    BY <2>3 DEF LookUp, LookAt, running, judging, ledger, disk, rows, Types
<1> USE Places, AfterRun, AfterRefusal DEF LookUp, LookAt, running, judging, ledger, disk, rows
<1>2. OnItsPath(r)'
  BY DEF Types, TypeOK, RunInv, OnItsPath, BeforeToolCall
<1>3. Refused(r)'
  BY DEF Types, TypeOK, RunInv, OnItsPath, Refused, Past
<1>4. Looked(r)'
  <2>1. seen'[r].was = scoreReg[r] /\ seen'[r].now = score[r]
    BY DEF Types
  <2>2. over[r] => score[r] # "none"
    BY Kinds DEF RunInv, Refused, Past, Marks
  <2> QED
    BY <2>1, <2>2 DEF Looked
<1>5. Backed(r)'
  BY DEF Types, TypeOK, RunInv, OnItsPath, Backed, NoError, Filed, Called, Streams
<1>6. Noticed(r)'
  BY DEF Types, TypeOK, RunInv, OnItsPath, Backed, Noticed, Of
<1>7. Ok(r)'
  BY DEF Types, TypeOK, RunInv, OnItsPath, Ok, Called, Filed, Streams
<1> QED
  BY <1>1, <1>2, <1>3, <1>4, <1>5, <1>6, <1>7 DEF RunInv

LEMMA Inserts ==
  ASSUME Types, NEW p \in Run \cup Judge, NEW r \in Run, seen[p] # None
  PROVE  /\ Inserted(p, r) \in [Run -> Seq(Hash)]
         /\ \A q \in Run \ {r} : Inserted(p, r)[q] = scoreReg[q]
         /\ scoreReg[r] # <<>> => Inserted(p, r)[r] # <<>>
         /\ seen[p].now # "none" /\ (seen[p].was # <<>> => scoreReg[r] # <<>>) => Inserted(p, r)[r] # <<>>
<1> DEFINE s == seen[p]
<1>1. s.was \in Seq(Hash) /\ s.now \in Hash /\ scoreReg \in [Run -> Seq(Hash)]
  BY DEF Types
<1>2. Append(scoreReg[r], s.now) \in Seq(Hash) /\ Append(scoreReg[r], s.now) # <<>>
      /\ <<s.now>> \in Seq(Hash) /\ <<s.now>> # <<>>
  BY <1>1, Appended, Singly
<1>3. CASE s.now = "none" \/ ~Outdated(s.was, s.now)
  BY <1>1, <1>3 DEF Inserted, Outdated, Changed
<1>4. CASE ~(s.now = "none" \/ ~Outdated(s.was, s.now))
  <2>1. Inserted(p, r) = [scoreReg EXCEPT ![r] = IF s.was = <<>> THEN Append(@, s.now) ELSE <<s.now>>]
    BY <1>4 DEF Inserted
  <2> QED
    BY <1>1, <1>2, <2>1
<1> QED
  BY <1>3, <1>4

LEMMA Registers ==
  ASSUME Types, NEW p \in Run \cup Judge, NEW r \in Run, seen[p] # None, Register(p, r)
  PROVE  /\ scoreReg' \in [Run -> Seq(Hash)]
         /\ \A q \in Run \ {r} : scoreReg'[q] = scoreReg[q]
         /\ scoreReg[r] # <<>> => scoreReg'[r] # <<>>
         /\ seen[p].now # "none" /\ (seen[p].was # <<>> => scoreReg[r] # <<>>) => scoreReg'[r] # <<>>
         /\ faults' \in 0 .. MaxFaults
<1>1. CASE scoreReg' = Inserted(p, r) /\ UNCHANGED faults
  BY <1>1, Inserts, Counted
<1>2. CASE Fault /\ scoreReg' = [scoreReg EXCEPT ![r] = Append(@, seen[p].now)]
  <2>1. seen[p].now \in Hash /\ scoreReg \in [Run -> Seq(Hash)]
    BY DEF Types
  <2>2. Append(scoreReg[r], seen[p].now) \in Seq(Hash) /\ Append(scoreReg[r], seen[p].now) # <<>>
    BY <2>1, Appended
  <2> QED
    BY <1>2, <2>1, <2>2, Counted
<1> QED
  BY <1>1, <1>2 DEF Register

LEMMA PersistStep ==
  ASSUME Types, NEW r \in Run, RunInv(r), Persist(r)
  PROVE  /\ Types' /\ RunInv(r)'
         /\ \A q \in Run \ {r} : scoreReg'[q] = scoreReg[q]
<1> DEFINE Here == {"trace"} \cup files[r]
<1>1. /\ at[r] = "register" /\ seen[r] # None /\ at'[r] = "returned" /\ at' \in [Run -> Place]
      /\ UNCHANGED <<setup, over, err, late, told, oops, answer, judging, ledger, disk, rows, seen>>
  BY Goes DEF Persist, Place
<1>2. /\ scoreReg' \in [Run -> Seq(Hash)] /\ faults' \in 0 .. MaxFaults
      /\ \A q \in Run \ {r} : scoreReg'[q] = scoreReg[q]
      /\ verdict'[r] = "budget" => scoreReg'[r] # <<>>
      /\ scoreReg[r] # <<>> => scoreReg'[r] # <<>>
  <2>0. verdict \in [Run -> {"none", "ok", "failed", "error", "denied", "budget", "died"}]
    BY DEF Types, TypeOK
  <2>1. CASE UNCHANGED <<scoreReg, faults>> /\ ~told[r] /\ verdict' = [verdict EXCEPT ![r] = Outcome(r)]
    BY <1>1, <2>0, <2>1, Counted DEF Types, Outcome, RunInv, Refused, Past
  <2>2. CASE Register(r, r) /\ verdict' = [verdict EXCEPT ![r] = Outcome(r)]
    BY <1>1, <2>0, <2>2, Registers DEF Outcome, RunInv, Looked
  <2>3. CASE Fault /\ verdict' = [verdict EXCEPT ![r] = "error"] /\ scoreReg' \in {scoreReg, Inserted(r, r)}
    BY <1>1, <2>0, <2>3, Inserts, Counted DEF Types
  <2> QED
    BY <2>1, <2>2, <2>3 DEF Persist
<1> DEFINE Grows ==
      /\ registry' \in [Run -> SUBSET Names] /\ registry[r] \subseteq registry'[r]
      /\ verdict'[r] # "error" => Here \subseteq registry'[r]
<1>3. Grows
  <2>1. registry \in [Run -> SUBSET Names] /\ Here \subseteq Names
        /\ {"trace", "meta", "skill"} \subseteq Names
    BY DEF Types, TypeOK, Names
  <2>2. verdict \in [Run -> {"none", "ok", "failed", "error", "denied", "budget", "died"}]
    BY DEF Types, TypeOK
  <2>3. CASE registry' = [registry EXCEPT ![r] = @ \cup Here]
    BY <2>1, <2>3
  <2>4. ASSUME NEW N \in SUBSET {"trace", "meta", "skill"}, registry' = [registry EXCEPT ![r] = @ \cup N],
               verdict' = [verdict EXCEPT ![r] = "error"]
        PROVE  Grows
    BY <2>1, <2>2, <2>4
  <2>5. \/ registry' = [registry EXCEPT ![r] = @ \cup Here]
        \/ verdict' = [verdict EXCEPT ![r] = "error"]
           /\ \E N \in SUBSET {"trace", "meta", "skill"} : registry' = [registry EXCEPT ![r] = @ \cup N]
    <3> HIDE DEF Grows
    <3>1. {{}, {"trace"}, {"trace", "meta"}} \cup {{"trace", "meta"}, {"trace", "meta", "skill"} \cap Here}
            \subseteq SUBSET {"trace", "meta", "skill"}
      OBVIOUS
    <3> QED
      BY <3>1 DEF Persist
  <2> QED
    BY <2>3, <2>4, <2>5
<1>4. verdict'[r] \in {Outcome(r), "error"} /\ Outcome(r) \in {"budget", "error", "failed", "ok"}
      /\ verdict' \in [Run -> {"none", "ok", "failed", "error", "denied", "budget", "died"}]
  <2>1. Outcome(r) \in {"budget", "error", "failed", "ok"}
    BY DEF Outcome
  <2>2. verdict' \in {[verdict EXCEPT ![r] = Outcome(r)], [verdict EXCEPT ![r] = "error"]}
    BY DEF Persist
  <2>3. verdict \in [Run -> {"none", "ok", "failed", "error", "denied", "budget", "died"}]
    BY DEF Types, TypeOK
  <2> QED
    BY <2>1, <2>2, <2>3
<1>5. Types'
  BY <1>1, <1>2, <1>3, <1>4 DEF judging, ledger, disk, rows, Types, TypeOK, Place
<1> USE <1>1, <1>2, <1>3, <1>4, Places DEF judging, ledger, disk, rows
<1>6. OnItsPath(r)'
  BY DEF RunInv, OnItsPath, BeforeToolCall
<1>7. Refused(r)'
  BY DEF RunInv, OnItsPath, Refused, Past, Outcome
<1>8. Looked(r)'
  BY DEF RunInv, Looked
<1>9. Backed(r)'
  BY DEF RunInv, Backed, NoError, Filed, Called, Streams
<1>10. Noticed(r)'
  BY DEF RunInv, Noticed, Outcome, Of
<1>11. Ok(r)'
  BY DEF RunInv, OnItsPath, Backed, NoError, Ok, Called, Filed, Streams, Outcome
<1> QED
  BY <1>2, <1>5, <1>6, <1>7, <1>8, <1>9, <1>10, <1>11 DEF RunInv

LEMMA RunDiesStep ==
  ASSUME Types, NEW r \in Run, RunInv(r), RunDies(r)
  PROVE  Types' /\ RunInv(r)'
<1>1. Types'
  <2>2. at' \in [Run -> Place]
    BY Places, Goes DEF RunDies, GiveUp, Place
  <2>3. verdict' \in [Run -> {"none", "ok", "failed", "error", "denied", "budget", "died"}]
    BY DEF RunDies, Types, TypeOK
  <2>4. faults' \in 0 .. MaxFaults
    BY Counted DEF RunDies
  <2>5. TypeOK'
    BY <2>2, <2>3, <2>4 DEF Types, TypeOK, Place, RunDies, judging, ledger, disk, rows, reg
  <2> QED
    BY <2>5, <2>3, <2>4 DEF Types, RunDies, judging, ledger, disk, rows, reg
<1> USE Places, AfterRun, AfterRefusal DEF RunDies, Goto, judging, ledger, disk, rows, reg, Fault
<1>2. OnItsPath(r)'
  BY DEF Types, TypeOK, RunInv, OnItsPath, BeforeToolCall
<1>3. Refused(r)'
  BY DEF Types, TypeOK, RunInv, OnItsPath, Refused, Past
<1>4. Looked(r)'
  BY DEF Types, TypeOK, RunInv, OnItsPath, Looked
<1>5. Backed(r)'
  BY DEF Types, TypeOK, RunInv, OnItsPath, Backed, NoError, Filed, Called, Streams
<1>6. Noticed(r)'
  BY DEF Types, TypeOK, RunInv, OnItsPath, Backed, Noticed, Of
<1>7. Ok(r)'
  BY DEF Types, TypeOK, RunInv, OnItsPath, Ok, Called, Filed, Streams
<1> QED
  BY <1>1, <1>2, <1>3, <1>4, <1>5, <1>6, <1>7 DEF RunInv

LEMMA RunSteps ==
  ASSUME Types, NEW r \in Run, RunInv(r), RunStep(r)
  PROVE  Types' /\ RunInv(r)'
BY BeginStep, StartRunStep, EmitStartedStep, EmitSelectedStep, WriteMetaStep, PlaceholderStep, CallToolStep,
   WriteToolIOStep, EmitResultStep, RemarkStep, EmitMarkedStep, EmitExceededStep, EmitFinishedStep,
   FinishRunStep, LookUpStep, PersistStep, RunDiesStep DEF RunStep

\* What belongs to run q stays as it is.
Same(q) ==
  /\ setup'[q] = setup[q] /\ at'[q] = at[q] /\ over'[q] = over[q] /\ err'[q] = err[q] /\ late'[q] = late[q]
  /\ told'[q] = told[q] /\ oops'[q] = oops[q] /\ verdict'[q] = verdict[q] /\ answer'[q] = answer[q]
  /\ row'[q] = row[q] /\ lines'[q] = lines[q] /\ events'[q] = events[q] /\ calls'[q] = calls[q]
  /\ files'[q] = files[q] /\ score'[q] = score[q] /\ registry'[q] = registry[q]
  /\ scoreReg'[q] = scoreReg[q] /\ seen'[q] = seen[q]

\* A step of a run is its own: other runs and the judges stay as they are.
RunFrame(r) ==
  /\ at[r] # "returned"
  /\ UNCHANGED <<judging, rows>>
  /\ broken \subseteq broken' /\ broken' \subseteq broken \cup {r}
  /\ \A j \in Judge : seen'[j] = seen[j]
  /\ \A q \in Run \ {r} : Same(q)

LEMMA RunsAreApart ==
  ASSUME Types, NEW r \in Run, RunInv(r), RunStep(r)
  PROVE  RunFrame(r)
<1>1. CASE Begin(r)
  BY <1>1, Kinds DEF Begin, Goto, judging, ledger, disk, rows, reg, Types, TypeOK, RunFrame, Same
<1>2. CASE StartRun(r)
  BY <1>2, Kinds DEF StartRun, Goto, GiveUp, judging, rows, reg, Types, TypeOK, RunFrame, Same
<1>3. CASE EmitStarted(r)
  <2>1. Writes(r, r, "run.started")
    BY <1>3, Emits DEF EmitStarted, Events
  <2> QED
    BY <1>3, <2>1 DEF EmitStarted, Goto, GiveUp, judging, disk, rows, reg, Writes, Types, TypeOK, RunFrame, Same
<1>4. CASE EmitSelected(r)
  <2>1. Writes(r, r, "selected")
    BY <1>4, Emits DEF EmitSelected, Events
  <2> QED
    BY <1>4, <2>1 DEF EmitSelected, Goto, GiveUp, judging, disk, rows, reg, Writes, Types, TypeOK, RunFrame, Same
<1>5. CASE WriteMeta(r)
  BY <1>5, Kinds DEF WriteMeta, Goto, GiveUp, judging, ledger, rows, reg, Types, TypeOK, RunFrame, Same
<1>6. CASE Placeholder(r)
  BY <1>6, Kinds DEF Placeholder, Goto, GiveUp, judging, ledger, rows, reg, Types, TypeOK, RunFrame, Same
<1>7. CASE CallTool(r)
  BY <1>7, Kinds DEF CallTool, Goto, judging, ledger, disk, rows, reg, Types, TypeOK, RunFrame, Same
<1>8. CASE WriteToolIO(r)
  BY <1>8, Kinds DEF WriteToolIO, Goto, judging, ledger, rows, reg, Types, TypeOK, RunFrame, Same
<1>9. CASE EmitResult(r)
  <2>1. Writes(r, r, "tool") /\ \A q \in Run \ {r} : calls'[q] = calls[q] /\ err'[q] = err[q]
    <3>1. CASE Emitted(r, r, "tool") \/ EmitFails(r, r, "tool")
      BY <1>9, <3>1, Emits DEF EmitResult, Events, Types, Emitted, EmitFails
    <3>2. CASE /\ Fault /\ UNCHANGED <<calls, broken>> /\ lines' = [lines EXCEPT ![r] = @ \cup {"tool"}]
               /\ events' = [events EXCEPT ![r] = @ \cup {"tool"}]
               /\ err' = [err EXCEPT ![r] = ResultError(TRUE, answer[r])]
      <4>1. Writes(r, r, "tool")
        BY <3>2, Counted DEF Types, Writes, Events
      <4> QED
        BY <3>2, <4>1 DEF Types
    <3> QED
      BY <1>9, <3>1, <3>2 DEF EmitResult
  <2>2. /\ at[r] = "result" /\ \A q \in Run \ {r} : at'[q] = at[q]
        /\ UNCHANGED <<setup, over, late, told, oops, verdict, answer, judging, row, disk, rows, reg>>
    BY <1>9 DEF EmitResult, Goto, Types, TypeOK
  <2> QED
    BY <2>1, <2>2, Kinds DEF disk, reg, Writes, RunFrame, Same
<1>10. CASE Remark(r)
  BY <1>10, Kinds DEF Remark, Goto, judging, ledger, rows, reg, Types, TypeOK, RunFrame, Same
<1>11. CASE EmitMarked(r)
  <2>1. Writes(r, r, "marked")
    BY <1>11, Emits DEF EmitMarked, Events
  <2> QED
    BY <1>11, <2>1 DEF EmitMarked, Goto, judging, disk, rows, reg, Writes, Types, TypeOK, RunFrame, Same
<1>12. CASE EmitExceeded(r)
  <2>1. Writes(r, r, "exceeded")
    BY <1>12, Emits DEF EmitExceeded, Events
  <2> QED
    BY <1>12, <2>1 DEF EmitExceeded, Goto, GiveUp, judging, disk, rows, reg, Writes, Types, TypeOK, RunFrame, Same
<1>13. CASE EmitFinished(r)
  <2>1. Writes(r, r, "finished")
    BY <1>13, Emits DEF EmitFinished, Events
  <2> QED
    BY <1>13, <2>1 DEF EmitFinished, Goto, GiveUp, judging, disk, rows, reg, Writes, Types, TypeOK, RunFrame, Same
<1>14. CASE FinishRun(r)
  BY <1>14, Kinds DEF FinishRun, Goto, GiveUp, judging, disk, rows, reg, Types, TypeOK, RunFrame, Same
<1>15. CASE LookUp(r)
  BY <1>15, Kinds DEF LookUp, Goto, LookAt, running, judging, ledger, disk, rows, Types, TypeOK, RunFrame, Same
<1>16. CASE Persist(r)
  <2>1. \A q \in Run \ {r} : scoreReg'[q] = scoreReg[q] /\ registry'[q] = registry[q] /\ verdict'[q] = verdict[q]
    <3>1. registry \in [Run -> SUBSET Names] /\ DOMAIN verdict = Run
      BY DEF Types, TypeOK
    <3> QED
      BY <1>16, <3>1, PersistStep DEF Persist
  <2> QED
    BY <1>16, <2>1, Kinds DEF Persist, Goto, judging, ledger, disk, rows, Types, TypeOK, RunFrame, Same
<1>17. CASE RunDies(r)
  BY <1>17, Kinds DEF RunDies, Goto, judging, ledger, disk, rows, reg, Types, TypeOK, RunFrame, Same
<1> QED
  BY <1>1, <1>2, <1>3, <1>4, <1>5, <1>6, <1>7, <1>8, <1>9, <1>10, <1>11, <1>12, <1>13, <1>14, <1>15,
     <1>16, <1>17 DEF RunStep

\* What is true of a run stays true while others take their steps.
LEMMA Elsewhere ==
  ASSUME NEW q \in Run, RunInv(q), Same(q), broken \subseteq broken', q \in broken' => q \in broken
  PROVE  RunInv(q)'
<1> USE DEF Same, RunInv
<1>1. OnItsPath(q)'
  BY DEF OnItsPath, BeforeToolCall
<1>2. Refused(q)'
  BY DEF Refused, Past
<1>3. Looked(q)'
  BY DEF Looked
<1>4. Backed(q)'
  BY DEF Backed, NoError, Filed, Called, Streams
<1>5. Noticed(q)'
  BY DEF Noticed, Of
<1>6. Ok(q)'
  BY DEF Ok, Called, Filed, Streams
<1> QED
  BY <1>1, <1>2, <1>3, <1>4, <1>5, <1>6

(***************************************************************************)
(* The steps of a judge                                                    *)
(***************************************************************************)
\* A step of a judge writes to the records of its run, beside what the run itself keeps.
JudgeFrame(j) ==
  LET r == Of(j) IN
    /\ UNCHANGED <<running, row, calls, files, registry>>
    /\ \A q \in Run \ {r} : Same(q)
    /\ \A q \in Run \ {r} : scores'[q] = scores[q] /\ judgeRuns'[q] = judgeRuns[q]
    /\ \A k \in Judge \ {j} : jat'[k] = jat[k] /\ saw'[k] = saw[k] /\ agreed'[k] = agreed[k] /\ pass'[k] = pass[k]
    /\ \A p \in (Run \cup Judge) \ {j} : seen'[p] = seen[p]
    /\ early \subseteq early' /\ early' \subseteq early \cup {j} /\ crowded \subseteq crowded'
    /\ broken \subseteq broken' /\ broken' \subseteq broken \cup {j}
    /\ lines[r] \subseteq lines'[r] /\ lines'[r] \subseteq lines[r] \cup {"judge.started", "torn", j}
    /\ events[r] \subseteq events'[r]
    /\ "torn" \in lines'[r] => "torn" \in lines[r] \/ j \in broken'
    /\ score'[r] \in {score[r], "torn", j}
    /\ scoreReg[r] # <<>> => scoreReg'[r] # <<>>

LEMMA Runs == ASSUME NEW j \in Judge PROVE Of(j) \in Run
BY RecordsAssumption DEF Of

LEMMA JudgeEmits ==
  ASSUME Types, NEW j \in Judge, NEW e \in {"judge.started", j},
         Emitted(j, Of(j), e) \/ EmitFails(j, Of(j), e)
  PROVE  Writes(j, Of(j), e) /\ (Emitted(j, Of(j), e) => e \in lines'[Of(j)] \cap events'[Of(j)])
<1>1. e \in (Events \ {"torn"}) \cup Judge /\ e # "torn"
  BY Kinds DEF Events
<1> QED
  BY <1>1, Emits, Runs

\* Where a judge may be.
Stages == {"idle", "start", "rules", "metrics", "write", "insert", "judgeRun", "scored", "look", "persist", "done", "gone"}

LEMMA Advances ==
  ASSUME Types, NEW j \in Judge, NEW s \in Stages, To(j, s)
  PROVE  jat' \in [Judge -> Stages] /\ jat'[j] = s /\ \A k \in Judge \ {j} : jat'[k] = jat[k]
BY DEF Types, TypeOK, Stages, To

LEMMA OpenStep ==
  ASSUME Types, NEW j \in Judge, Open(j)
  PROVE  Types' /\ JudgeFrame(j)
<1>0. /\ early' \in {early, early \cup {j}}
      /\ crowded \subseteq crowded' /\ crowded' \subseteq Judge
      /\ (To(j, "start") /\ saw' = [saw EXCEPT ![j] = row[Of(j)]]) \/ (To(j, "gone") /\ UNCHANGED saw)
      /\ UNCHANGED <<running, agreed, pass, ledger, disk, rows, reg, faults>>
  <2>1. early' \in {early, early \cup {j}}
    BY DEF Open
  <2>2. crowded \subseteq crowded' /\ crowded' \subseteq Judge
    BY DEF Open, Types
  <2> QED
    <3> DEFINE C == "skill" \in files[Of(j)] /\ row[Of(j)] # "none"
    <3>1. IF C THEN To(j, "start") /\ saw' = [saw EXCEPT ![j] = row[Of(j)]] ELSE To(j, "gone") /\ UNCHANGED saw
      BY Zenon DEF Open
    <3>2. UNCHANGED <<running, agreed, pass, ledger, disk, rows, reg, faults>>
      BY DEF Open
    <3>3. (To(j, "start") /\ saw' = [saw EXCEPT ![j] = row[Of(j)]]) \/ (To(j, "gone") /\ UNCHANGED saw)
      BY <3>1, Zenon
    <3> QED
      BY <2>1, <2>2, <3>2, <3>3, Zenon
<1>1. jat' \in [Judge -> Stages] /\ \A k \in Judge \ {j} : jat'[k] = jat[k]
  BY <1>0, Advances DEF Stages
<1>2. TypeOK'
  BY <1>0, <1>1 DEF running, ledger, disk, rows, reg, Types, TypeOK, Stages, Hash
<1>3. saw' \in [Judge -> {"none", "running", "ok", "failed"}] /\ \A k \in Judge \ {j} : saw'[k] = saw[k]
  <2>1. row[Of(j)] \in {"none", "running", "ok", "failed"} /\ saw \in [Judge -> {"none", "running", "ok", "failed"}]
    BY Runs DEF Types, TypeOK
  <2> QED
    BY <1>0, <2>1
<1>4. Types'
  BY <1>0, <1>2, <1>3 DEF running, ledger, disk, rows, reg, Types
<1>5. JudgeFrame(j)
  BY <1>0, <1>1, <1>3, Runs, Kinds DEF running, ledger, disk, rows, reg, Types, JudgeFrame, Same
<1> QED
  BY <1>4, <1>5

LEMMA EmitJudgeStartedStep ==
  ASSUME Types, NEW j \in Judge, EmitJudgeStarted(j)
  PROVE  Types' /\ JudgeFrame(j)
<1>0. Writes(j, Of(j), "judge.started")
  BY JudgeEmits DEF EmitJudgeStarted
<1>1. jat' \in [Judge -> Stages] /\ \A k \in Judge \ {j} : jat'[k] = jat[k]
  BY Advances DEF EmitJudgeStarted, Stages
<1>2. TypeOK'
  BY <1>0, <1>1 DEF EmitJudgeStarted, To, running, disk, rows, reg, Writes, Types, TypeOK, Stages, Hash
<1>3. Types'
  BY <1>0, <1>1, <1>2, Runs DEF EmitJudgeStarted, To, running, disk, rows, reg, Writes, Types
<1>4. JudgeFrame(j)
  BY <1>0, <1>1, Runs, Kinds DEF EmitJudgeStarted, To, running, disk, rows, reg, Writes, Types, JudgeFrame, Same
<1> QED
  BY <1>3, <1>4

LEMMA ReplayStep ==
  ASSUME Types, NEW j \in Judge, Replay(j)
  PROVE  Types' /\ JudgeFrame(j)
<1>1. jat' \in [Judge -> Stages] /\ \A k \in Judge \ {j} : jat'[k] = jat[k]
  BY Advances DEF Replay, Stages
<1>2. TypeOK'
  BY <1>1 DEF Replay, To, running, ledger, disk, rows, reg, Types, TypeOK, Stages, Hash
<1>3. Types'
  <2>1. agreed' \in [Judge -> BOOLEAN]
    BY DEF Replay, Types, Verified
  <2> QED
    BY <1>1, <1>2, <2>1 DEF Replay, running, ledger, disk, rows, reg, Types
<1>4. JudgeFrame(j)
  BY <1>1, Runs, Kinds DEF Replay, To, running, ledger, disk, rows, reg, Types, JudgeFrame, Same
<1> QED
  BY <1>3, <1>4

LEMMA EvaluateStep ==
  ASSUME Types, NEW j \in Judge, Evaluate(j)
  PROVE  Types' /\ JudgeFrame(j)
<1>1. jat' \in [Judge -> Stages] /\ \A k \in Judge \ {j} : jat'[k] = jat[k]
  BY Advances DEF Evaluate, Stages
<1>2. TypeOK'
  BY <1>1 DEF Evaluate, To, running, ledger, disk, rows, reg, Types, TypeOK, Stages, Hash
<1>3. Types'
  BY <1>1, <1>2, Runs DEF Evaluate, To, running, ledger, disk, rows, reg, Types
<1>4. JudgeFrame(j)
  BY <1>1, Runs, Kinds DEF Evaluate, To, running, ledger, disk, rows, reg, Types, JudgeFrame, Same
<1> QED
  BY <1>3, <1>4

LEMMA WriteScoreStep ==
  ASSUME Types, NEW j \in Judge, WriteScore(j)
  PROVE  Types' /\ JudgeFrame(j)
<1>0. /\ score' \in [Run -> Hash] /\ score'[Of(j)] \in {j, "torn"} /\ faults' \in 0 .. MaxFaults
      /\ \A q \in Run \ {Of(j)} : score'[q] = score[q]
  <2>1. score \in [Run -> Hash] /\ j \in Hash /\ "torn" \in Hash
    BY DEF Types, Hash, Marks
  <2>2. CASE score' = [score EXCEPT ![Of(j)] = j] /\ UNCHANGED faults
    BY <2>1, <2>2, Runs, Counted
  <2>3. CASE Fault /\ score' = [score EXCEPT ![Of(j)] = "torn"]
    BY <2>1, <2>3, Runs, Counted
  <2> QED
    BY <2>2, <2>3 DEF WriteScore
<1>1. jat' \in [Judge -> Stages] /\ \A k \in Judge \ {j} : jat'[k] = jat[k]
  <2>1. To(j, "insert") \/ To(j, "gone")
    BY DEF WriteScore
  <2> QED
    BY <2>1, Advances DEF Stages
<1>2. TypeOK'
  BY <1>0, <1>1 DEF WriteScore, To, running, ledger, rows, reg, Types, TypeOK, Stages, Hash
<1>3. Types'
  BY <1>0, <1>1, <1>2, Runs DEF WriteScore, To, running, ledger, rows, reg, Types
<1>4. JudgeFrame(j)
  BY <1>0, <1>1, Runs, Kinds DEF WriteScore, To, running, ledger, rows, reg, Types, JudgeFrame, Same
<1> QED
  BY <1>3, <1>4

LEMMA InsertScoreStep ==
  ASSUME Types, NEW j \in Judge, InsertScore(j)
  PROVE  Types' /\ JudgeFrame(j)
<1>0. scores' \in [Run -> Seq(Judge)] /\ \A q \in Run \ {Of(j)} : scores'[q] = scores[q]
  BY Runs, Appended DEF InsertScore, Types
<1>1. jat' \in [Judge -> Stages] /\ \A k \in Judge \ {j} : jat'[k] = jat[k]
  BY Advances DEF InsertScore, Stages
<1>2. TypeOK'
  BY <1>0, <1>1 DEF InsertScore, To, running, ledger, disk, reg, Types, TypeOK, Stages, Hash
<1>3. Types'
  BY <1>0, <1>1, <1>2, Runs DEF InsertScore, To, running, ledger, disk, reg, Types
<1>4. JudgeFrame(j)
  BY <1>0, <1>1, Runs, Kinds DEF InsertScore, To, running, ledger, disk, reg, Types, JudgeFrame, Same
<1> QED
  BY <1>3, <1>4

LEMMA InsertJudgeRunStep ==
  ASSUME Types, NEW j \in Judge, InsertJudgeRun(j)
  PROVE  Types' /\ JudgeFrame(j)
<1>0. judgeRuns' \in [Run -> Seq(Judge)] /\ \A q \in Run \ {Of(j)} : judgeRuns'[q] = judgeRuns[q]
  BY Runs, Appended DEF InsertJudgeRun, Types
<1>1. jat' \in [Judge -> Stages] /\ \A k \in Judge \ {j} : jat'[k] = jat[k]
  BY Advances DEF InsertJudgeRun, Stages
<1>2. TypeOK'
  BY <1>0, <1>1 DEF InsertJudgeRun, To, running, ledger, disk, reg, Types, TypeOK, Stages, Hash
<1>3. Types'
  BY <1>0, <1>1, <1>2, Runs DEF InsertJudgeRun, To, running, ledger, disk, reg, Types
<1>4. JudgeFrame(j)
  BY <1>0, <1>1, Runs, Kinds DEF InsertJudgeRun, To, running, ledger, disk, reg, Types, JudgeFrame, Same
<1> QED
  BY <1>3, <1>4

LEMMA EmitScoredStep ==
  ASSUME Types, NEW j \in Judge, EmitScored(j)
  PROVE  Types' /\ JudgeFrame(j)
<1>0. Writes(j, Of(j), j)
  BY JudgeEmits DEF EmitScored
<1>1. jat' \in [Judge -> Stages] /\ \A k \in Judge \ {j} : jat'[k] = jat[k]
  BY Advances DEF EmitScored, Stages
<1>2. TypeOK'
  BY <1>0, <1>1 DEF EmitScored, To, running, disk, rows, reg, Writes, Types, TypeOK, Stages, Hash
<1>3. Types'
  BY <1>0, <1>1, <1>2, Runs DEF EmitScored, To, running, disk, rows, reg, Writes, Types
<1>4. JudgeFrame(j)
  BY <1>0, <1>1, Runs, Kinds DEF EmitScored, To, running, disk, rows, reg, Writes, Types, JudgeFrame, Same
<1> QED
  BY <1>3, <1>4

LEMMA LookUpScoreStep ==
  ASSUME Types, NEW j \in Judge, LookUpScore(j)
  PROVE  Types' /\ JudgeFrame(j)
<1>1. jat' \in [Judge -> Stages] /\ \A k \in Judge \ {j} : jat'[k] = jat[k]
  BY Advances DEF LookUpScore, Stages
<1>2. TypeOK'
  BY <1>1 DEF LookUpScore, To, LookAt, running, ledger, disk, rows, Types, TypeOK, Stages, Hash
<1>3. Types'
  BY <1>1, <1>2, Runs DEF LookUpScore, To, LookAt, running, ledger, disk, rows, Types
<1>4. JudgeFrame(j)
  BY <1>1, Runs, Kinds DEF LookUpScore, To, LookAt, running, ledger, disk, rows, Types, JudgeFrame, Same
<1> QED
  BY <1>3, <1>4

LEMMA PersistScoreStep ==
  ASSUME Types, NEW j \in Judge, InOrder(j), PersistScore(j)
  PROVE  Types' /\ JudgeFrame(j)
<1>0. /\ scoreReg' \in [Run -> Seq(Hash)] /\ faults' \in 0 .. MaxFaults
      /\ \A q \in Run \ {Of(j)} : scoreReg'[q] = scoreReg[q]
      /\ scoreReg[Of(j)] # <<>> => scoreReg'[Of(j)] # <<>>
  <2>1. seen[j] # None /\ j \in Run \cup Judge
    BY DEF InOrder, PersistScore
  <2> QED
    BY <2>1, Runs, Registers DEF PersistScore
<1>1. jat' \in [Judge -> Stages] /\ \A k \in Judge \ {j} : jat'[k] = jat[k]
  BY Advances DEF PersistScore, Stages
<1>2. TypeOK'
  BY <1>0, <1>1 DEF PersistScore, To, running, ledger, disk, rows, Types, TypeOK, Stages, Hash
<1>3. Types'
  BY <1>0, <1>1, <1>2, Runs DEF PersistScore, To, running, ledger, disk, rows, Types
<1>4. JudgeFrame(j)
  BY <1>0, <1>1, Runs, Kinds DEF PersistScore, To, running, ledger, disk, rows, Types, JudgeFrame, Same
<1> QED
  BY <1>3, <1>4

LEMMA JudgeLeavesStep ==
  ASSUME Types, NEW j \in Judge, JudgeLeaves(j)
  PROVE  Types' /\ JudgeFrame(j)
<1>0. faults' \in 0 .. MaxFaults
  BY Counted DEF JudgeLeaves
<1>1. jat' \in [Judge -> Stages] /\ \A k \in Judge \ {j} : jat'[k] = jat[k]
  BY Advances DEF JudgeLeaves, Stages
<1>2. TypeOK'
  BY <1>0, <1>1 DEF JudgeLeaves, To, running, ledger, disk, rows, reg, Types, TypeOK, Stages, Hash
<1>3. Types'
  BY <1>0, <1>1, <1>2, Runs DEF JudgeLeaves, To, running, ledger, disk, rows, reg, Types
<1>4. JudgeFrame(j)
  BY <1>0, <1>1, Runs, Kinds DEF JudgeLeaves, To, running, ledger, disk, rows, reg, Types, JudgeFrame, Same
<1> QED
  BY <1>3, <1>4

LEMMA JudgeSteps ==
  ASSUME Types, NEW j \in Judge, InOrder(j), JudgeStep(j)
  PROVE  Types' /\ JudgeFrame(j)
BY OpenStep, EmitJudgeStartedStep, ReplayStep, EvaluateStep, WriteScoreStep, InsertScoreStep,
   InsertJudgeRunStep, EmitScoredStep, LookUpScoreStep, PersistScoreStep, JudgeLeavesStep DEF JudgeStep

LEMMA RunsKeep ==
  ASSUME Types, NEW j \in Judge, NEW q \in Run, RunInv(q), JudgeFrame(j)
  PROVE  RunInv(q)'
<1>1. CASE q # Of(j)
  BY <1>1, Elsewhere, Kinds DEF JudgeFrame
<1>2. CASE q = Of(j)
  <2> USE <1>2, Kinds DEF JudgeFrame, running, RunInv
  <2>1. OnItsPath(q)'
    BY DEF OnItsPath, BeforeToolCall
  <2>2. Refused(q)'
    BY DEF Refused, Past
  <2>3. Looked(q)'
    BY DEF Looked
  <2>4. Backed(q)'
    BY DEF Backed, NoError, Filed, Called, Streams
  <2>5. Noticed(q)'
    BY DEF Noticed, Of
  <2>6. Ok(q)'
    BY DEF Ok, Called, Filed, Streams
  <2> QED
    BY <2>1, <2>2, <2>3, <2>4, <2>5, <2>6
<1> QED
  BY <1>1, <1>2

(***************************************************************************)
(* What judges have seen                                                   *)
(***************************************************************************)
LEMMA SameCalls ==
  ASSUME NEW r \in Run, answer'[r] = answer[r], calls'[r] = calls[r], files'[r] = files[r],
         "tool" \in lines'[r] <=> "tool" \in lines[r]
  PROVE  Verified(r)' = Verified(r)
<1>1. DbRows(r)' = DbRows(r)
  BY DEF DbRows
<1>2. FileRows(r)' = FileRows(r)
  BY DEF FileRows
<1>3. TraceRows(r)' = TraceRows(r)
  BY DEF TraceRows
<1> QED
  BY <1>1, <1>2, <1>3 DEF Verified

\* What has been earned stays so, and what is read later is the same.
LEMMA EarnedStays ==
  ASSUME NEW k \in Judge, LET r == Of(k) IN
           /\ answer'[r] = answer[r] /\ calls'[r] = calls[r] /\ files'[r] = files[r] /\ row'[r] = row[r]
           /\ setup'[r] = setup[r] /\ ("tool" \in lines'[r] <=> "tool" \in lines[r])
  PROVE  Verified(Of(k))' = Verified(Of(k)) /\ (Earned(k) => Earned(k)')
<1>1. Verified(Of(k))' = Verified(Of(k))
  BY SameCalls, Runs
<1> QED
  BY <1>1 DEF Earned, Of

LEMMA RunsLeaveJudges ==
  ASSUME IInv, NEW r \in Run, RunFrame(r)
  PROVE  /\ \A j \in Judge : HasRead(j)' /\ InOrder(j)'
         /\ RowsAreOfJudges' /\ Met' /\ Recorded'
<1>1. /\ \A j \in Judge : jat'[j] = jat[j] /\ saw'[j] = saw[j] /\ agreed'[j] = agreed[j] /\ pass'[j] = pass[j]
      /\ early' = early /\ crowded' = crowded /\ scores' = scores /\ judgeRuns' = judgeRuns
      /\ \A j \in Judge : seen'[j] = seen[j]
  BY DEF RunFrame, judging, rows
<1>2. ASSUME NEW j \in Judge, j \notin early, jat[j] # "idle" PROVE Of(j) # r /\ Of(j) \in Run /\ Same(Of(j))
  BY <1>2, Runs DEF IInv, HasRead, RunFrame
<1>3. ASSUME NEW j \in Judge PROVE HasRead(j)' /\ InOrder(j)'
  <2>1. InOrder(j)'
    BY <1>1 DEF IInv, InOrder
  <2>2. CASE j \in early \/ jat[j] = "idle"
    BY <1>1, <2>2 DEF IInv, HasRead, InOrder
  <2>3. CASE j \notin early /\ jat[j] # "idle"
    <3>1. Same(Of(j))
      BY <1>2, <2>3
    <3>2. Verified(Of(j))' = Verified(Of(j)) /\ (Earned(j) => Earned(j)')
      BY <3>1, EarnedStays DEF Same
    <3>3. Of(j)' = Of(j)
      BY DEF Of
    <3>4. HasRead(j)
      BY DEF IInv
    <3>5. at'[Of(j)] = at[Of(j)] /\ row'[Of(j)] = row[Of(j)]
      BY <3>1 DEF Same
    <3>6. jat'[j] = jat[j] /\ saw'[j] = saw[j] /\ agreed'[j] = agreed[j] /\ pass'[j] = pass[j] /\ early' = early
      BY <1>1
    <3> QED
      BY <2>1, <2>3, <3>2, <3>3, <3>4, <3>5, <3>6 DEF HasRead
  <2> QED
    BY <2>1, <2>2, <2>3
<1>4. RowsAreOfJudges'
  BY <1>1 DEF IInv, RowsAreOfJudges, Of
<1>5. Met'
  BY <1>1 DEF IInv, Met, Of, Judging
<1>6. Recorded'
  <2> SUFFICES ASSUME NEW q \in Run, Alone(q)' PROVE (Newest(q) /\ \A j \in JudgesOf(q) : Left(j))'
    BY DEF Recorded
  <2>1. Alone(q) /\ JudgesOf(q)' = JudgesOf(q)
    BY <1>1 DEF Alone, JudgesOf, Of
  <2>2. Newest(q) /\ \A j \in JudgesOf(q) : j \in Judge /\ Of(j) = q /\ j \notin early /\ Left(j)
    BY <2>1 DEF IInv, Recorded, Alone, JudgesOf
  <2>3. CASE \E j \in JudgesOf(q) : jat[j] # "idle"
    <3>1. Same(q)
      BY <1>2, <2>2, <2>3
    <3>2. Newest(q)'
      BY <1>1, <2>1, <2>2, <3>1 DEF Newest, Same
    <3>3. ASSUME NEW j \in JudgesOf(q) PROVE Left(j)'
      BY <1>1, <2>2, <3>1 DEF Left, Same, Of
    <3> QED
      BY <2>1, <3>2, <3>3
  <2>4. CASE \A j \in JudgesOf(q) : jat[j] = "idle"
    <3>1. scores[q] = <<>>
      <4> SUFFICES ASSUME scores[q] # <<>> PROVE FALSE
        OBVIOUS
      <4>1. PICK j \in Judge : j \in Range(scores[q])
        BY SomeElement DEF IInv, Types
      <4> QED
        BY <2>4, <4>1 DEF IInv, RowsAreOfJudges, JudgesOf, Rowed
    <3>2. Newest(q)'
      BY <1>1, <3>1 DEF Newest
    <3>3. ASSUME NEW j \in JudgesOf(q) PROVE Left(j)'
      BY <1>1, <2>2, <2>4 DEF Left, Rowed
    <3> QED
      BY <2>1, <3>2, <3>3
  <2> QED
    BY <2>3, <2>4
<1> QED
  BY <1>3, <1>4, <1>5, <1>6

\* A verdict that passes is earned by what is in the records of a run that is over.
LEMMA EvaluationEarns ==
  ASSUME Types, NEW j \in Judge, RunInv(Of(j)), HasRead(j), j \notin early, jat[j] = "metrics",
         Score(j, Metric(j)) >= 2 * RubricOf[j].pass, MustOK(j, Metric(j))
  PROVE  Earned(j)
<1> DEFINE r == Of(j)
           m == Metric(j)
           w == RubricOf[j].w
<1>1. r \in Run /\ saw[j] = row[r] /\ agreed[j] = Verified(r) /\ (row[r] = "ok" => calls[r] # None)
  BY Runs DEF HasRead, RunInv, Ok
<1>2. /\ w \in [Criterion -> Nat] /\ RubricOf[j].must \in [Criterion -> BOOLEAN] /\ RubricOf[j].pass \in Nat \ {0}
      /\ \A s \in Setups : s.schema \in BOOLEAN
  BY RecordsAssumption
<1>3. Verified(r) /\ ~setup[r].schema /\ Musts(j, m)
  BY <1>1 DEF MustOK, RulesPass
<1>4. RubricOf[j].must["format"] => saw[j] = "ok"
  <2>1. RubricOf[j].must["format"] => m["format"] >= 1
    BY <1>3 DEF Musts, Criterion
  <2>2. m["format"] = IF saw[j] = "ok" THEN 2 ELSE 0
    BY DEF Metric
  <2> QED
    BY <2>1, <2>2
<1>5. ASSUME calls[r] = None PROVE setup[r].expect = "stream" /\ "stream" \in files[r]
  <2>1. "tool" \notin lines[r]
    BY <1>3, <1>5 DEF Verified, DbRows, TraceRows
  <2>2. saw[j] # "ok"
    BY <1>1, <1>5
  <2> SUFFICES ASSUME ~(setup[r].expect = "stream" /\ "stream" \in files[r]) PROVE FALSE
    OBVIOUS
  <2>3. m.format = 0 /\ m.completeness = 0 /\ m.actionability = 0
    BY <2>1, <2>2 DEF Metric
  <2>4. w.format \in Nat /\ w.completeness \in Nat /\ w.actionability \in Nat
    BY <1>2 DEF Criterion
  <2>5. Score(j, m) = 0
    BY <2>3, <2>4 DEF Score
  <2> QED
    BY <1>2, <2>5
<1> QED
  BY <1>1, <1>3, <1>4, <1>5 DEF Earned

\* The judge's own step.
LEMMA JudgeReads ==
  ASSUME IInv, NEW j \in Judge, JudgeStep(j), JudgeFrame(j), Types'
  PROVE  HasRead(j)' /\ InOrder(j)'
<1> DEFINE r == Of(j)
<1>1. r \in Run /\ r' = r
  BY Runs DEF Of
<1>2. HasRead(j) /\ InOrder(j) /\ RunInv(r)
  BY <1>1 DEF IInv
<1>3. Verified(r)' = Verified(r) /\ (Earned(j) => Earned(j)')
  <2>1. "tool" \in lines'[r] <=> "tool" \in lines[r]
    BY Kinds DEF JudgeFrame, Events
  <2> QED
    BY <2>1, EarnedStays DEF JudgeFrame, running
<1>4. /\ at'[r] = at[r] /\ row'[r] = row[r]
      /\ jat \in [Judge -> Stages] /\ saw \in [Judge -> {"none", "running", "ok", "failed"}]
      /\ agreed \in [Judge -> BOOLEAN] /\ pass \in [Judge -> BOOLEAN]
  BY DEF JudgeFrame, running, IInv, Types, TypeOK, Stages
<1> HIDE DEF r
<1>5. CASE Open(j)
  <2>1. jat[j] = "idle" /\ jat'[j] \in {"start", "gone"} /\ pass' = pass /\ ~pass[j]
    BY <1>2, <1>4, <1>5 DEF Open, To, InOrder
  <2>2. j \notin early' => at[r] = "returned"
    BY <1>5 DEF Open, r
  <2>3. jat'[j] = "start" => saw'[j] = row[r]
    BY <1>4, <1>5 DEF Open, To, r
  <2> QED
    BY <1>1, <1>4, <2>1, <2>2, <2>3 DEF HasRead, InOrder, r
<1>6. CASE EmitJudgeStarted(j)
  <2>1. jat[j] = "start" /\ jat'[j] \in {"rules", "gone"} /\ UNCHANGED <<saw, agreed, pass, early>>
    BY <1>4, <1>6 DEF EmitJudgeStarted, To
  <2> QED
    BY <1>1, <1>2, <1>3, <1>4, <2>1 DEF HasRead, InOrder, r
<1>7. CASE Replay(j)
  <2>1. jat[j] = "rules" /\ jat'[j] \in {"metrics", "gone"} /\ UNCHANGED <<saw, pass, early>>
        /\ (jat'[j] = "metrics" => agreed'[j] = Verified(r))
    BY <1>4, <1>7 DEF Replay, To, r
  <2> QED
    BY <1>1, <1>2, <1>3, <1>4, <2>1 DEF HasRead, InOrder, r
<1>8. CASE Evaluate(j)
  <2>1. jat[j] = "metrics" /\ jat'[j] \in {"write", "gone"} /\ UNCHANGED <<saw, agreed, early>>
        /\ (jat'[j] = "gone" => pass' = pass)
        /\ (jat'[j] = "write" => pass'[j] = (Score(j, Metric(j)) >= 2 * RubricOf[j].pass /\ MustOK(j, Metric(j))))
    BY <1>4, <1>8 DEF Evaluate, To
  <2>2. ASSUME j \notin early, jat'[j] = "write", pass'[j] PROVE Earned(j)
    BY <1>2, <2>1, <2>2, EvaluationEarns DEF r, IInv
  <2> QED
    BY <1>1, <1>2, <1>3, <1>4, <2>1, <2>2 DEF HasRead, InOrder, r
<1>9. CASE WriteScore(j) \/ InsertScore(j) \/ InsertJudgeRun(j) \/ EmitScored(j) \/ PersistScore(j) \/ JudgeLeaves(j)
  <2>1. /\ jat[j] \notin {"idle", "gone"} /\ jat'[j] \in {"insert", "judgeRun", "scored", "look", "done", "gone"}
        /\ UNCHANGED <<saw, agreed, pass, early>>
        /\ jat[j] \in {"start", "rules", "metrics"} => jat'[j] = "gone"
    BY <1>4, <1>9 DEF WriteScore, InsertScore, InsertJudgeRun, EmitScored, PersistScore, JudgeLeaves, To,
       Judging, running
  <2> QED
    BY <1>1, <1>2, <1>3, <1>4, <2>1 DEF HasRead, InOrder, r
<1>10. CASE LookUpScore(j)
  <2>1. jat[j] = "look" /\ jat'[j] = "persist" /\ UNCHANGED <<saw, agreed, pass, early>>
    BY <1>4, <1>10 DEF LookUpScore, To
  <2>2. seen'[j] # None
    BY <1>1, <1>10, Kinds DEF LookUpScore, LookAt, IInv, Types, r
  <2> QED
    BY <1>1, <1>2, <1>3, <1>4, <2>1, <2>2 DEF HasRead, InOrder, r
<1> QED
  BY <1>5, <1>6, <1>7, <1>8, <1>9, <1>10 DEF JudgeStep

(***************************************************************************)
(* What judges leave behind                                                *)
(***************************************************************************)
\* The step of one judge, and the rows.
LEMMA RowsStayOfJudges ==
  ASSUME IInv, NEW j \in Judge, JudgeStep(j), JudgeFrame(j)
  PROVE  RowsAreOfJudges'
<1>1. jat \in [Judge -> Stages] /\ scores \in [Run -> Seq(Judge)] /\ Of(j) \in Run
  BY Runs DEF IInv, Types, TypeOK, Stages
<1>2. /\ jat[j] \in Rowed \cup {"gone"} => jat'[j] \in Rowed \cup {"gone"}
      /\ jat'[j] = "judgeRun" \/ scores' = scores
  BY <1>1 DEF JudgeStep, Open, EmitJudgeStarted, Replay, Evaluate, WriteScore, InsertScore, InsertJudgeRun,
              EmitScored, LookUpScore, PersistScore, JudgeLeaves, Judging, To, rows, Rowed
<1>3. \A q \in Run : Range(scores'[q]) \subseteq Range(scores[q]) \cup (IF q = Of(j) /\ jat'[j] = "judgeRun" THEN {j} ELSE {})
  <2>1. CASE scores' = scores
    BY <2>1
  <2>2. CASE scores' = [scores EXCEPT ![Of(j)] = Append(@, j)] /\ jat'[j] = "judgeRun"
    BY <1>1, <2>2, Appended
  <2>3. scores' = scores \/ (scores' = [scores EXCEPT ![Of(j)] = Append(@, j)] /\ jat'[j] = "judgeRun")
    BY <1>1 DEF JudgeStep, Open, EmitJudgeStarted, Replay, Evaluate, WriteScore, InsertScore, InsertJudgeRun,
                EmitScored, LookUpScore, PersistScore, JudgeLeaves, To, rows
  <2> QED
    BY <2>1, <2>2, <2>3
<1>4. \A k \in Judge \ {j} : jat'[k] = jat[k]
  BY DEF JudgeFrame
<1> QED
  BY <1>2, <1>3, <1>4 DEF IInv, RowsAreOfJudges, Of, Rowed

\* The step of one judge, and those it meets.
LEMMA JudgesMeet ==
  ASSUME IInv, NEW j \in Judge, JudgeStep(j), JudgeFrame(j)
  PROVE  Met'
<1>1. jat \in [Judge -> Stages] /\ \A k \in Judge \ {j} : jat'[k] = jat[k]
  BY DEF IInv, Types, TypeOK, Stages, JudgeFrame
<1>2. CASE Open(j)
  <2>1. \A k \in Judge \ {j} : Judging(k) /\ Of(k) = Of(j) => j \in crowded' /\ k \in crowded'
    BY <1>2 DEF Open
  <2>2. crowded \subseteq crowded'
    BY DEF JudgeFrame
  <2> QED
    BY <1>1, <2>1, <2>2 DEF IInv, Met, Judging, Of
<1>3. CASE ~Open(j)
  <2>1. Judging(j) /\ crowded \subseteq crowded'
    BY <1>3 DEF JudgeStep, EmitJudgeStarted, Replay, Evaluate, WriteScore, InsertScore, InsertJudgeRun,
                EmitScored, LookUpScore, PersistScore, JudgeLeaves, Judging, JudgeFrame
  <2> QED
    BY <1>1, <2>1 DEF IInv, Met, Judging, Of
<1> QED
  BY <1>2, <1>3

\* A judge that registers what it has written.
LEMMA RegistersLast ==
  ASSUME Types, NEW j \in Judge, NEW r \in Run, seen[j] # None, seen[j].now = j, seen[j].was = scoreReg[r],
         Register(j, r)
  PROVE  scoreReg'[r] # <<>> /\ Last(scoreReg'[r]) = j
<1>1. scoreReg \in [Run -> Seq(Hash)] /\ j \in Hash /\ j # "none"
  BY Kinds DEF Types, Hash, Marks
<1>2. /\ Append(scoreReg[r], j) # <<>> /\ Last(Append(scoreReg[r], j)) = j
      /\ <<j>> # <<>> /\ Last(<<j>>) = j
  BY <1>1, Appended, Singly
<1>3. CASE scoreReg' = Inserted(j, r)
  <2>1. CASE ~Outdated(seen[j].was, seen[j].now)
    BY <1>3, <2>1 DEF Inserted, Outdated, Changed
  <2>2. CASE Outdated(seen[j].was, seen[j].now)
    BY <1>1, <1>2, <1>3, <2>2 DEF Inserted
  <2> QED
    BY <2>1, <2>2
<1>4. CASE scoreReg' = [scoreReg EXCEPT ![r] = Append(@, seen[j].now)]
  BY <1>1, <1>2, <1>4
<1> QED
  BY <1>3, <1>4 DEF Register

\* The step of a judge that is alone with its run.
LEMMA LeftByItself ==
  ASSUME IInv, Types', NEW j \in Judge, JudgeStep(j), JudgeFrame(j), Alone(Of(j))'
  PROVE  Newest(Of(j))' /\ \A k \in JudgesOf(Of(j)) : Left(k)'
<1> DEFINE r == Of(j)
<1>1. /\ r \in Run /\ r' = r /\ jat \in [Judge -> Stages] /\ InOrder(j)
      /\ scores \in [Run -> Seq(Judge)] /\ judgeRuns \in [Run -> Seq(Judge)] /\ score \in [Run -> Hash]
      /\ seen \in [Run \cup Judge -> {None} \cup [was : Seq(Hash), now : Hash]]
      /\ scoreReg \in [Run -> Seq(Hash)]
  BY Runs DEF IInv, Types, TypeOK, Stages, Of
<1>2. /\ Alone(r) /\ j \in JudgesOf(r) /\ j \notin crowded' /\ j \notin early'
      /\ JudgesOf(r)' = JudgesOf(r)
  BY <1>1 DEF Alone, JudgesOf, JudgeFrame, Of
<1>3. Newest(r) /\ \A k \in JudgesOf(r) : k \in Judge /\ Of(k) = r /\ Left(k)
  BY <1>1, <1>2 DEF IInv, Recorded, JudgesOf
<1>4. \A k \in JudgesOf(r) \ {j} : jat'[k] = jat[k] /\ seen'[k] = seen[k] /\ Of(k)' = r
  BY <1>3 DEF JudgeFrame, Of
<1>5. /\ lines[r] \subseteq lines'[r] /\ events[r] \subseteq events'[r] /\ score'[r] \in {score[r], "torn", j}
  BY DEF JudgeFrame
<1>6. j \notin Marks
  BY Kinds
<1> HIDE DEF r
\* Nobody else is under way.
<1>7. CASE ~Open(j)
  <2>1. Judging(j)
    BY <1>7 DEF JudgeStep, EmitJudgeStarted, Replay, Evaluate, WriteScore, InsertScore, InsertJudgeRun,
                EmitScored, LookUpScore, PersistScore, JudgeLeaves, Judging
  <2>2. \A k \in JudgesOf(r) \ {j} : jat[k] \in {"idle", "done", "gone"}
    BY <1>2, <1>3, <2>1 DEF IInv, Met, Judging, JudgeFrame, r
  <2>3. Left(j) /\ Of(j)' = r /\ Of(j) = r
    BY <1>1, <1>2, <1>3 DEF r
  <2>4. CASE EmitJudgeStarted(j) \/ Replay(j) \/ Evaluate(j) \/ EmitScored(j) \/ LookUpScore(j) \/ JudgeLeaves(j)
    <3>1. UNCHANGED <<score, scores, judgeRuns, scoreReg>>
      BY <2>4 DEF EmitJudgeStarted, Replay, Evaluate, EmitScored, LookUpScore, JudgeLeaves, disk, rows, reg
    <3>2. Newest(r)'
      BY <1>2, <1>3, <3>1 DEF Newest
    <3>3. ASSUME NEW k \in JudgesOf(r) \ {j} PROVE Left(k)'
      BY <1>3, <1>4, <1>5, <3>1 DEF Left, Rowed
    <3>4. CASE EmitJudgeStarted(j) \/ Replay(j) \/ Evaluate(j) \/ JudgeLeaves(j)
      <4>1. jat'[j] \in {"rules", "metrics", "write", "gone"}
        BY <1>1, <3>4 DEF EmitJudgeStarted, Replay, Evaluate, JudgeLeaves, To
      <4>2. Left(j)'
        BY <4>1 DEF Left, Rowed
      <4> QED
        BY <1>2, <3>2, <3>3, <4>2 DEF r
    <3>5. CASE EmitScored(j)
      <4>1. jat[j] = "scored" /\ (jat'[j] = "gone" \/ (jat'[j] = "look" /\ Emitted(j, r, j)))
        BY <1>1, <3>5 DEF EmitScored, To, r
      <4>2. Emitted(j, r, j) => j \in lines'[r] \cap events'[r]
        BY JudgeEmits DEF IInv, r
      <4>3. Left(j)'
        BY <2>3, <3>1, <4>1, <4>2 DEF Left, Rowed
      <4> QED
        BY <1>2, <3>2, <3>3, <4>3 DEF r
    <3>6. CASE LookUpScore(j)
      <4>1. /\ jat[j] = "look" /\ jat'[j] = "persist" /\ seen'[j].was = scoreReg[r] /\ seen'[j].now = score[r]
        BY <1>1, <3>6 DEF LookUpScore, LookAt, To, r
      <4>2. Left(j)'
        BY <1>5, <2>3, <3>1, <4>1 DEF Left, Rowed
      <4> QED
        BY <1>2, <3>2, <3>3, <4>2 DEF r
    <3> QED
      BY <2>4, <3>4, <3>5, <3>6
  <2>5. CASE WriteScore(j)
    <3>1. /\ UNCHANGED <<scores, judgeRuns, scoreReg>> /\ jat[j] = "write"
          /\ (jat'[j] = "insert" /\ score'[r] = j) \/ (jat'[j] = "gone" /\ score'[r] = "torn")
      BY <1>1, <2>5 DEF WriteScore, To, rows, reg, r
    <3>2. j \notin Range(scores[r])
      BY <1>1, <3>1 DEF IInv, RowsAreOfJudges, Rowed
    <3>3. Newest(r)'
      BY <1>2, <3>1, <3>2 DEF Newest
    <3>4. ASSUME NEW k \in JudgesOf(r) \ {j} PROVE Left(k)'
      BY Kinds, <1>3, <1>4, <1>5, <2>2, <3>1 DEF Left, Rowed, Marks, JudgesOf
    <3>5. Left(j)'
      BY <2>3, <3>1 DEF Left, Rowed
    <3> QED
      BY <1>2, <3>3, <3>4, <3>5 DEF r
  <2>6. CASE InsertScore(j)
    <3>1. /\ UNCHANGED <<score, judgeRuns, scoreReg>> /\ jat[j] = "insert" /\ jat'[j] = "judgeRun"
          /\ scores'[r] = Append(scores[r], j)
      BY <1>1, <2>6 DEF InsertScore, To, disk, reg, r
    <3>2. Last(scores'[r]) = j /\ Range(scores'[r]) = Range(scores[r]) \cup {j}
      BY <1>1, <3>1, Appended
    <3>3. score'[r] = j
      BY <2>3, <3>1 DEF Left
    <3>4. Newest(r)'
      BY <3>2, <3>3 DEF Newest
    <3>5. ASSUME NEW k \in JudgesOf(r) \ {j} PROVE Left(k)'
      BY <1>3, <1>4, <1>5, <3>1, <3>2 DEF Left, Rowed
    <3>6. Left(j)'
      BY <2>3, <3>1, <3>2, <3>3 DEF Left, Rowed
    <3> QED
      BY <1>2, <3>4, <3>5, <3>6 DEF r
  <2>7. CASE InsertJudgeRun(j)
    <3>1. /\ UNCHANGED <<score, scores, scoreReg>> /\ jat[j] = "judgeRun" /\ jat'[j] = "scored"
          /\ judgeRuns'[r] = Append(judgeRuns[r], j)
      BY <1>1, <2>7 DEF InsertJudgeRun, To, disk, reg, r
    <3>2. Range(judgeRuns'[r]) = Range(judgeRuns[r]) \cup {j}
      BY <1>1, <3>1, Appended
    <3>3. Newest(r)'
      BY <1>2, <1>3, <3>1 DEF Newest
    <3>4. ASSUME NEW k \in JudgesOf(r) \ {j} PROVE Left(k)'
      BY <1>3, <1>4, <1>5, <3>1, <3>2 DEF Left, Rowed
    <3>5. Left(j)'
      BY <2>3, <3>1, <3>2 DEF Left, Rowed
    <3> QED
      BY <1>2, <3>3, <3>4, <3>5 DEF r
  <2>8. CASE PersistScore(j)
    <3>1. /\ UNCHANGED <<score, scores, judgeRuns>> /\ jat[j] = "persist" /\ jat'[j] = "done"
          /\ seen[j] # None /\ Register(j, r)
      BY <1>1, <2>8 DEF PersistScore, To, InOrder, disk, rows, r
    <3>2. score[r] = j /\ scoreReg'[r] # <<>> /\ Last(scoreReg'[r]) = j
      BY <1>1, <2>3, <3>1, RegistersLast DEF Left, IInv
    <3>3. Newest(r)'
      BY <1>2, <1>3, <3>1 DEF Newest
    <3>4. ASSUME NEW k \in JudgesOf(r) \ {j} PROVE Left(k)'
      BY <1>3, <1>4, <1>5, <2>2, <3>1, <3>2 DEF Left, Rowed
    <3>5. Left(j)'
      BY <1>5, <2>3, <3>1, <3>2 DEF Left, Rowed
    <3> QED
      BY <1>2, <3>3, <3>4, <3>5 DEF r
  <2> QED
    BY <1>2, <1>7, <2>4, <2>5, <2>6, <2>7, <2>8 DEF JudgeStep, r
<1>8. CASE Open(j)
  <2>1. jat'[j] \in {"start", "gone"} /\ UNCHANGED <<score, scores, judgeRuns, scoreReg, seen>>
    BY <1>1, <1>8 DEF Open, To, disk, rows, reg
  <2>2. Newest(r)'
    BY <1>2, <1>3, <2>1 DEF Newest
  <2>3. ASSUME NEW k \in JudgesOf(r) \ {j} PROVE Left(k)'
    BY <1>3, <1>4, <1>5, <2>1 DEF Left, Rowed
  <2>4. Left(j)'
    BY <2>1 DEF Left, Rowed
  <2> QED
    BY <2>2, <2>3, <2>4 DEF r
<1> QED
  BY <1>7, <1>8 DEF r

LEMMA JudgesRecord ==
  ASSUME IInv, Types', NEW j \in Judge, JudgeStep(j), JudgeFrame(j)
  PROVE  Recorded'
<1> SUFFICES ASSUME NEW q \in Run, Alone(q)' PROVE (Newest(q) /\ \A k \in JudgesOf(q) : Left(k))'
  BY DEF Recorded
<1>1. CASE q = Of(j)
  <2>1. Alone(Of(j))'
    BY <1>1 DEF Of
  <2>2. Newest(Of(j))' /\ \A k \in JudgesOf(Of(j)) : Left(k)'
    BY <2>1, LeftByItself
  <2> QED
    BY <1>1, <2>2 DEF JudgesOf, Of, Newest
<1>2. CASE q # Of(j)
  <2>1. /\ Same(q) /\ scores'[q] = scores[q] /\ judgeRuns'[q] = judgeRuns[q]
        /\ \A k \in Judge \ {j} : jat'[k] = jat[k] /\ seen'[k] = seen[k]
        /\ early \subseteq early' /\ crowded \subseteq crowded'
    BY <1>2 DEF JudgeFrame
  <2>2. Alone(q) /\ JudgesOf(q)' = JudgesOf(q)
    BY <2>1 DEF Alone, JudgesOf, Of
  <2>3. Newest(q) /\ \A k \in JudgesOf(q) : k \in Judge \ {j} /\ Of(k) = q /\ Left(k)
    BY <1>2, <2>2 DEF IInv, Recorded, JudgesOf
  <2>4. Newest(q)'
    BY <2>1, <2>2, <2>3 DEF Newest, Same
  <2>5. ASSUME NEW k \in JudgesOf(q) PROVE Left(k)'
    <3>1. Left(k) /\ Of(k) = q /\ Of(k)' = q /\ jat'[k] = jat[k] /\ seen'[k] = seen[k]
      BY <2>1, <2>3 DEF Of
    <3> QED
      BY <2>1, <3>1 DEF Left, Same
  <2> QED
    BY <2>2, <2>4, <2>5
<1> QED
  BY <1>1, <1>2

\* The step of one judge, and what another has read.
LEMMA OthersHaveRead ==
  ASSUME IInv, NEW j \in Judge, JudgeFrame(j), NEW k \in Judge \ {j}
  PROVE  HasRead(k)' /\ InOrder(k)'
<1>1. /\ jat'[k] = jat[k] /\ seen'[k] = seen[k] /\ saw'[k] = saw[k] /\ agreed'[k] = agreed[k] /\ pass'[k] = pass[k]
      /\ early' \subseteq early \cup {j} /\ early \subseteq early' /\ HasRead(k) /\ InOrder(k)
  BY DEF JudgeFrame, IInv
<1>2. /\ answer' = answer /\ calls' = calls /\ files' = files /\ row' = row /\ setup' = setup /\ at' = at
      /\ Of(k)' = Of(k)
  BY DEF JudgeFrame, running, Of
<1>3. "tool" \in lines'[Of(k)] <=> "tool" \in lines[Of(k)]
  BY Runs, Kinds DEF JudgeFrame, Events, Same
<1>4. Verified(Of(k))' = Verified(Of(k)) /\ (Earned(k) => Earned(k)')
  BY <1>2, <1>3, EarnedStays
<1> QED
  BY <1>1, <1>2, <1>4 DEF HasRead, InOrder

(***************************************************************************)
(* The invariant                                                           *)
(***************************************************************************)
LEMMA InitIInv == Init => IInv
<1> SUFFICES ASSUME Init PROVE IInv
  OBVIOUS
<1>1. Types
  <2>1. TypeOK
    BY RecordsAssumption DEF Init, TypeOK, Hash, Marks
  <2> QED
    BY <2>1 DEF Init, Types, Hash, Marks
<1>2. ASSUME NEW r \in Run PROVE RunInv(r)
  <2>1. /\ at[r] = "idle" /\ ~over[r] /\ calls[r] = None /\ files[r] = {} /\ row[r] = "none" /\ seen[r] = None
        /\ verdict[r] = "none" /\ ~err[r] /\ ~oops[r] /\ r \notin broken /\ lines[r] = {}
    BY DEF Init
  <2>2. OnItsPath(r)
    BY <2>1 DEF OnItsPath
  <2>3. Refused(r) /\ Looked(r)
    BY <2>1 DEF Refused, Looked
  <2>4. Backed(r)
    BY <2>1 DEF Backed, NoError
  <2>5. Noticed(r) /\ Ok(r)
    BY <2>1 DEF Noticed, Ok
  <2> QED
    BY <2>2, <2>3, <2>4, <2>5 DEF RunInv
<1>3. ASSUME NEW j \in Judge PROVE HasRead(j) /\ InOrder(j)
  BY DEF Init, HasRead, InOrder
<1>4. RowsAreOfJudges
  BY DEF Init, RowsAreOfJudges, Range
<1>5. Met
  BY DEF Init, Met, Judging
<1>6. Recorded
  BY Runs DEF Init, Recorded, Newest, Left, JudgesOf, Rowed
<1> QED
  BY <1>1, <1>2, <1>3, <1>4, <1>5, <1>6 DEF IInv

\* A step of a run.
LEMMA RunKeepsIInv == ASSUME IInv, NEW r \in Run, RunStep(r) PROVE IInv'
<1>1. RunInv(r) /\ Types
  BY DEF IInv
<1>2. Types' /\ RunInv(r)'
  BY <1>1, RunSteps
<1>3. RunFrame(r)
  BY <1>1, RunsAreApart
<1>4. ASSUME NEW q \in Run \ {r} PROVE RunInv(q)'
  BY <1>3, Elsewhere DEF IInv, RunFrame
<1>5. /\ \A j \in Judge : HasRead(j)' /\ InOrder(j)'
      /\ RowsAreOfJudges' /\ Met' /\ Recorded'
  BY <1>3, RunsLeaveJudges
<1> QED
  BY <1>2, <1>4, <1>5 DEF IInv

\* A step of a judge.
LEMMA JudgeKeepsIInv == ASSUME IInv, NEW j \in Judge, JudgeStep(j) PROVE IInv'
<1>1. Types' /\ JudgeFrame(j)
  BY JudgeSteps DEF IInv
<1>2. \A q \in Run : RunInv(q)'
  BY <1>1, RunsKeep DEF IInv
<1>3. \A k \in Judge : HasRead(k)' /\ InOrder(k)'
  BY <1>1, JudgeReads, OthersHaveRead
<1>4. RowsAreOfJudges' /\ Met' /\ Recorded'
  BY <1>1, RowsStayOfJudges, JudgesMeet, JudgesRecord
<1> QED
  BY <1>1, <1>2, <1>3, <1>4 DEF IInv

\* A step that changes nothing.
LEMMA StutterKeepsIInv == ASSUME IInv, UNCHANGED vars PROVE IInv'
<1>1. UNCHANGED <<running, judging, ledger, disk, rows, reg, faults>>
  BY DEF vars
<1> USE <1>1 DEF running, judging, ledger, disk, rows, reg
<1>2. Types'
  BY DEF IInv, Types, TypeOK
<1>3. \A r \in Run : RunInv(r)'
  BY Elsewhere DEF IInv, Same
<1>4. ASSUME NEW j \in Judge PROVE HasRead(j)' /\ InOrder(j)'
  <2>1. Verified(Of(j))' = Verified(Of(j)) /\ (Earned(j) => Earned(j)')
    BY EarnedStays
  <2> QED
    BY <2>1 DEF IInv, HasRead, InOrder, Of
<1>5. RowsAreOfJudges' /\ Met'
  BY DEF IInv, RowsAreOfJudges, Met, Of, Judging
<1>6. Recorded'
  BY DEF IInv, Recorded, Newest, Left, JudgesOf, Alone, Of
<1> QED
  BY <1>2, <1>3, <1>4, <1>5, <1>6 DEF IInv

\* The invariant holds whatever runs and judges do, and whichever of their writes fail.
THEOREM Invariance == Spec => []IInv
<1>1. IInv /\ [Next]_vars => IInv'
  BY RunKeepsIInv, JudgeKeepsIInv, StutterKeepsIInv DEF Next, Done
<1> QED
  BY <1>1, InitIInv, PTL DEF Spec

\* TypeOK: places, verdicts, rows, files and the contents of score.json.
THEOREM TypeCorrect == Spec => []TypeOK
<1>1. IInv => TypeOK
  BY DEF IInv, Types
<1> QED
  BY <1>1, Invariance, PTL

\* A run that returns without an error has recorded one call three times alike, with its
\* files, all registered; only a judge's broken write makes the trace unreadable afterwards.
THEOREM OkRunsAreRecorded == Spec => []OkRunsReplay
<1>1. ASSUME IInv PROVE OkRunsReplay
  <2> SUFFICES ASSUME NEW r \in Run, verdict[r] = "ok"
      PROVE  /\ row[r] = "ok" /\ calls[r] # None /\ calls[r].ok /\ Verified(r)
             /\ {"meta", "skill", "req", "res", "receipt"} \cup Streams(r) \subseteq files[r] \cap registry[r]
             /\ ~Readable(r) => \E j \in Judge \cap broken : Of(j) = r
    BY DEF OkRunsReplay
  <2>1. Ok(r) /\ Noticed(r)
    BY <1>1 DEF IInv, RunInv
  <2>2. row[r] = "ok" /\ calls[r] # None /\ calls[r].ok /\ answer[r] = calls[r] /\ "tool" \in lines[r]
    BY <2>1 DEF Ok, Called
  <2>3. {"meta", "skill", "req", "res", "receipt"} \cup Streams(r) \subseteq files[r] \cap registry[r]
    BY <2>1 DEF Ok
  <2>4. Verified(r)
    BY <2>2, <2>3 DEF Verified, DbRows, FileRows, TraceRows
  <2>5. ~Readable(r) => \E j \in Judge \cap broken : Of(j) = r
    BY <2>1, <2>3 DEF Readable, Noticed
  <2> QED
    BY <2>2, <2>3, <2>4, <2>5
<1> QED
  BY <1>1, Invariance, PTL

\* A run over its budget calls no tool, and the command that says so has recorded the refusal.
THEOREM RefusalsAreRecorded == Spec => []RefusalIsRecorded
<1>1. ASSUME IInv PROVE RefusalIsRecorded
  <2> SUFFICES ASSUME NEW r \in Run
      PROVE  /\ over[r] \/ setup[r].budget = 0 => calls[r] = None /\ files[r] \cap {"req", "res", "stream"} = {}
             /\ verdict[r] = "budget" =>
                  /\ row[r] = "failed" /\ {"run.started", "exceeded", "finished"} \subseteq lines[r] \cap events[r]
                  /\ {"trace", "meta", "skill"} \subseteq registry[r] /\ scoreReg[r] # <<>>
                  /\ score[r] \in {"blocked", "torn"} \cup Judge
    BY DEF RefusalIsRecorded
  <2> QED
    BY <1>1 DEF IInv, RunInv, OnItsPath, Refused, Past
<1> QED
  BY <1>1, Invariance, PTL

\* A passing score of a run that was over when it was judged has earned it.
THEOREM PassesAreEarned == Spec => []PassIsEarned
<1>1. ASSUME IInv PROVE PassIsEarned
  <2> SUFFICES ASSUME NEW r \in Run, NEW j \in Range(scores[r]) \ early, pass[j]
      PROVE  /\ Verified(r) /\ ~setup[r].schema
             /\ RubricOf[j].must["format"] => row[r] = "ok" /\ calls[r] # None
             /\ calls[r] = None => setup[r].expect = "stream" /\ "stream" \in files[r]
    BY DEF PassIsEarned
  <2>1. j \in Judge /\ Of(j) = r
    BY <1>1 DEF IInv, RowsAreOfJudges
  <2> QED
    BY <1>1, <2>1 DEF IInv, HasRead, Earned
<1> QED
  BY <1>1, Invariance, PTL

\* Judges of a run that was over, one at a time, leave their rows, their events and the hash
\* of the score.json that is there.
THEOREM ScoresAreRecorded == Spec => []ScoreIsRecorded
<1>1. ASSUME IInv PROVE ScoreIsRecorded
  <2> SUFFICES ASSUME NEW r \in Run, JudgesOf(r) \cap (early \cup crowded) = {}
      PROVE  /\ \A j \in JudgesOf(r) : jat[j] = "done" =>
                  /\ j \in Range(scores[r]) \cap Range(judgeRuns[r]) /\ j \in lines[r] \cap events[r]
                  /\ score[r] = j => Last(scoreReg[r]) = j
             /\ scores[r] # <<>> =>
                  \/ score[r] = Last(scores[r])
                  \/ score[r] \in (JudgesOf(r) \ Range(scores[r])) \cup {"torn"}
    BY DEF ScoreIsRecorded, JudgesOf
  <2>1. Newest(r) /\ \A j \in JudgesOf(r) : Left(j) /\ Of(j) = r
    BY <1>1 DEF IInv, Recorded, Alone, JudgesOf
  <2> QED
    BY <2>1 DEF Newest, Left, Rowed
<1> QED
  BY <1>1, Invariance, PTL

(***************************************************************************)
(* Part II: SkillBranches                                                  *)
(***************************************************************************)
\* A file that is missing from the working tree is missing from the index and from HEAD.
NothingIsDeleted == \A p \in File : work[p] = Absent => index[p] = Absent /\ Tree[p] = Absent

\* A refine under way: only SKILL.md is not as it was, and it is as its step has it.
RefineInv ==
  cmd # Nothing /\ cmd \in Refining =>
    LET old == cmd.before[SkillMd]
        new == Refined(old, cmd.run)
    IN  /\ cmd.base \in DOMAIN commits /\ head.on = BranchName(cmd.run)
        /\ \A i \in DOMAIN refines : refines[i].cmd.run # cmd.run
        /\ old = TreeAt(cmd.base)[SkillMd] /\ old = cmd.was[SkillMd] /\ new # old
        /\ \A p \in File \ {SkillMd} : index[p] = cmd.before[p] /\ work[p] = cmd.was[p]
        /\ work[SkillMd] = IF cmd.step = "write" THEN old ELSE new
        /\ index[SkillMd] = IF cmd.step \in {"commit", "row"} THEN new ELSE old
        /\ cmd.step # "row" => head.commit = cmd.base
        /\ cmd.step = "row" => commits[head.commit] = [parent |-> cmd.base, tree |-> index]
        /\ cmd.step \notin {"write", "check"} =>
             /\ ToolsYaml \in cmd.patch => cmd.tools
             /\ cmd.was = cmd.before => cmd.patch = {SkillMd}

\* A suggest under way: the index has what was staged and the scaffold, and nothing else.
SuggestInv ==
  cmd # Nothing /\ cmd \in Suggesting =>
        /\ cmd.base \in DOMAIN commits
        /\ \A k \in DOMAIN cmd.left : TreeAt(cmd.base)[Proposed(cmd.left[k])] = Absent
        /\ cmd.step # "row" => \A p \in File : index[p] # Tree[p] => p \in Staged(cmd) \/ (cmd.step = "commit" /\ p = Dir)
        /\ cmd.step \in {"branch", "write", "add", "commit"} => head.commit = cmd.base
        /\ cmd.step \in {"branch", "write"} => Clean(Dir)
        /\ cmd.step \in {"write", "add", "commit", "row"} =>
             head.on = Dir /\ \A i \in DOMAIN suggests : suggests[i].motif # Head(cmd.left)
        /\ cmd.step = "add" => index[Dir] = Tree[Dir] /\ work[Dir] = Scaffold
        /\ cmd.step = "commit" => index[Dir] = Scaffold
        /\ cmd.step = "row" =>
             /\ commits[head.commit].parent = cmd.base /\ index = Tree /\ Tree[Dir] = Scaffold
             /\ Altered(head.commit) \subseteq {Dir} \cup Staged(cmd)

\* What a row needs of the history to be true.
RefineRow(entry, cs, bs) ==
  LET c   == entry.cmd
      old == cs[c.base].tree
      new == cs[entry.commit].tree
  IN  /\ entry.branch = BranchName(c.run) /\ entry.branch \in DOMAIN bs
      /\ entry.commit \in DOMAIN cs /\ c.base \in DOMAIN cs
      /\ entry.commit \in Ancestors(cs, bs[entry.branch]) /\ cs[entry.commit].parent = c.base
      /\ new[SkillMd] = Refined(old[SkillMd], c.run) /\ new[SkillMd] # old[SkillMd]
      /\ c.before[SkillMd] = old[SkillMd]
      /\ \A p \in File \ {SkillMd} : new[p] = c.before[p]
      /\ ToolsYaml \in c.patch => c.tools
      /\ c.was = c.before => c.patch = {SkillMd}
RefineRows ==
  \A i \in DOMAIN refines :
    /\ RefineRow(refines[i], commits, branches)
    /\ \A j \in DOMAIN refines : refines[j].cmd.run = refines[i].cmd.run => i = j

SuggestRow(entry, cs, bs) ==
  LET c   == entry.cmd
      dir == Proposed(entry.motif)
      old == cs[c.base].tree
      new == cs[entry.commit].tree
  IN  /\ entry.branch = dir /\ entry.branch \in DOMAIN bs
      /\ entry.commit \in DOMAIN cs /\ c.base \in DOMAIN cs
      /\ entry.commit \in Ancestors(cs, bs[entry.branch]) /\ cs[entry.commit].parent = c.base
      /\ new[dir] = Scaffold /\ old[dir] = Absent
      /\ \A p \in File : new[p] # old[p] => p = dir \/ c.before[p] # old[p]
SuggestRows ==
  \A i \in DOMAIN suggests :
    /\ SuggestRow(suggests[i], commits, branches)
    /\ \A j \in DOMAIN suggests : suggests[j].motif = suggests[i].motif => i = j

BranchesInv ==
  /\ BranchesTypeOK /\ NothingIsDeleted /\ NoEditIsLost
  /\ RefineInv /\ SuggestInv /\ RefineRows /\ SuggestRows

(***************************************************************************)
(* BranchNames                                                                   *)
(***************************************************************************)
LEMMA ProposedNames ==
  ASSUME NEW k \in Motifs
  PROVE  /\ Len(Proposed(k)) = 5 /\ Proposed(k)[1] = "suggest"
         /\ k = <<Proposed(k)[2], Proposed(k)[3], Proposed(k)[4], Proposed(k)[5]>>
<1>1. PICK f \in Range(Evidence) : k = <<f.calls, f.files, f.prompt, f.base>>
  BY DEF Motifs, Key
<1> DEFINE S == {"suggest", f.calls, f.files, f.prompt, f.base}
<1>2. k \in Seq(S) /\ Len(k) = 4
  BY <1>1
<1>3. <<"suggest">> \in Seq(S) /\ Len(<<"suggest">>) = 1 /\ <<"suggest">>[1] = "suggest"
  OBVIOUS
<1> HIDE DEF S
<1>4. Len(Proposed(k)) = 5 /\ \A i \in 1 .. 5 : Proposed(k)[i] = IF i <= 1 THEN <<"suggest">>[i] ELSE k[i - 1]
  <2> DEFINE d == <<"suggest">>
  <2>1. d \in Seq(S) /\ Len(d) = 1
    BY <1>3
  <2> HIDE DEF d
  <2>2. Len(d \o k) = 5 /\ \A i \in 1 .. 5 : (d \o k)[i] = IF i <= 1 THEN d[i] ELSE k[i - 1]
    <3>1. Len(d \o k) = Len(d) + Len(k)
      BY <1>2, <2>1, ConcatProperties
    <3>2. \A i \in 1 .. Len(d) + Len(k) : (d \o k)[i] = IF i <= Len(d) THEN d[i] ELSE k[i - Len(d)]
      BY <1>2, <2>1, ConcatProperties
    <3> QED
      BY <1>2, <2>1, <3>1, <3>2
  <2> QED
    BY <2>2 DEF Proposed, d
<1>5. Proposed(k)[2] = k[1] /\ Proposed(k)[3] = k[2] /\ Proposed(k)[4] = k[3] /\ Proposed(k)[5] = k[4]
  BY <1>4
<1> QED
  BY <1>1, <1>3, <1>4, <1>5

\* Files and branches of different commands, runs and motifs are different.
LEMMA FilesDiffer ==
  /\ SkillMd \in File /\ ToolsYaml \in File /\ SkillMd \in SkillDir /\ ToolsYaml \in SkillDir
  /\ SkillDir \subseteq File /\ SkillMd # ToolsYaml
  /\ \A k \in Motifs : Proposed(k) \in File /\ Proposed(k) \in BranchNames /\ Proposed(k) # Main /\ Proposed(k) \notin SkillDir
  /\ \A r \in Lesson : BranchName(r) \in BranchNames /\ BranchName(r) # Main
  /\ \A r \in Lesson, k \in Motifs : BranchName(r) # Proposed(k)
  /\ \A r, q \in Lesson : BranchName(r) = BranchName(q) => r = q
  /\ \A j, k \in Motifs : Proposed(j) = Proposed(k) => j = k
  /\ Main \in BranchNames /\ Nothing \notin BranchNames
<1>1. \A k \in Motifs : Len(Proposed(k)) = 5
  BY ProposedNames
<1>8. \A j, k \in Motifs : Proposed(j) = Proposed(k) => j = k
  BY ProposedNames
<1>2. SkillMd \in File /\ ToolsYaml \in File /\ SkillMd \in SkillDir /\ ToolsYaml \in SkillDir /\ SkillDir \subseteq File /\ SkillMd # ToolsYaml
  BY DEF SkillMd, ToolsYaml, SkillDir, File
<1>3. \A k \in Motifs : Proposed(k) \in File /\ Proposed(k) \in BranchNames
  BY DEF File, BranchNames
<1>4. \A k \in Motifs : Proposed(k) # Main /\ Proposed(k) \notin SkillDir
  <2>1. Len(Main) = 1 /\ \A p \in SkillDir : Len(p) = 1
    BY DEF Main, SkillDir, SkillMd, ToolsYaml, Rubric
  <2> QED
    BY <1>1, <2>1
<1>5. \A r \in Lesson, k \in Motifs : BranchName(r) # Proposed(k)
  <2>1. \A r \in Lesson : Len(BranchName(r)) = 2
    BY DEF BranchName
  <2> QED
    BY <1>1, <2>1
<1>6. \A r \in Lesson : BranchName(r) \in BranchNames /\ BranchName(r) # Main
  BY DEF BranchName, BranchNames, Main
<1>7. \A r, q \in Lesson : BranchName(r) = BranchName(q) => r = q
  BY DEF BranchName
<1> QED
  BY <1>2, <1>3, <1>4, <1>5, <1>6, <1>7, <1>8, NothingAssumption DEF BranchNames

(***************************************************************************)
(* History                                                                 *)
(***************************************************************************)
\* A commit is its own ancestor.
LEMMA OwnAncestor ==
  ASSUME NEW history, NEW n \in DOMAIN history
  PROVE  n \in Ancestors(history, n)
BY DEF Ancestors

\* What a commit descends from it still descends from after the next commit, and so does that one
\* if it is its child.
LEMMA AncestorsStay ==
  ASSUME NEW T, NEW history \in Seq([parent : Nat, tree : T]), NEW c \in [parent : Nat, tree : T],
         \A n \in DOMAIN history : history[n].parent \in {0} \cup DOMAIN history,
         NEW n \in DOMAIN history
  PROVE  /\ Ancestors(history, n) \subseteq Ancestors(Append(history, c), n)
         /\ c.parent = n => Ancestors(history, n) \subseteq Ancestors(Append(history, c), Len(history) + 1)
<1> DEFINE after == Append(history, c)
<1>1. DOMAIN history = 1 .. Len(history) /\ DOMAIN after = 1 .. Len(history) + 1 /\ Len(history) \in Nat
  OBVIOUS
<1>2. \A k \in DOMAIN history : after[k] = history[k]
  OBVIOUS
<1>3. after[Len(history) + 1] = c
  OBVIOUS
<1> HIDE DEF after
<1>4. ASSUME NEW a \in Ancestors(history, n), NEW S \in SUBSET (DOMAIN after), n \in S,
             \A k \in S : after[k].parent \in S \cup {0}
      PROVE  a \in S
  <2> DEFINE R == S \cap DOMAIN history
  <2>1. R \in SUBSET (DOMAIN history) /\ n \in R
    BY <1>4
  <2>2. \A k \in R : history[k].parent \in R \cup {0}
    BY <1>2, <1>4
  <2> QED
    BY <2>1, <2>2 DEF Ancestors
<1>5. Ancestors(history, n) \subseteq Ancestors(after, n)
  <2> SUFFICES ASSUME NEW a \in Ancestors(history, n) PROVE a \in Ancestors(after, n)
    OBVIOUS
  <2>1. a \in DOMAIN after
    BY <1>1 DEF Ancestors
  <2> QED
    BY <1>4, <2>1 DEF Ancestors
<1>6. ASSUME c.parent = n PROVE Ancestors(history, n) \subseteq Ancestors(after, Len(history) + 1)
  <2>1. ASSUME NEW a \in Ancestors(history, n), NEW S \in SUBSET (DOMAIN after), Len(history) + 1 \in S,
               \A k \in S : after[k].parent \in S \cup {0}
        PROVE  a \in S
    <3>1. n \in S \cup {0}
      BY <1>3, <1>6, <2>1
    <3>2. n \in S
      BY <1>1, <3>1
    <3> QED
      BY <1>4, <2>1, <3>2
  <2> SUFFICES ASSUME NEW a \in Ancestors(history, n) PROVE a \in Ancestors(after, Len(history) + 1)
    OBVIOUS
  <2>2. a \in DOMAIN after
    BY <1>1 DEF Ancestors
  <2> QED
    BY <2>1, <2>2 DEF Ancestors
<1> QED
  BY <1>5, <1>6 DEF after

\* Commits stay, and branches move along them.
HistoryGrows ==
  /\ \A n \in DOMAIN commits : n \in DOMAIN commits' /\ commits'[n] = commits[n]
  /\ \A b \in DOMAIN branches :
       b \in DOMAIN branches' /\ Ancestors(commits, branches[b]) \subseteq Ancestors(commits', branches'[b])

\* What the repository keeps from a command of git: its types, and that nothing is deleted.
Kept == HistoryGrows /\ RepositoryOK' /\ NothingIsDeleted'

\* Every commit has a tree of all files.
LEMMA TreesOfCommits ==
  ASSUME RepositoryOK
  PROVE  \A n \in DOMAIN commits : commits[n] \in [parent : Nat, tree : Trees] /\ commits[n].tree \in Trees
<1> DEFINE C == [parent : Nat, tree : Trees]
<1>1. commits \in Seq(C)
  BY DEF RepositoryOK
<1>2. \A c \in C : c.tree \in Trees
  OBVIOUS
<1> HIDE DEF C
<1>3. \A n \in DOMAIN commits : commits[n] \in C
  BY <1>1
<1> QED
  BY <1>2, <1>3 DEF C

\* git commit: HEAD and its branch go on to a commit that is new, whose parent is what HEAD was.
LEMMA CommitKeeps ==
  ASSUME RepositoryOK, NothingIsDeleted, Commit, UNCHANGED <<index, work>>
  PROVE  /\ Kept
         /\ head'.commit \notin DOMAIN commits /\ head'.on = head.on
         /\ head'.commit \in DOMAIN commits'
         /\ commits'[head'.commit] = [parent |-> head.commit, tree |-> index]
<1> DEFINE c == [parent |-> head.commit, tree |-> index]
           n == Len(commits) + 1
<1>1. c \in [parent : Nat, tree : Trees] /\ c.parent = head.commit /\ Len(commits) \in Nat /\ DOMAIN commits = 1 .. Len(commits)
  BY DEF RepositoryOK
<1>2. commits' = Append(commits, c) /\ head' = [head EXCEPT !.commit = n]
  BY DEF Commit
<1> HIDE DEF c
<1>3. /\ commits' \in Seq([parent : Nat, tree : Trees]) /\ DOMAIN commits' = 1 .. n
      /\ \A k \in DOMAIN commits : commits'[k] = commits[k]
      /\ commits'[n] = c
  BY <1>1, <1>2 DEF RepositoryOK
<1>4. head'.on = head.on /\ head'.commit = n /\ head.on \in DOMAIN branches \cup {Nothing} /\ head.commit \in DOMAIN commits
  BY <1>2 DEF RepositoryOK
<1>5. DOMAIN branches' = DOMAIN branches /\ \A b \in DOMAIN branches : branches'[b] = IF b = head.on THEN n ELSE branches[b]
  <2>1. CASE head.on = Nothing
    BY <2>1, NothingAssumption DEF Commit, RepositoryOK
  <2>2. CASE head.on # Nothing
    BY <2>2 DEF Commit, RepositoryOK
  <2> QED
    BY <2>1, <2>2
<1>6. \A m \in DOMAIN commits :
        /\ Ancestors(commits, m) \subseteq Ancestors(commits', m)
        /\ head.commit = m => Ancestors(commits, m) \subseteq Ancestors(commits', n)
  BY <1>1, <1>2, AncestorsStay DEF RepositoryOK
<1>7. HistoryGrows
  <2>1. \A b \in DOMAIN branches : branches[b] \in DOMAIN commits /\ (b = head.on => branches[b] = head.commit)
    BY NothingAssumption DEF RepositoryOK
  <2> QED
    BY <1>1, <1>3, <1>5, <1>6, <2>1 DEF HistoryGrows
<1>8. RepositoryOK'
  <2>1. \A k \in DOMAIN commits' : commits'[k].parent \in {0} \cup DOMAIN commits'
    <3>1. \A k \in DOMAIN commits : commits[k].parent \in {0} \cup 1 .. n
      BY <1>1 DEF RepositoryOK
    <3>2. c.parent \in 1 .. n
      BY <1>1, <1>4
    <3> QED
      BY <1>1, <1>3, <3>1, <3>2
  <2>2. head' \in [on : DOMAIN branches' \cup {Nothing}, commit : DOMAIN commits']
    <3>1. head' = [on |-> head.on, commit |-> n]
      BY <1>2 DEF RepositoryOK
    <3>2. n \in 1 .. n
      BY <1>1
    <3> QED
      BY <1>3, <1>4, <1>5, <3>1, <3>2
  <2>3. branches' \in [DOMAIN branches' -> DOMAIN commits']
    <3>1. \A b \in DOMAIN branches : branches'[b] \in DOMAIN commits'
      <4>1. \A b \in DOMAIN branches : branches[b] \in 1 .. n /\ n \in 1 .. n
        BY <1>1 DEF RepositoryOK
      <4> QED
        BY <1>3, <1>5, <4>1
    <3>2. branches' = [b \in DOMAIN branches' |-> branches'[b]]
      BY DEF Commit, RepositoryOK
    <3> QED
      BY <1>5, <3>1, <3>2
  <2> QED
    BY <1>3, <1>4, <1>5, <2>1, <2>2, <2>3 DEF RepositoryOK
<1>9. NothingIsDeleted'
  BY <1>1, <1>3, <1>4 DEF NothingIsDeleted, Tree, TreeAt, c
<1> QED
  BY <1>1, <1>3, <1>4, <1>7, <1>8, <1>9 DEF Kept, c

\* git checkout -b: a new branch, at HEAD.
LEMMA CreateBranchKeeps ==
  ASSUME RepositoryOK, NothingIsDeleted, NEW b \in BranchNames, CreateBranch(b), UNCHANGED <<commits, index, work>>
  PROVE  Kept /\ head'.commit = head.commit /\ head'.on = b
<1>1. head'.commit = head.commit /\ head'.on = b /\ head' \in [on : DOMAIN branches' \cup {Nothing}, commit : DOMAIN commits']
  BY DEF CreateBranch, RepositoryOK
<1>2. /\ DOMAIN branches' = DOMAIN branches \cup {b} /\ branches'[b] = head.commit
      /\ \A x \in DOMAIN branches : branches'[x] = branches[x]
      /\ branches' \in [DOMAIN branches' -> DOMAIN commits']
  BY DEF CreateBranch, RepositoryOK
<1>3. HistoryGrows
  BY <1>2 DEF HistoryGrows
<1>4. RepositoryOK'
  BY <1>1, <1>2 DEF RepositoryOK
<1>5. NothingIsDeleted'
  BY <1>1 DEF NothingIsDeleted, Tree, TreeAt
<1> QED
  BY <1>1, <1>3, <1>4, <1>5 DEF Kept

\* git checkout: what it replaces is what the two trees tell apart, and that was committed.
LEMMA SwitchKeeps ==
  ASSUME RepositoryOK, NothingIsDeleted, NEW n \in DOMAIN commits, NEW b \in DOMAIN branches \cup {Nothing},
         b # Nothing => branches[b] = n, Switch(b, n), UNCHANGED <<commits, branches>>
  PROVE  /\ Kept /\ head'.commit = n /\ head'.on = b
         /\ \A p \in File :
              /\ work'[p] = IF TreeAt(n)[p] = Tree[p] THEN work[p] ELSE TreeAt(n)[p]
              /\ index'[p] = IF TreeAt(n)[p] = Tree[p] THEN index[p] ELSE TreeAt(n)[p]
              /\ TreeAt(n)[p] = Tree[p] \/ (work[p] = Tree[p] /\ index[p] = Tree[p])
<1>1. head' = [on |-> b, commit |-> n]
  BY DEF Switch
<1>2. \A p \in File :
        /\ work'[p] = IF TreeAt(n)[p] = Tree[p] THEN work[p] ELSE TreeAt(n)[p]
        /\ index'[p] = IF TreeAt(n)[p] = Tree[p] THEN index[p] ELSE TreeAt(n)[p]
  BY DEF Switch, Switched
<1>3. \A p \in File : TreeAt(n)[p] = Tree[p] \/ (work[p] = Tree[p] /\ index[p] = Tree[p])
  BY DEF Switch, CanSwitch, Clean
<1>4. TreeAt(n) \in Trees
  BY TreesOfCommits DEF TreeAt
<1>5. work' \in Trees /\ index' \in Trees
  BY <1>4 DEF Switch, Switched, RepositoryOK, Trees
<1>6. HistoryGrows
  BY DEF HistoryGrows
<1>7. RepositoryOK'
  BY <1>1, <1>5 DEF RepositoryOK
<1>8. NothingIsDeleted'
  <2>1. Tree' = TreeAt(n)
    BY <1>1 DEF Tree, TreeAt
  <2> QED
    BY <1>2, <2>1 DEF NothingIsDeleted
<1> QED
  BY <1>1, <1>2, <1>3, <1>6, <1>7, <1>8 DEF Kept

\* Steps that leave the history alone, and write no file but with one that is there.
LEMMA WorkKeeps ==
  ASSUME RepositoryOK, NothingIsDeleted, UNCHANGED <<commits, branches, head>>,
         work' \in Trees, index' \in Trees,
         \A p \in File : work'[p] = Absent => work[p] = Absent,
         \A p \in File : index'[p] = index[p] \/ index'[p] = work'[p] \/ index'[p] = Tree[p]
  PROVE  Kept
<1>1. HistoryGrows
  BY DEF HistoryGrows
<1>2. RepositoryOK'
  BY DEF RepositoryOK
<1>3. NothingIsDeleted'
  BY DEF NothingIsDeleted, Tree, TreeAt
<1> QED
  BY <1>1, <1>2, <1>3 DEF Kept

\* An edit is held on to by whatever replaces nothing but what is committed.
LEMMA EditsStay ==
  ASSUME BranchesInv, Kept, kept' = kept,
         \A p \in File : work'[p] = work[p] \/ work[p] = Tree[p],
         \A p \in File : index'[p] = index[p] \/ index[p] = Tree[p]
  PROVE  NoEditIsLost'
<1>1. \A n \in DOMAIN commits, p \in File : Edits(TreeAt(n)[p]) \subseteq Committed'
  BY DEF Kept, HistoryGrows, Committed, Texts, TreeAt
<1>2. \A p \in File : Edits(Tree[p]) \subseteq Committed'
  BY <1>1 DEF BranchesInv, BranchesTypeOK, RepositoryOK, Tree
<1>3. Committed \subseteq Committed'
  BY <1>1 DEF Committed, Texts
<1>4. Texts(work) \subseteq Texts(work)' \cup Committed'
  BY <1>2 DEF Texts
<1>5. Texts(index) \subseteq Texts(index)' \cup Committed'
  BY <1>2 DEF Texts
<1> QED
  BY <1>3, <1>4, <1>5 DEF BranchesInv, NoEditIsLost

\* What is true of a row stays true.
LEMMA RowsStay ==
  ASSUME HistoryGrows, NEW entry
  PROVE  /\ RefineRow(entry, commits, branches) => RefineRow(entry, commits', branches')
         /\ SuggestRow(entry, commits, branches) => SuggestRow(entry, commits', branches')
<1>1. ASSUME RefineRow(entry, commits, branches) PROVE RefineRow(entry, commits', branches')
  BY <1>1 DEF RefineRow, HistoryGrows
<1>2. ASSUME SuggestRow(entry, commits, branches) PROVE SuggestRow(entry, commits', branches')
  BY <1>2 DEF SuggestRow, HistoryGrows
<1> QED
  BY <1>1, <1>2

\* A step that inserts no row leaves all of them true.
LEMMA RowlessStep ==
  ASSUME BranchesInv, HistoryGrows, UNCHANGED <<refines, suggests>>
  PROVE  RefineRows' /\ SuggestRows'
BY RowsStay DEF BranchesInv, RefineRows, SuggestRows

(***************************************************************************)
(* The operator                                                            *)
(***************************************************************************)
LEMMA OperatorKeeps ==
  ASSUME BranchesInv, Idle, Kept, edits' \in 0 .. MaxEdits, kept' \subseteq 1 .. edits', NoEditIsLost'
  PROVE  BranchesInv'
<1>1. RefineRows' /\ SuggestRows'
  BY RowlessStep DEF Idle, Kept
<1>2. RefineInv' /\ SuggestInv'
  BY DEF Idle, RefineInv, SuggestInv
<1>3. CommandsOK' /\ breaks' \in 0 .. MaxBreaks
  BY DEF Idle, CommandsOK, BranchesInv, BranchesTypeOK
<1> QED
  BY <1>1, <1>2, <1>3 DEF BranchesInv, BranchesTypeOK, Kept

\* What the operator undoes himself is not lost, by the definition of what is kept.
LEMMA Remembers ==
  ASSUME NEW es \in SUBSET (1 .. edits'), Remember(work', index', es), commits' = commits
  PROVE  kept' \subseteq 1 .. edits' /\ NoEditIsLost'
<1>1. Committed' = Committed
  BY DEF Committed, TreeAt
<1> QED
  BY <1>1 DEF Remember, NoEditIsLost

LEMMA EditStep ==
  ASSUME BranchesInv, NEW p \in File, Edit(p)
  PROVE  BranchesInv'
<1>1. edits' = edits + 1 /\ edits' \in 1 .. MaxEdits /\ kept \cup {edits'} \in SUBSET (1 .. edits')
  BY BranchesAssumption DEF BranchesInv, BranchesTypeOK, Edit
<1>2. work[p] \in Blob /\ work \in [File -> Blob]
  BY DEF BranchesInv, BranchesTypeOK, RepositoryOK, Trees
<1>3. PICK f \in Blob : work' = [work EXCEPT ![p] = f] /\ f # Absent
  <2>1. CASE work' = [work EXCEPT ![p].text = edits']
    <3>1. [work[p] EXCEPT !.text = edits'] \in Blob /\ [work[p] EXCEPT !.text = edits'] # Absent
      BY <1>1, <1>2 DEF Blob, Absent, Text
    <3> QED
      BY <2>1, <3>1
  <2>2. CASE work[p].block # Nothing /\ work' = [work EXCEPT ![p].tail = edits']
    <3>1. [work[p] EXCEPT !.tail = edits'] \in Blob /\ [work[p] EXCEPT !.tail = edits'] # Absent
      BY <1>1, <1>2, <2>2 DEF Blob, Absent, Text
    <3> QED
      BY <2>2, <3>1
  <2> QED
    BY <2>1, <2>2 DEF Edit
<1>4. Kept
  <2>1. work' \in Trees /\ \A q \in File : work'[q] = Absent => work[q] = Absent
    BY <1>2, <1>3 DEF Trees
  <2>2. UNCHANGED <<commits, branches, head, index>>
    BY DEF Edit, git
  <2> QED
    BY <2>1, <2>2, WorkKeeps DEF BranchesInv, BranchesTypeOK, RepositoryOK
<1>5. kept' \subseteq 1 .. edits' /\ NoEditIsLost'
  BY <1>1, Remembers DEF Edit, git
<1> QED
  BY <1>1, <1>4, <1>5, OperatorKeeps DEF Edit

LEMMA StageStep ==
  ASSUME BranchesInv, NEW p \in File, Stage(p)
  PROVE  BranchesInv'
<1>1. edits' = edits /\ kept \in SUBSET (1 .. edits') /\ edits \in 0 .. MaxEdits
  BY DEF BranchesInv, BranchesTypeOK, Stage
<1>2. index' \in Trees /\ \A q \in File : index'[q] = index[q] \/ index'[q] = work[q]
  BY DEF Stage, Add, BranchesInv, BranchesTypeOK, RepositoryOK, Trees
<1>3. Kept
  BY <1>2, WorkKeeps DEF Stage, BranchesInv, BranchesTypeOK, RepositoryOK
<1>4. kept' \subseteq 1 .. edits' /\ NoEditIsLost'
  <2>1. Remember(work', index', kept)
    BY DEF Stage
  <2> QED
    BY <1>1, <2>1, Remembers DEF Stage
<1> QED
  BY <1>1, <1>3, <1>4, OperatorKeeps DEF Stage

LEMMA CommitOwnStep ==
  ASSUME BranchesInv, CommitOwn
  PROVE  BranchesInv'
<1>1. Kept
  BY CommitKeeps DEF CommitOwn, BranchesInv, BranchesTypeOK
<1>2. NoEditIsLost'
  BY <1>1, EditsStay DEF CommitOwn
<1> QED
  BY <1>1, <1>2, OperatorKeeps DEF CommitOwn, BranchesInv, BranchesTypeOK

LEMMA ReturnStep ==
  ASSUME BranchesInv, Return
  PROVE  BranchesInv'
<1>1. Main \in DOMAIN branches /\ branches[Main] \in DOMAIN commits
  BY DEF BranchesInv, BranchesTypeOK, RepositoryOK
<1>2. /\ Kept
      /\ \A p \in File : work'[p] = work[p] \/ work[p] = Tree[p]
      /\ \A p \in File : index'[p] = index[p] \/ index[p] = Tree[p]
  BY <1>1, SwitchKeeps DEF Return, BranchesInv, BranchesTypeOK
<1>3. NoEditIsLost'
  BY <1>2, EditsStay DEF Return
<1> QED
  BY <1>2, <1>3, OperatorKeeps DEF Return, BranchesInv, BranchesTypeOK

LEMMA DiscardStep ==
  ASSUME BranchesInv, Discard
  PROVE  BranchesInv'
<1>1. edits' = edits /\ kept \in SUBSET (1 .. edits') /\ edits \in 0 .. MaxEdits
  BY DEF BranchesInv, BranchesTypeOK, Discard
<1>2. Tree \in Trees
  BY TreesOfCommits DEF Tree, TreeAt, BranchesInv, BranchesTypeOK, RepositoryOK
<1>3. Kept
  <2>1. work' = Tree /\ index' = Tree /\ UNCHANGED <<commits, branches, head>>
    BY DEF Discard
  <2>2. HistoryGrows
    BY <2>1 DEF HistoryGrows
  <2>3. RepositoryOK'
    BY <1>2, <2>1 DEF BranchesInv, BranchesTypeOK, RepositoryOK
  <2>4. NothingIsDeleted'
    BY <2>1 DEF NothingIsDeleted, Tree, TreeAt
  <2> QED
    BY <2>2, <2>3, <2>4 DEF Kept
<1>4. kept' \subseteq 1 .. edits' /\ NoEditIsLost'
  BY <1>1, Remembers DEF Discard
<1> QED
  BY <1>1, <1>3, <1>4, OperatorKeeps DEF Discard

(***************************************************************************)
(* Commands                                                                *)
(***************************************************************************)
\* A step of a command, and what it must keep.
LEMMA CommandKeeps ==
  ASSUME BranchesInv, Kept, Still, breaks' = breaks \/ Break, CommandsOK', NoEditIsLost',
         RefineInv', SuggestInv', RefineRows', SuggestRows'
  PROVE  BranchesInv'
<1>1. breaks' \in 0 .. MaxBreaks
  BY BranchesAssumption DEF Break, BranchesInv, BranchesTypeOK
<1> QED
  BY <1>1 DEF Still, Kept, BranchesInv, BranchesTypeOK

\* One that ends the command, and leaves the rows.
LEMMA EndKeeps ==
  ASSUME BranchesInv, Kept, Quiet, breaks' = breaks \/ Break, UNCHANGED <<refines, suggests>>, cmd' = Nothing, NoEditIsLost'
  PROVE  BranchesInv'
<1>1. CommandsOK'
  BY DEF BranchesInv, BranchesTypeOK, CommandsOK, Quiet
<1>2. RefineInv' /\ SuggestInv'
  BY DEF RefineInv, SuggestInv
<1>3. RefineRows' /\ SuggestRows'
  BY RowlessStep DEF Kept
<1>4. Still
  BY DEF Still, Quiet
<1> QED
  BY <1>1, <1>2, <1>3, <1>4, CommandKeeps

\* A refine is no suggest.
LEMMA KindsDiffer == Refining \cap Suggesting = {}
BY DEF Refining, Suggesting

\* One that goes on, and leaves the rows.
LEMMA GoesOn ==
  ASSUME BranchesInv, Kept, Quiet, breaks' = breaks, UNCHANGED <<refines, suggests>>, NoEditIsLost',
         (cmd' \in Refining /\ RefineInv') \/ (cmd' \in Suggesting /\ SuggestInv')
  PROVE  BranchesInv'
<1>1. CommandsOK'
  BY DEF BranchesInv, BranchesTypeOK, CommandsOK, Quiet
<1>2. RefineInv' /\ SuggestInv'
  BY KindsDiffer DEF RefineInv, SuggestInv
<1>3. RefineRows' /\ SuggestRows'
  BY RowlessStep DEF Kept
<1>4. Still
  BY DEF Still, Quiet
<1> QED
  BY <1>1, <1>2, <1>3, <1>4, CommandKeeps

LEMMA StartRefineStep ==
  ASSUME BranchesInv, NEW r \in Lesson, NEW e \in Evals, NEW tools \in BOOLEAN, StartRefine(r, e, tools)
  PROVE  BranchesInv'
<1> DEFINE c == [kind |-> "refine", step |-> "write", base |-> head.commit, before |-> index, was |-> work,
                 run |-> r, eval |-> e, tools |-> tools, patch |-> {}]
<1>1. cmd' = c /\ begun' = begun + 1 /\ begun < MaxCommands /\ UNCHANGED <<commits, index, work, refines, suggests, breaks, edits, kept>>
  BY DEF StartRefine, Start, Still
<1>2. CreateBranch(BranchName(r)) /\ BranchName(r) \notin DOMAIN branches
  BY DEF StartRefine, CreateBranch
<1>3. head.commit \in DOMAIN commits /\ head.commit \in Nat /\ index \in Trees /\ work \in Trees
  BY DEF BranchesInv, BranchesTypeOK, RepositoryOK
<1>4. c \in Refining
  BY <1>3 DEF Refining
<1>5. CommandsOK'
  BY <1>1, <1>4, BranchesAssumption DEF CommandsOK, BranchesInv, BranchesTypeOK
<1>6. Kept /\ head'.commit = head.commit /\ head'.on = BranchName(r)
  BY <1>1, <1>2, CreateBranchKeeps, FilesDiffer DEF BranchesInv, BranchesTypeOK
<1>7. RefineRows' /\ SuggestRows'
  BY <1>1, <1>6, RowlessStep DEF Kept
<1>8. NoEditIsLost'
  BY <1>1, <1>6, EditsStay
<1>9. SuggestInv'
  BY <1>1, <1>4, KindsDiffer DEF SuggestInv
<1>10. RefineInv'
  <2>1. \A i \in DOMAIN refines : refines[i].cmd.run # r
    BY <1>2 DEF BranchesInv, RefineRows, RefineRow
  <2>2. work[SkillMd] = index[SkillMd] /\ index[SkillMd] = TreeAt(head.commit)[SkillMd] /\ Refined(work[SkillMd], r) # work[SkillMd]
    BY DEF StartRefine, EnsureClean, Clean, Tree
  <2> QED
    BY <1>1, <1>3, <1>6, <2>1, <2>2 DEF RefineInv, TreeAt
<1>11. Still
  BY <1>1 DEF Still
<1> QED
  BY <1>1, <1>5, <1>6, <1>7, <1>8, <1>9, <1>10, <1>11, CommandKeeps

\* What a refine's steps begin with.
LEMMA RefineUnderWay ==
  ASSUME BranchesInv, cmd # Nothing, cmd.kind = "refine" \/ cmd.step = "check"
  PROVE  /\ cmd \in Refining /\ cmd.run \in Lesson /\ RepositoryOK /\ NothingIsDeleted
         /\ index \in [File -> Blob] /\ work \in [File -> Blob] /\ cmd.before \in [File -> Blob]
<1>1. cmd \in Refining \cup Suggesting
  BY DEF BranchesInv, BranchesTypeOK, CommandsOK
<1>2. cmd \in Refining /\ cmd.run \in Lesson /\ cmd.before \in Trees
  BY <1>1 DEF Refining, Suggesting
<1> QED
  BY <1>2 DEF BranchesInv, BranchesTypeOK, RepositoryOK, Trees

\* A file with a block is a file.
LEMMA RefinedIsBlob ==
  ASSUME NEW b \in Blob, NEW r \in Lesson
  PROVE  Refined(b, r) \in Blob /\ Refined(b, r) # Absent
BY NothingAssumption DEF Refined, Blob, Absent, Text

LEMMA WriteRefineStep ==
  ASSUME BranchesInv, WriteRefine
  PROVE  BranchesInv'
<1>1. cmd # Nothing /\ cmd.step = "write" /\ UNCHANGED <<commits, branches, head, index, refines, suggests>> /\ Quiet
  BY DEF WriteRefine, At, git
<1>2. /\ cmd \in Refining /\ cmd.run \in Lesson /\ RepositoryOK /\ NothingIsDeleted
      /\ index \in [File -> Blob] /\ work \in [File -> Blob] /\ cmd.before \in [File -> Blob]
  BY RefineUnderWay DEF WriteRefine, At
<1>3. work[SkillMd] = cmd.before[SkillMd] /\ index[SkillMd] = cmd.before[SkillMd] /\ Tree[SkillMd] = cmd.before[SkillMd]
  BY <1>1, <1>2 DEF BranchesInv, RefineInv, Tree
<1>4. PICK b \in Blob : work' = [work EXCEPT ![SkillMd] = b] /\ b # Absent
  <2>1. Torn \in Blob /\ Torn # Absent
    BY DEF Torn, Absent, Text, Blob
  <2>2. Refined(work[SkillMd], cmd.run) \in Blob /\ Refined(work[SkillMd], cmd.run) # Absent
    BY <1>2, FilesDiffer, RefinedIsBlob
  <2> QED
    BY <2>1, <2>2 DEF WriteRefine
<1>5. work' \in Trees /\ index' \in Trees /\ \A p \in File : work'[p] = Absent => work[p] = Absent
  BY <1>1, <1>2, <1>4 DEF Trees
<1>6. Kept
  BY <1>1, <1>2, <1>5, WorkKeeps
<1>7. NoEditIsLost'
  BY <1>1, <1>2, <1>3, <1>4, <1>6, EditsStay DEF Quiet
<1>8. CASE cmd' = Nothing /\ Break
  BY <1>1, <1>6, <1>7, <1>8, EndKeeps
<1>9. CASE work' = [work EXCEPT ![SkillMd] = Refined(@, cmd.run)] /\ cmd' = [cmd EXCEPT !.step = "check"] /\ UNCHANGED breaks
  <2>1. cmd' \in Refining /\ cmd'.step = "check" /\ cmd'.run = cmd.run /\ cmd'.base = cmd.base /\ cmd'.before = cmd.before /\ cmd'.was = cmd.was
    BY <1>2, <1>9 DEF Refining
  <2>4. /\ work'[SkillMd] = Refined(cmd.before[SkillMd], cmd.run)
        /\ \A p \in File \ {SkillMd} : work'[p] = work[p]
    BY <1>2, <1>3, <1>9, FilesDiffer
  <2>5. RefineInv'
    BY <1>1, <1>2, <1>3, <2>1, <2>4 DEF BranchesInv, RefineInv, TreeAt
  <2> QED
    BY <1>1, <1>6, <1>7, <1>9, <2>1, <2>5, GoesOn
<1> QED
  BY <1>8, <1>9 DEF WriteRefine, Proceed

LEMMA CheckRefineStep ==
  ASSUME BranchesInv, CheckRefine
  PROVE  BranchesInv'
<1>1. /\ cmd # Nothing /\ cmd.step = "check" /\ Quiet
      /\ UNCHANGED <<commits, branches, head, index, work, refines, suggests, breaks>>
  BY DEF CheckRefine, At, git
<1>2. /\ cmd \in Refining /\ cmd.run \in Lesson /\ RepositoryOK /\ NothingIsDeleted
      /\ index \in [File -> Blob] /\ work \in [File -> Blob] /\ cmd.before \in [File -> Blob]
  BY <1>1, RefineUnderWay
<1>3. Kept
  BY <1>1, <1>2, WorkKeeps DEF RepositoryOK
<1>4. NoEditIsLost'
  BY <1>1, <1>3, EditsStay DEF Quiet
<1>5. CASE cmd' = Nothing
  BY <1>1, <1>3, <1>4, <1>5, EndKeeps
<1>6. CASE ToolsCheck /\ cmd' = [cmd EXCEPT !.step = "add", !.patch = Patch]
  <2>1. /\ cmd' \in Refining /\ cmd'.step = "add" /\ cmd'.run = cmd.run /\ cmd'.base = cmd.base
        /\ cmd'.before = cmd.before /\ cmd'.was = cmd.was /\ cmd'.patch = Patch /\ cmd'.tools = cmd.tools
    BY <1>2, <1>6 DEF Refining, Patch
  <2>2. ToolsYaml \in Patch => cmd.tools
    BY <1>6 DEF ToolsCheck, Patch
  <2>3. ASSUME cmd.was = cmd.before PROVE Patch = {SkillMd}
    BY <1>1, <1>2, <2>3, FilesDiffer DEF BranchesInv, RefineInv, Patch
  <2>4. RefineInv'
    BY <1>1, <1>2, <2>1, <2>2, <2>3 DEF BranchesInv, RefineInv, TreeAt
  <2> QED
    BY <1>1, <1>3, <1>4, <2>1, <2>4, GoesOn
<1> QED
  BY <1>5, <1>6 DEF CheckRefine

LEMMA AddRefineStep ==
  ASSUME BranchesInv, AddRefine
  PROVE  BranchesInv'
<1>1. /\ cmd # Nothing /\ cmd.step = "add" /\ Quiet
      /\ UNCHANGED <<commits, branches, head, work, refines, suggests, breaks>>
  BY DEF AddRefine, At
<1>2. /\ cmd \in Refining /\ cmd.run \in Lesson /\ RepositoryOK /\ NothingIsDeleted
      /\ index \in [File -> Blob] /\ work \in [File -> Blob] /\ cmd.before \in [File -> Blob]
  BY RefineUnderWay DEF AddRefine, At
<1>3. index' = [index EXCEPT ![SkillMd] = work[SkillMd]] /\ cmd' = [cmd EXCEPT !.step = "commit"]
  BY DEF AddRefine, Add, Proceed
<1>4. index[SkillMd] = Tree[SkillMd]
  BY <1>1, <1>2 DEF BranchesInv, RefineInv, Tree
<1>5. index' \in Trees /\ index'[SkillMd] = work[SkillMd] /\ \A p \in File \ {SkillMd} : index'[p] = index[p]
  BY <1>2, <1>3, FilesDiffer DEF Trees
<1>6. Kept
  BY <1>1, <1>2, <1>5, WorkKeeps DEF RepositoryOK
<1>7. NoEditIsLost'
  BY <1>1, <1>4, <1>5, <1>6, EditsStay DEF Quiet
<1>8. /\ cmd' \in Refining /\ cmd'.step = "commit" /\ cmd'.run = cmd.run /\ cmd'.base = cmd.base
      /\ cmd'.before = cmd.before /\ cmd'.was = cmd.was /\ cmd'.patch = cmd.patch /\ cmd'.tools = cmd.tools
  BY <1>2, <1>3 DEF Refining
<1>9. RefineInv'
  BY <1>1, <1>2, <1>5, <1>8 DEF BranchesInv, RefineInv, TreeAt
<1> QED
  BY <1>1, <1>6, <1>7, <1>8, <1>9, GoesOn

LEMMA CommitRefineStep ==
  ASSUME BranchesInv, CommitRefine
  PROVE  BranchesInv'
<1>1. /\ cmd # Nothing /\ cmd.step = "commit" /\ Quiet /\ Commit
      /\ UNCHANGED <<index, work, refines, suggests, breaks>>
  BY DEF CommitRefine, At
<1>2. /\ cmd \in Refining /\ cmd.run \in Lesson /\ RepositoryOK /\ NothingIsDeleted
      /\ index \in [File -> Blob] /\ work \in [File -> Blob] /\ cmd.before \in [File -> Blob]
  BY RefineUnderWay DEF CommitRefine, At
<1>3. /\ Kept /\ head'.on = head.on
      /\ commits'[head'.commit] = [parent |-> head.commit, tree |-> index]
  BY <1>1, <1>2, CommitKeeps
<1>4. NoEditIsLost'
  BY <1>1, <1>3, EditsStay DEF Quiet
<1>5. cmd' = [cmd EXCEPT !.step = "row"]
  BY DEF CommitRefine, Proceed
<1>6. /\ cmd' \in Refining /\ cmd'.step = "row" /\ cmd'.run = cmd.run /\ cmd'.base = cmd.base
      /\ cmd'.before = cmd.before /\ cmd'.was = cmd.was /\ cmd'.patch = cmd.patch /\ cmd'.tools = cmd.tools
  BY <1>2, <1>5 DEF Refining
<1>7. cmd.base \in DOMAIN commits' /\ commits'[cmd.base] = commits[cmd.base]
  BY <1>1, <1>2, <1>3 DEF BranchesInv, RefineInv, Kept, HistoryGrows
<1>8. RefineInv'
  BY <1>1, <1>2, <1>3, <1>6, <1>7 DEF BranchesInv, RefineInv, TreeAt
<1> QED
  BY <1>1, <1>3, <1>4, <1>6, <1>8, GoesOn

LEMMA InsertRefineRunStep ==
  ASSUME BranchesInv, InsertRefineRun
  PROVE  BranchesInv'
<1> DEFINE entry == [cmd |-> cmd, branch |-> BranchName(cmd.run), commit |-> head.commit]
<1>1. /\ cmd # Nothing /\ cmd.step = "row" /\ Quiet /\ refines' = Append(refines, entry) /\ cmd' = Nothing
      /\ UNCHANGED <<commits, branches, head, index, work, suggests, breaks>>
  BY DEF InsertRefineRun, At, git
<1>2. /\ cmd \in Refining /\ cmd.run \in Lesson /\ RepositoryOK /\ NothingIsDeleted
      /\ index \in [File -> Blob] /\ work \in [File -> Blob] /\ cmd.before \in [File -> Blob]
  BY RefineUnderWay DEF InsertRefineRun, At
<1>3. Kept
  BY <1>1, <1>2, WorkKeeps DEF RepositoryOK
<1>4. NoEditIsLost'
  BY <1>1, <1>3, EditsStay DEF Quiet
<1>5. /\ cmd.base \in DOMAIN commits /\ head.on = BranchName(cmd.run)
      /\ \A i \in DOMAIN refines : refines[i].cmd.run # cmd.run
      /\ commits[head.commit] = [parent |-> cmd.base, tree |-> index]
      /\ cmd.before[SkillMd] = commits[cmd.base].tree[SkillMd]
      /\ index[SkillMd] = Refined(cmd.before[SkillMd], cmd.run) /\ index[SkillMd] # cmd.before[SkillMd]
      /\ \A p \in File \ {SkillMd} : index[p] = cmd.before[p]
      /\ ToolsYaml \in cmd.patch => cmd.tools
      /\ cmd.was = cmd.before => cmd.patch = {SkillMd}
  BY <1>1, <1>2 DEF BranchesInv, RefineInv, TreeAt
<1>6. /\ BranchName(cmd.run) \in DOMAIN branches /\ branches[BranchName(cmd.run)] = head.commit
      /\ head.commit \in DOMAIN commits /\ head.commit \in Nat /\ BranchName(cmd.run) \in BranchNames
  BY <1>2, <1>5, FilesDiffer DEF RepositoryOK
<1>7. RefineRow(entry, commits, branches)
  BY <1>2, <1>5, <1>6, OwnAncestor DEF RefineRow
<1>8. entry \in [cmd : Refining, branch : BranchNames, commit : Nat] /\ refines \in Seq([cmd : Refining, branch : BranchNames, commit : Nat])
  BY <1>2, <1>6 DEF BranchesInv, BranchesTypeOK, CommandsOK
<1>9. CommandsOK'
  BY <1>1, <1>8 DEF Quiet, CommandsOK, BranchesInv, BranchesTypeOK
<1>10. /\ DOMAIN refines' = 1 .. Len(refines) + 1 /\ DOMAIN refines = 1 .. Len(refines) /\ Len(refines) \in Nat
       /\ refines'[Len(refines) + 1] = entry /\ \A i \in DOMAIN refines : refines'[i] = refines[i]
  BY <1>1, <1>8
<1>11. entry.cmd.run = cmd.run
  OBVIOUS
<1> HIDE DEF entry
<1>12. RefineRows'
  BY <1>1, <1>5, <1>7, <1>10, <1>11 DEF RefineRows, BranchesInv
<1>13. SuggestRows'
  BY <1>1 DEF SuggestRows, BranchesInv
<1>14. RefineInv' /\ SuggestInv'
  BY <1>1 DEF RefineInv, SuggestInv
<1>15. Still
  BY <1>1 DEF Still, Quiet
<1> QED
  BY <1>1, <1>3, <1>4, <1>9, <1>12, <1>13, <1>14, <1>15, CommandKeeps

\* There are finitely many motifs, so that they can be ranked.
LEMMA ChosenAreMotifs ==
  ASSUME Triggered # {}, NEW s \in Ranked
  PROVE  /\ s \in Seq(Motifs) \ {<<>>}
         /\ \A i \in DOMAIN s : s[i] \in Motifs /\ work[Proposed(s[i])] = Absent
<1>1. IsFiniteSet(Motifs)
  <2> DEFINE f == [i \in 1 .. Len(Evidence) |-> Key(Evidence[i])]
  <2>1. Len(Evidence) \in Nat /\ DOMAIN Evidence = 1 .. Len(Evidence)
    BY BranchesAssumption
  <2>2. f \in Surjection(1 .. Len(Evidence), Motifs)
    <3>1. \A i \in 1 .. Len(Evidence) : Evidence[i] \in Range(Evidence)
      BY <2>1 DEF Range
    <3>2. f \in [1 .. Len(Evidence) -> Motifs]
      BY <3>1 DEF Motifs
    <3>3. \A k \in Motifs : \E i \in 1 .. Len(Evidence) : f[i] = k
      BY <2>1 DEF Motifs, Range
    <3> QED
      BY <3>2, <3>3 DEF Surjection
  <2>3. IsFiniteSet(1 .. Len(Evidence))
    BY <2>1, FS_Interval
  <2> QED
    BY <2>2, <2>3, FS_Surjection
<1>2. Triggered \subseteq Motifs
  BY DEF Triggered, RepeatedMotifs
<1>3. Cardinality(Triggered) \in Nat \ {0}
  BY <1>1, <1>2, FS_Subset, FS_CardinalityType, FS_EmptySet
<1>4. Chosen \in Nat \ {0}
  BY <1>3, BranchesAssumption DEF Chosen
<1>5. s \in [1 .. Chosen -> Triggered]
  BY DEF Ranked
<1>6. s \in Seq(Motifs) /\ Len(s) = Chosen
  BY <1>2, <1>4, <1>5
<1>7. \A i \in DOMAIN s : s[i] \in Motifs /\ work[Proposed(s[i])] = Absent
  BY <1>5 DEF Triggered, RepeatedMotifs
<1> QED
  BY <1>4, <1>6, <1>7

LEMMA StartSuggestStep ==
  ASSUME BranchesInv, StartSuggest
  PROVE  BranchesInv'
<1>1. PICK left \in Ranked :
        Start([kind |-> "suggest", step |-> "anchor", base |-> head.commit, before |-> index, was |-> work, left |-> left])
  BY DEF StartSuggest
<1> DEFINE c == [kind |-> "suggest", step |-> "anchor", base |-> head.commit, before |-> index, was |-> work, left |-> left]
<1>2. /\ cmd' = c /\ begun' = begun + 1 /\ begun < MaxCommands
      /\ UNCHANGED <<commits, branches, head, index, work, refines, suggests, breaks, edits, kept>>
  BY <1>1 DEF StartSuggest, Start, Still, git
<1>3. left \in Seq(Motifs) \ {<<>>} /\ \A i \in DOMAIN left : left[i] \in Motifs /\ work[Proposed(left[i])] = Absent
  BY ChosenAreMotifs DEF StartSuggest
<1>4. RepositoryOK /\ NothingIsDeleted /\ head.commit \in DOMAIN commits /\ head.commit \in Nat /\ index \in Trees /\ work \in Trees
  BY DEF BranchesInv, BranchesTypeOK, RepositoryOK
<1>5. c \in Suggesting
  BY <1>3, <1>4 DEF Suggesting
<1>6. CommandsOK'
  BY <1>2, <1>5, BranchesAssumption DEF CommandsOK, BranchesInv, BranchesTypeOK
<1>7. Kept
  BY <1>2, <1>4, WorkKeeps
<1>8. RefineRows' /\ SuggestRows'
  BY <1>2, <1>7, RowlessStep DEF Kept
<1>9. NoEditIsLost'
  BY <1>2, <1>7, EditsStay
<1>10. RefineInv'
  BY <1>2, <1>5, KindsDiffer DEF RefineInv
<1>11. SuggestInv'
  <2>1. \A i \in DOMAIN left : TreeAt(head.commit)[Proposed(left[i])] = Absent
    BY <1>3, <1>4, FilesDiffer DEF NothingIsDeleted, Tree
  <2> QED
    BY <1>2, <1>4, <2>1 DEF SuggestInv, TreeAt, Tree, Staged
<1>12. Still
  BY <1>2 DEF Still
<1> QED
  BY <1>2, <1>6, <1>7, <1>8, <1>9, <1>10, <1>11, <1>12, CommandKeeps

\* What a suggest's steps begin with.
LEMMA SuggestUnderWay ==
  ASSUME BranchesInv, cmd # Nothing, cmd.kind = "suggest" \/ cmd.step \in {"anchor", "branch"}
  PROVE  /\ cmd \in Suggesting /\ RepositoryOK /\ NothingIsDeleted
         /\ cmd.left \in Seq(Motifs) /\ 1 \in DOMAIN cmd.left /\ Head(cmd.left) = cmd.left[1]
         /\ Head(cmd.left) \in Motifs /\ Dir \in File /\ Dir \in BranchNames /\ Dir # Nothing
         /\ index \in [File -> Blob] /\ work \in [File -> Blob]
<1>1. cmd \in Refining \cup Suggesting
  BY DEF BranchesInv, BranchesTypeOK, CommandsOK
<1>2. cmd \in Suggesting /\ cmd.left \in Seq(Motifs) /\ cmd.left # <<>>
  BY <1>1 DEF Refining, Suggesting
<1>3. 1 \in DOMAIN cmd.left /\ Head(cmd.left) = cmd.left[1] /\ Head(cmd.left) \in Motifs
  BY <1>2
<1>4. Dir \in File /\ Dir \in BranchNames /\ Dir # Nothing
  BY <1>3, FilesDiffer DEF Dir
<1> QED
  BY <1>2, <1>3, <1>4 DEF BranchesInv, BranchesTypeOK, RepositoryOK, Trees

\* A suggest that goes on to another step is still about the same candidates.
LEMMA SameCandidates ==
  ASSUME cmd \in Suggesting, NEW step \in {"anchor", "branch", "write", "add", "commit", "row"},
         cmd' = [cmd EXCEPT !.step = step]
  PROVE  /\ cmd' \in Suggesting /\ cmd'.step = step /\ cmd'.left = cmd.left /\ cmd'.base = cmd.base /\ cmd'.before = cmd.before
         /\ Dir' = Dir
<1>1. cmd' \in Suggesting /\ cmd'.step = step /\ cmd'.left = cmd.left /\ cmd'.base = cmd.base /\ cmd'.before = cmd.before
  BY DEF Suggesting
<1> QED
  BY <1>1 DEF Dir

LEMMA AnchorStep ==
  ASSUME BranchesInv, Anchor
  PROVE  BranchesInv'
<1>1. cmd # Nothing /\ cmd.step = "anchor" /\ Quiet /\ UNCHANGED <<commits, branches, refines, suggests, breaks>>
  BY DEF Anchor, At
<1>2. /\ cmd \in Suggesting /\ RepositoryOK /\ NothingIsDeleted
      /\ cmd.left \in Seq(Motifs) /\ 1 \in DOMAIN cmd.left /\ Head(cmd.left) = cmd.left[1]
      /\ Head(cmd.left) \in Motifs /\ Dir \in File /\ Dir \in BranchNames /\ Dir # Nothing
      /\ index \in [File -> Blob] /\ work \in [File -> Blob]
  BY <1>1, SuggestUnderWay
<1>3. CASE cmd' = Nothing /\ UNCHANGED <<head, index, work>>
  <2>1. Kept
    BY <1>1, <1>2, <1>3, WorkKeeps DEF RepositoryOK
  <2>2. NoEditIsLost'
    BY <1>1, <1>3, <2>1, EditsStay DEF Quiet
  <2> QED
    BY <1>1, <1>3, <2>1, <2>2, EndKeeps
<1>4. CASE Clean(Dir) /\ Switch(Nothing, cmd.base) /\ cmd' = [cmd EXCEPT !.step = "branch"]
  <2>1. /\ cmd.base \in DOMAIN commits
        /\ \A k \in DOMAIN cmd.left : TreeAt(cmd.base)[Proposed(cmd.left[k])] = Absent
        /\ \A p \in File : index[p] # Tree[p] => cmd.before[p] # TreeAt(cmd.base)[p]
    BY <1>1, <1>2 DEF BranchesInv, SuggestInv, Staged
  <2>2. /\ Kept /\ head'.commit = cmd.base
        /\ \A p \in File :
             /\ work'[p] = IF TreeAt(cmd.base)[p] = Tree[p] THEN work[p] ELSE TreeAt(cmd.base)[p]
             /\ index'[p] = IF TreeAt(cmd.base)[p] = Tree[p] THEN index[p] ELSE TreeAt(cmd.base)[p]
             /\ TreeAt(cmd.base)[p] = Tree[p] \/ (work[p] = Tree[p] /\ index[p] = Tree[p])
    BY <1>1, <1>2, <1>4, <2>1, SwitchKeeps
  <2>3. NoEditIsLost'
    BY <1>1, <2>2, EditsStay DEF Quiet
  <2>4. /\ cmd' \in Suggesting /\ cmd'.step = "branch" /\ cmd'.left = cmd.left /\ cmd'.base = cmd.base /\ cmd'.before = cmd.before
        /\ Dir' = Dir
    BY <1>2, <1>4, SameCandidates
  <2>5. Tree' = TreeAt(cmd.base) /\ TreeAt(cmd.base)' = TreeAt(cmd.base)
    BY <1>1, <2>2, <2>4 DEF Tree, TreeAt
  <2>6. \A p \in File : index'[p] # Tree'[p] => p \in Staged(cmd)'
    BY <2>1, <2>2, <2>4, <2>5 DEF Staged
  <2>7. Clean(Dir)'
    BY <1>2, <1>4, <2>2, <2>4, <2>5 DEF Clean
  <2>8. \A k \in DOMAIN cmd'.left : TreeAt(cmd.base)'[Proposed(cmd'.left[k])] = Absent
    BY <2>1, <2>4, <2>5
  <2>9. SuggestInv'
    BY <1>1, <2>1, <2>2, <2>4, <2>6, <2>7, <2>8 DEF SuggestInv
  <2> QED
    BY <1>1, <2>2, <2>3, <2>4, <2>9, GoesOn
<1> QED
  BY <1>3, <1>4 DEF Anchor, Proceed, BaseHead

LEMMA BranchStep ==
  ASSUME BranchesInv, Branch
  PROVE  BranchesInv'
<1>1. cmd # Nothing /\ cmd.step = "branch" /\ Quiet /\ UNCHANGED <<commits, index, work, refines, suggests, breaks>>
  BY DEF Branch, At
<1>2. /\ cmd \in Suggesting /\ RepositoryOK /\ NothingIsDeleted
      /\ cmd.left \in Seq(Motifs) /\ 1 \in DOMAIN cmd.left /\ Head(cmd.left) = cmd.left[1]
      /\ Head(cmd.left) \in Motifs /\ Dir \in File /\ Dir \in BranchNames /\ Dir # Nothing
      /\ index \in [File -> Blob] /\ work \in [File -> Blob]
  BY <1>1, SuggestUnderWay
<1>3. CASE cmd' = Nothing /\ UNCHANGED <<branches, head>>
  <2>1. Kept
    BY <1>1, <1>2, <1>3, WorkKeeps DEF RepositoryOK
  <2>2. NoEditIsLost'
    BY <1>1, <1>3, <2>1, EditsStay DEF Quiet
  <2> QED
    BY <1>1, <1>3, <2>1, <2>2, EndKeeps
<1>4. CASE Dir \notin DOMAIN branches /\ CreateBranch(Dir) /\ cmd' = [cmd EXCEPT !.step = "write"]
  <2>1. Kept /\ head'.commit = head.commit /\ head'.on = Dir
    BY <1>1, <1>2, <1>4, CreateBranchKeeps
  <2>2. NoEditIsLost'
    BY <1>1, <2>1, EditsStay DEF Quiet
  <2>3. /\ cmd' \in Suggesting /\ cmd'.step = "write" /\ cmd'.left = cmd.left /\ cmd'.base = cmd.base /\ cmd'.before = cmd.before
        /\ Dir' = Dir
    BY <1>2, <1>4, SameCandidates
  <2>4. \A i \in DOMAIN suggests : suggests[i].motif # Head(cmd.left)
    BY <1>4 DEF BranchesInv, SuggestRows, SuggestRow, Dir
  <2>5. SuggestInv'
    BY <1>1, <1>2, <2>1, <2>3, <2>4 DEF BranchesInv, SuggestInv, Clean, Tree, TreeAt, Staged
  <2> QED
    BY <1>1, <2>1, <2>2, <2>3, <2>5, GoesOn
<1> QED
  BY <1>3, <1>4 DEF Branch, Proceed

LEMMA WriteScaffoldStep ==
  ASSUME BranchesInv, WriteScaffold
  PROVE  BranchesInv'
<1>1. cmd # Nothing /\ cmd.step = "write" /\ Quiet /\ UNCHANGED <<commits, branches, head, index, refines, suggests>>
  BY DEF WriteScaffold, At, git
<1>2. /\ cmd \in Suggesting /\ RepositoryOK /\ NothingIsDeleted
      /\ cmd.left \in Seq(Motifs) /\ 1 \in DOMAIN cmd.left /\ Head(cmd.left) = cmd.left[1]
      /\ Head(cmd.left) \in Motifs /\ Dir \in File /\ Dir \in BranchNames /\ Dir # Nothing
      /\ index \in [File -> Blob] /\ work \in [File -> Blob]
  BY SuggestUnderWay DEF WriteScaffold, At
<1>3. work[Dir] = index[Dir] /\ index[Dir] = Tree[Dir]
  BY <1>1, <1>2 DEF BranchesInv, SuggestInv, Clean
<1>4. PICK b \in Blob : work' = [work EXCEPT ![Dir] = b] /\ b # Absent
  <2>1. Torn \in Blob /\ Torn # Absent /\ Scaffold \in Blob /\ Scaffold # Absent
    BY DEF Torn, Scaffold, Absent, Text, Blob
  <2> QED
    BY <2>1 DEF WriteScaffold
<1>5. work' \in Trees /\ index' \in Trees /\ \A p \in File : work'[p] = Absent => work[p] = Absent
  BY <1>1, <1>2, <1>4 DEF Trees
<1>6. Kept
  BY <1>1, <1>2, <1>5, WorkKeeps
<1>7. NoEditIsLost'
  BY <1>1, <1>2, <1>3, <1>4, <1>6, EditsStay DEF Quiet
<1>8. CASE cmd' = Nothing /\ Break
  BY <1>1, <1>6, <1>7, <1>8, EndKeeps
<1>9. CASE work' = [work EXCEPT ![Dir] = Scaffold] /\ cmd' = [cmd EXCEPT !.step = "add"] /\ UNCHANGED breaks
  <2>1. /\ cmd' \in Suggesting /\ cmd'.step = "add" /\ cmd'.left = cmd.left /\ cmd'.base = cmd.base /\ cmd'.before = cmd.before
        /\ Dir' = Dir
    BY <1>2, <1>9, SameCandidates
  <2>2. work'[Dir] = Scaffold
    BY <1>2, <1>9
  <2>3. SuggestInv'
    BY <1>1, <1>2, <1>3, <2>1, <2>2 DEF BranchesInv, SuggestInv, Tree, TreeAt, Staged
  <2> QED
    BY <1>1, <1>6, <1>7, <1>9, <2>1, <2>3, GoesOn
<1> QED
  BY <1>8, <1>9 DEF WriteScaffold, Proceed

LEMMA AddScaffoldStep ==
  ASSUME BranchesInv, AddScaffold
  PROVE  BranchesInv'
<1>1. /\ cmd # Nothing /\ cmd.step = "add" /\ Quiet
      /\ UNCHANGED <<commits, branches, head, work, refines, suggests, breaks>>
  BY DEF AddScaffold, At
<1>2. /\ cmd \in Suggesting /\ RepositoryOK /\ NothingIsDeleted
      /\ cmd.left \in Seq(Motifs) /\ 1 \in DOMAIN cmd.left /\ Head(cmd.left) = cmd.left[1]
      /\ Head(cmd.left) \in Motifs /\ Dir \in File /\ Dir \in BranchNames /\ Dir # Nothing
      /\ index \in [File -> Blob] /\ work \in [File -> Blob]
  BY SuggestUnderWay DEF AddScaffold, At
<1>3. index' = [index EXCEPT ![Dir] = work[Dir]] /\ cmd' = [cmd EXCEPT !.step = "commit"]
  BY DEF AddScaffold, Add, Proceed
<1>4. index[Dir] = Tree[Dir] /\ work[Dir] = Scaffold
  BY <1>1, <1>2 DEF BranchesInv, SuggestInv
<1>5. index' \in Trees /\ index'[Dir] = Scaffold /\ \A p \in File \ {Dir} : index'[p] = index[p]
  BY <1>2, <1>3, <1>4 DEF Trees
<1>6. Kept
  BY <1>1, <1>2, <1>3, <1>5, WorkKeeps DEF RepositoryOK
<1>7. NoEditIsLost'
  BY <1>1, <1>4, <1>5, <1>6, EditsStay DEF Quiet
<1>8. /\ cmd' \in Suggesting /\ cmd'.step = "commit" /\ cmd'.left = cmd.left /\ cmd'.base = cmd.base /\ cmd'.before = cmd.before
      /\ Dir' = Dir
  BY <1>2, <1>3, SameCandidates
<1>9. SuggestInv'
  BY <1>1, <1>2, <1>5, <1>8 DEF BranchesInv, SuggestInv, Tree, TreeAt, Staged
<1> QED
  BY <1>1, <1>6, <1>7, <1>8, <1>9, GoesOn

LEMMA CommitScaffoldStep ==
  ASSUME BranchesInv, CommitScaffold
  PROVE  BranchesInv'
<1>1. /\ cmd # Nothing /\ cmd.step = "commit" /\ Quiet /\ Commit
      /\ UNCHANGED <<index, work, refines, suggests, breaks>>
  BY DEF CommitScaffold, At
<1>2. /\ cmd \in Suggesting /\ RepositoryOK /\ NothingIsDeleted
      /\ cmd.left \in Seq(Motifs) /\ 1 \in DOMAIN cmd.left /\ Head(cmd.left) = cmd.left[1]
      /\ Head(cmd.left) \in Motifs /\ Dir \in File /\ Dir \in BranchNames /\ Dir # Nothing
      /\ index \in [File -> Blob] /\ work \in [File -> Blob]
  BY SuggestUnderWay DEF CommitScaffold, At
<1>3. /\ Kept /\ head'.on = head.on
      /\ commits'[head'.commit] = [parent |-> head.commit, tree |-> index]
  BY <1>1, <1>2, CommitKeeps
<1>4. NoEditIsLost'
  BY <1>1, <1>3, EditsStay DEF Quiet
<1>5. cmd' = [cmd EXCEPT !.step = "row"]
  BY DEF CommitScaffold, Proceed
<1>6. /\ cmd' \in Suggesting /\ cmd'.step = "row" /\ cmd'.left = cmd.left /\ cmd'.base = cmd.base /\ cmd'.before = cmd.before
      /\ Dir' = Dir
  BY <1>2, <1>5, SameCandidates
<1>7. cmd.base \in DOMAIN commits' /\ commits'[cmd.base] = commits[cmd.base]
  BY <1>1, <1>2, <1>3 DEF BranchesInv, SuggestInv, Kept, HistoryGrows
<1>8. /\ head.commit = cmd.base /\ index[Dir] = Scaffold
      /\ \A p \in File : index[p] # TreeAt(cmd.base)[p] => cmd.before[p] # TreeAt(cmd.base)[p] \/ p = Dir
  BY <1>1, <1>2 DEF BranchesInv, SuggestInv, Tree, Staged
<1>9. /\ TreeAt(cmd.base)' = TreeAt(cmd.base) /\ Tree' = index /\ commits'[head'.commit].parent = cmd.base
  BY <1>3, <1>6, <1>7, <1>8 DEF Tree, TreeAt
<1>10. Altered(head.commit)' \subseteq {Dir} \cup Staged(cmd)'
  BY <1>3, <1>6, <1>7, <1>8 DEF Altered, Staged, TreeAt
<1>11. SuggestInv'
  BY <1>1, <1>2, <1>3, <1>6, <1>7, <1>8, <1>9, <1>10 DEF BranchesInv, SuggestInv
<1> QED
  BY <1>1, <1>3, <1>4, <1>6, <1>11, GoesOn

LEMMA InsertSuggestRunStep ==
  ASSUME BranchesInv, InsertSuggestRun
  PROVE  BranchesInv'
<1> DEFINE entry == [cmd |-> cmd, motif |-> Head(cmd.left), branch |-> Dir, commit |-> head.commit]
<1>1. /\ cmd # Nothing /\ cmd.step = "row" /\ Quiet /\ suggests' = Append(suggests, entry)
      /\ UNCHANGED <<commits, branches, head, index, work, refines, breaks>>
  BY DEF InsertSuggestRun, At, git
<1>2. /\ cmd \in Suggesting /\ RepositoryOK /\ NothingIsDeleted
      /\ cmd.left \in Seq(Motifs) /\ 1 \in DOMAIN cmd.left /\ Head(cmd.left) = cmd.left[1]
      /\ Head(cmd.left) \in Motifs /\ Dir \in File /\ Dir \in BranchNames /\ Dir # Nothing
      /\ index \in [File -> Blob] /\ work \in [File -> Blob]
  BY SuggestUnderWay DEF InsertSuggestRun, At
<1>3. Kept
  BY <1>1, <1>2, WorkKeeps DEF RepositoryOK
<1>4. NoEditIsLost'
  BY <1>1, <1>3, EditsStay DEF Quiet
<1>5. /\ cmd.base \in DOMAIN commits /\ head.on = Dir
      /\ \A i \in DOMAIN suggests : suggests[i].motif # Head(cmd.left)
      /\ commits[head.commit].parent = cmd.base /\ index = Tree /\ Tree[Dir] = Scaffold
      /\ Altered(head.commit) \subseteq {Dir} \cup Staged(cmd)
      /\ \A k \in DOMAIN cmd.left : TreeAt(cmd.base)[Proposed(cmd.left[k])] = Absent
  BY <1>1, <1>2 DEF BranchesInv, SuggestInv
<1>6. Dir \in DOMAIN branches /\ branches[Dir] = head.commit /\ head.commit \in DOMAIN commits /\ head.commit \in Nat
  BY <1>2, <1>5 DEF RepositoryOK
<1>7. SuggestRow(entry, commits, branches)
  <2>1. commits[cmd.base].tree[Dir] = Absent
    BY <1>2, <1>5 DEF TreeAt, Dir
  <2>2. \A p \in File : commits[head.commit].tree[p] # commits[cmd.base].tree[p]
          => p = Dir \/ cmd.before[p] # commits[cmd.base].tree[p]
    BY <1>5 DEF Altered, Staged, TreeAt
  <2> QED
    BY <1>5, <1>6, <2>1, <2>2, OwnAncestor DEF SuggestRow, Tree, TreeAt, Dir
<1>8. /\ entry \in [cmd : Suggesting, motif : Motifs, branch : BranchNames, commit : Nat]
      /\ suggests \in Seq([cmd : Suggesting, motif : Motifs, branch : BranchNames, commit : Nat])
  BY <1>2, <1>6 DEF BranchesInv, BranchesTypeOK, CommandsOK
<1>9. /\ DOMAIN suggests' = 1 .. Len(suggests) + 1 /\ DOMAIN suggests = 1 .. Len(suggests) /\ Len(suggests) \in Nat
      /\ suggests'[Len(suggests) + 1] = entry /\ \A i \in DOMAIN suggests : suggests'[i] = suggests[i]
      /\ suggests' \in Seq([cmd : Suggesting, motif : Motifs, branch : BranchNames, commit : Nat])
  BY <1>1, <1>8
<1>10. entry.motif = Head(cmd.left)
  OBVIOUS
<1> HIDE DEF entry
<1>11. SuggestRows'
  BY <1>1, <1>5, <1>7, <1>9, <1>10 DEF SuggestRows, BranchesInv
<1>12. RefineRows'
  BY <1>1 DEF RefineRows, BranchesInv
<1>13. Still
  BY <1>1 DEF Still, Quiet
<1>14. cmd' \in {Nothing} \cup Suggesting /\ SuggestInv' /\ RefineInv'
  <2>1. CASE cmd' = Nothing
    BY <2>1 DEF SuggestInv, RefineInv
  <2>2. CASE Len(cmd.left) # 1 /\ cmd' = [cmd EXCEPT !.step = "anchor", !.left = Tail(@)]
    <3>1. /\ Tail(cmd.left) \in Seq(Motifs) \ {<<>>}
          /\ \A k \in DOMAIN Tail(cmd.left) : k + 1 \in DOMAIN cmd.left /\ Tail(cmd.left)[k] = cmd.left[k + 1]
      <4> DEFINE all == cmd.left
                 rest == Tail(all)
      <4>1. all \in Seq(Motifs) /\ 1 \in DOMAIN all /\ Len(all) # 1
        BY <1>2, <2>2
      <4> HIDE DEF all
      <4>2. Len(all) \in Nat /\ DOMAIN all = 1 .. Len(all) /\ Len(all) > 1
        <5>1. Len(all) \in Nat /\ DOMAIN all = 1 .. Len(all)
          BY <4>1, LenProperties
        <5>2. 1 \in 1 .. Len(all)
          BY <4>1, <5>1
        <5> QED
          BY <4>1, <5>1, <5>2
      <4>3. all # <<>>
        BY <4>2
      <4>4. rest \in Seq(Motifs) /\ Len(rest) = Len(all) - 1 /\ \A k \in 1 .. Len(rest) : rest[k] = all[k + 1]
        BY <4>1, <4>3, HeadTailProperties
      <4> HIDE DEF rest
      <4>5. rest # <<>> /\ DOMAIN rest = 1 .. Len(rest)
        BY <4>2, <4>4
      <4>6. rest \in Seq(Motifs) \ {<<>>} /\ \A k \in DOMAIN rest : k + 1 \in DOMAIN all /\ rest[k] = all[k + 1]
        BY <4>2, <4>4, <4>5
      <4> QED
        BY <4>6 DEF all, rest
    <3>2. /\ cmd' \in Suggesting /\ cmd'.step = "anchor" /\ cmd'.left = Tail(cmd.left)
          /\ cmd'.base = cmd.base /\ cmd'.before = cmd.before
      BY <1>2, <2>2, <3>1 DEF Suggesting
    <3>3. SuggestInv'
      BY <1>1, <1>5, <3>1, <3>2 DEF SuggestInv, Tree, TreeAt, Staged
    <3> QED
      BY <3>2, <3>3, KindsDiffer DEF RefineInv
  <2> QED
    BY <2>1, <2>2 DEF InsertSuggestRun
<1>15. CommandsOK'
  BY <1>1, <1>9, <1>14 DEF Quiet, CommandsOK, BranchesInv, BranchesTypeOK
<1> QED
  BY <1>1, <1>3, <1>4, <1>11, <1>12, <1>13, <1>14, <1>15, CommandKeeps

LEMMA FailStep ==
  ASSUME BranchesInv, Fail
  PROVE  BranchesInv'
<1>1. cmd' = Nothing /\ Quiet /\ Break /\ UNCHANGED <<commits, branches, head, index, work, refines, suggests>>
  BY DEF Fail, git
<1>2. Kept
  BY <1>1, WorkKeeps DEF BranchesInv, BranchesTypeOK, RepositoryOK
<1>3. NoEditIsLost'
  BY <1>1, <1>2, EditsStay DEF Quiet
<1> QED
  BY <1>1, <1>2, <1>3, EndKeeps

(***************************************************************************)
(* Theorems                                                                *)
(***************************************************************************)
LEMMA BranchesInitially == BranchesInit => BranchesInv
<1> SUFFICES ASSUME BranchesInit PROVE BranchesInv
  OBVIOUS
<1>1. PICK t \in Trees : commits = <<[parent |-> 0, tree |-> t]>>
  <2>1. PICK c \in Canonical :
          commits = <<[parent |-> 0,
                       tree |-> [p \in File |-> IF p = SkillMd THEN [Text(0) EXCEPT !.canon = c]
                                                ELSE IF p \in SkillDir \cup {Readme} THEN Text(0) ELSE Absent]]>>
    BY DEF BranchesInit
  <2>2. [Text(0) EXCEPT !.canon = c] \in Blob /\ Text(0) \in Blob /\ Absent \in Blob
    BY BranchesAssumption DEF Text, Absent, Blob
  <2> QED
    BY <2>1, <2>2 DEF Trees
<1>2. /\ commits \in Seq([parent : Nat, tree : Trees]) /\ DOMAIN commits = {1}
      /\ commits[1].parent = 0 /\ commits[1].tree = t
  BY <1>1
<1>3. index = t /\ work = t /\ head = [on |-> Main, commit |-> 1] /\ branches = [b \in {Main} |-> 1]
  BY <1>2 DEF BranchesInit, TreeAt
<1>4. RepositoryOK
  BY <1>2, <1>3, FilesDiffer DEF RepositoryOK
<1>5. CommandsOK
  BY BranchesAssumption DEF BranchesInit, CommandsOK
<1>6. NothingIsDeleted
  BY <1>2, <1>3 DEF NothingIsDeleted, Tree, TreeAt
<1>7. RefineInv /\ SuggestInv
  BY DEF BranchesInit, RefineInv, SuggestInv
<1>8. RefineRows /\ SuggestRows
  BY DEF BranchesInit, RefineRows, SuggestRows
<1>9. NoEditIsLost
  BY DEF BranchesInit, NoEditIsLost
<1>10. edits \in 0 .. MaxEdits /\ breaks \in 0 .. MaxBreaks /\ kept \subseteq 1 .. edits
  BY BranchesAssumption DEF BranchesInit
<1> QED
  BY <1>4, <1>5, <1>6, <1>7, <1>8, <1>9, <1>10 DEF BranchesInv, BranchesTypeOK

LEMMA BranchesStep == BranchesInv /\ [BranchesNext]_branchesVars => BranchesInv'
<1> SUFFICES ASSUME BranchesInv, [BranchesNext]_branchesVars PROVE BranchesInv'
  OBVIOUS
<1>1. CASE Operator
  BY <1>1, EditStep, StageStep, CommitOwnStep, ReturnStep, DiscardStep DEF Operator
<1>2. CASE \E r \in Lesson, e \in Evals, tools \in BOOLEAN : StartRefine(r, e, tools)
  BY <1>2, StartRefineStep
<1>3. CASE WriteRefine \/ CheckRefine \/ AddRefine \/ CommitRefine \/ InsertRefineRun
  BY <1>3, WriteRefineStep, CheckRefineStep, AddRefineStep, CommitRefineStep, InsertRefineRunStep
<1>4. CASE StartSuggest \/ Anchor \/ Branch \/ WriteScaffold \/ AddScaffold \/ CommitScaffold \/ InsertSuggestRun
  BY <1>4, StartSuggestStep, AnchorStep, BranchStep, WriteScaffoldStep, AddScaffoldStep,
     CommitScaffoldStep, InsertSuggestRunStep
<1>5. CASE Fail
  BY <1>5, FailStep
<1>6. CASE UNCHANGED branchesVars
  <2>1. UNCHANGED <<commits, branches, head, index, work, refines, suggests, cmd, begun, edits, kept, breaks>>
    BY <1>6 DEF branchesVars, git
  <2>2. BranchesTypeOK'
    BY <2>1 DEF BranchesInv, BranchesTypeOK, RepositoryOK, CommandsOK
  <2>3. NothingIsDeleted' /\ NoEditIsLost'
    BY <2>1 DEF BranchesInv, NothingIsDeleted, NoEditIsLost, Texts, Committed, Tree, TreeAt
  <2>4. RefineInv'
    BY <2>1 DEF BranchesInv, RefineInv, TreeAt
  <2>5. SuggestInv'
    BY <2>1 DEF BranchesInv, SuggestInv, Dir, Clean, Staged, Altered, Tree, TreeAt
  <2>6. RefineRows' /\ SuggestRows'
    BY <2>1 DEF BranchesInv, RefineRows, SuggestRows
  <2> QED
    BY <2>2, <2>3, <2>4, <2>5, <2>6 DEF BranchesInv
<1> QED
  BY <1>1, <1>2, <1>3, <1>4, <1>5, <1>6 DEF BranchesNext

\* The invariant that the results below are read from, for any number of commands and failures.
THEOREM BranchesInvariant == BranchesSpec => []BranchesInv
BY BranchesInitially, BranchesStep, PTL DEF BranchesSpec

\* What the invariant says of a row of refine_runs is what the property asks.
LEMMA RowImplies ==
  ASSUME BranchesInv, NEW i \in DOMAIN refines
  PROVE  LET entry == refines[i]
             c   == entry.cmd
             new == TreeAt(entry.commit)[SkillMd]
         IN  /\ entry.commit \in Ancestors(commits, branches[entry.branch]) /\ commits[entry.commit].parent = c.base
             /\ new.block = c.run /\ new.text = TreeAt(c.base)[SkillMd].text
             /\ \A p \in Altered(entry.commit) \ {SkillMd} : p \in Staged(c) /\ TreeAt(entry.commit)[p] = c.before[p]
             /\ ToolsYaml \in c.patch => c.tools
             /\ Untouched(c) => c.patch = Altered(entry.commit)
             /\ \A j \in DOMAIN refines : refines[j].cmd.run = c.run => i = j
<1> DEFINE entry == refines[i]
           c == entry.cmd
<1>1. RefineRow(entry, commits, branches) /\ \A j \in DOMAIN refines : refines[j].cmd.run = c.run => i = j
  BY DEF BranchesInv, RefineRows
<1> HIDE DEF entry
<1>2. /\ entry.commit \in Ancestors(commits, branches[entry.branch]) /\ commits[entry.commit].parent = c.base
      /\ TreeAt(entry.commit)[SkillMd] = Refined(TreeAt(c.base)[SkillMd], c.run)
      /\ TreeAt(entry.commit)[SkillMd] # TreeAt(c.base)[SkillMd]
      /\ c.before[SkillMd] = TreeAt(c.base)[SkillMd]
      /\ \A p \in File \ {SkillMd} : TreeAt(entry.commit)[p] = c.before[p]
      /\ ToolsYaml \in c.patch => c.tools
      /\ c.was = c.before => c.patch = {SkillMd}
  BY <1>1 DEF RefineRow, TreeAt
<1>3. TreeAt(entry.commit)[SkillMd].block = c.run /\ TreeAt(entry.commit)[SkillMd].text = TreeAt(c.base)[SkillMd].text
  BY <1>2 DEF Refined
<1>4. Altered(entry.commit) = {p \in File : TreeAt(entry.commit)[p] # TreeAt(c.base)[p]}
  BY <1>2 DEF Altered
<1>5. \A p \in Altered(entry.commit) \ {SkillMd} : p \in Staged(c) /\ TreeAt(entry.commit)[p] = c.before[p]
  BY <1>2, <1>4 DEF Staged
<1>6. Untouched(c) => c.patch = Altered(entry.commit)
  BY <1>2, <1>4, FilesDiffer DEF Untouched
<1> QED
  BY <1>1, <1>2, <1>3, <1>5, <1>6 DEF entry

\* Every refine that has a row, of any number and whatever the operator did in between, has the
\* commit its row tells of: on its branch, on what was checked out, with its block and what was
\* staged and nothing else (cmdSkillRefine).
THEOREM RefineRowsAreTrue == BranchesSpec => []RefineRowIsTrue
<1>1. BranchesInv => RefineRowIsTrue
  BY RowImplies DEF RefineRowIsTrue
<1> QED
  BY <1>1, BranchesInvariant, PTL

\* Suggestions do not chain, of any number of commands and motifs: each is directly on the commit
\* that was checked out, and has its directory alone (cmdSkillSuggest).
THEOREM SuggestionsStandAlone == BranchesSpec => []SuggestionStandsAlone
<1>1. ASSUME BranchesInv, NEW i \in DOMAIN suggests
      PROVE  LET entry == suggests[i]
                 dir == Proposed(entry.motif)
             IN  /\ entry.commit \in Ancestors(commits, branches[entry.branch]) /\ commits[entry.commit].parent = entry.cmd.base
                 /\ TreeAt(entry.commit)[dir] = Scaffold /\ TreeAt(entry.cmd.base)[dir] = Absent
                 /\ Altered(entry.commit) \subseteq {dir} \cup Staged(entry.cmd)
                 /\ \A j \in DOMAIN suggests : suggests[j].motif = entry.motif => i = j
  <2>1. SuggestRow(suggests[i], commits, branches) /\ \A j \in DOMAIN suggests : suggests[j].motif = suggests[i].motif => i = j
    BY <1>1 DEF BranchesInv, SuggestRows
  <2> QED
    BY <2>1 DEF SuggestRow, Altered, Staged, TreeAt
<1>2. BranchesInv => SuggestionStandsAlone
  BY <1>1 DEF SuggestionStandsAlone
<1> QED
  BY <1>2, BranchesInvariant, PTL

\* No edit of the operator is lost, whatever commands do and wherever they fail.
THEOREM EditsAreKept == BranchesSpec => []NoEditIsLost
<1>1. BranchesInv => NoEditIsLost
  BY DEF BranchesInv
<1> QED
  BY <1>1, BranchesInvariant, PTL

\* Types of the history, the trees, the rows and the command under way.
THEOREM BranchesTypeCorrect == BranchesSpec => []BranchesTypeOK
<1>1. BranchesInv => BranchesTypeOK
  BY DEF BranchesInv
<1> QED
  BY <1>1, BranchesInvariant, PTL
=============================================================================
