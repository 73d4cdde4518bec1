--------------------------- MODULE SkillBranches ---------------------------
(***************************************************************************)
(* The two commands that write to the git repository of the skills.        *)
(* `virmux skill refine` (src/cmd/virmux/skill_refine.go) adds a block to  *)
(* a skill's SKILL.md, on a branch of its own for each run it learns from; *)
(* `virmux skill suggest` (src/cmd/virmux/skill_suggest.go) scaffolds a    *)
(* new skill for each motif that runs repeat, each on a branch of its own. *)
(*                                                                         *)
(* Both work in the operator's own working tree and index, as a dozen      *)
(* steps of which any may be the last, and leave the tree as it is then.   *)
(* In between the operator edits, stages, commits, discards and switches   *)
(* branches; he deletes no file.  One command runs at a time, and the      *)
(* operator waits for it.                                                  *)
(*                                                                         *)
(* A commit is its parent and a tree; trees, index and working tree map    *)
(* paths to contents.  SKILL.md is its text, the block and what follows    *)
(* the block; every other content is a text.  Rates are percentages.       *)
(***************************************************************************)
EXTENDS Integers, Sequences, FiniteSets, SequencesExt

CONSTANTS
  Lesson,         \* runs of the skill to learn from
  Evals,          \* the evaluations a refine may go by: own (of this skill), pass, fresh
  Evidence,       \* of each scored run, in order: calls, files, prompt, base, pass, score, cost
  MinRepeats, MinPassRate, MinScore,
  MaxCandidates,  \* scaffolds of one suggest; 0: no limit
  MaxHunks,       \* --max-hunks; 0: no limit
  Canonical,      \* may SKILL.md have a frontmatter as yaml.Marshal writes it?
  MaxCommands, MaxEdits, MaxBreaks,   \* bounds
  Nothing

ASSUME BranchesAssumption ==
  /\ \A e \in Evals : e.own \in BOOLEAN /\ e.pass \in BOOLEAN /\ e.fresh \in BOOLEAN
  /\ Evidence \in Seq(Range(Evidence))
  /\ \A f \in Range(Evidence) : f.pass \in BOOLEAN /\ f.score \in Nat /\ f.cost \in Nat
  /\ MinRepeats \in Nat \ {0} /\ MinPassRate \in Nat \ {0} /\ MinScore \in Nat \ {0}
  /\ MaxCandidates \in Nat /\ MaxHunks \in Nat
  /\ MaxCommands \in Nat /\ MaxEdits \in Nat /\ MaxBreaks \in Nat
  /\ Canonical \subseteq BOOLEAN

(***************************************************************************)
(* Motifs: runs with the same calls, files, prompt and base.               *)
(***************************************************************************)
Key(f) == <<f.calls, f.files, f.prompt, f.base>>
Motifs == {Key(f) : f \in Range(Evidence)}
Rows(k) == SelectSeq(Evidence, LAMBDA f : Key(f) = k)
Passes(k) == Len(SelectSeq(Rows(k), LAMBDA f : f.pass))
Costs(k) == FoldLeft(LAMBDA sum, f : sum + f.cost, 0, Rows(k))

\* Twice the median.
Median2(k) ==
  LET s == SortSeq([i \in DOMAIN Rows(k) |-> Rows(k)[i].score], LAMBDA x, y : x < y)
      m == Len(s) \div 2
  IN  IF Len(s) % 2 = 1 THEN 2 * s[m + 1] ELSE s[m] + s[m + 1]

Repeated(k) ==
  /\ Len(Rows(k)) >= MinRepeats
  /\ 100 * Passes(k) >= MinPassRate * Len(Rows(k))
  /\ Median2(k) >= 2 * MinScore

\* The expected value is n * p50 / (1 + average cost), that is n * n * p50 / (n + costs).
\* Equal ones go by their keys, in an order that is any fixed one.
Dearer(j, k) ==
  LET n(x) == Len(Rows(x)) IN
    n(j) * n(j) * Median2(j) * (n(k) + Costs(k)) > n(k) * n(k) * Median2(k) * (n(j) + Costs(j))

\* Paths and branches.  A scaffold has one name for both.
SkillMd == <<"SKILL.md">>
ToolsYaml == <<"tools.yaml">>
Rubric == <<"rubric.yaml">>
Readme == <<"README.md">>   \* of the repository
SkillDir == {SkillMd, ToolsYaml, Rubric}
Proposed(k) == <<"suggest">> \o k
File == SkillDir \cup {Readme} \cup {Proposed(k) : k \in Motifs}
Main == <<"main">>
BranchName(r) == <<"refine", r>>
BranchNames == {Main} \cup {BranchName(r) : r \in Lesson} \cup {Proposed(k) : k \in Motifs}

ASSUME NothingAssumption == Nothing \notin BranchNames

\* Contents.  Text 0 is what was there at first; 1, 2, ... are the operator's edits.
Blob == [text : Int, canon : BOOLEAN, block : Lesson \cup {Nothing}, tail : Int]
Trees == [File -> Blob]
Text(t) == [text |-> t, canon |-> FALSE, block |-> Nothing, tail |-> 0]
Absent == Text(-1)
Scaffold == Text(-2)
Torn == Text(-3)

VARIABLES
  commits,    \* parent and tree of each; the first has parent 0
  branches,   \* the commit of each branch
  head,       \* the branch that is checked out (Nothing: detached) and the commit
  index, work,
  refines,    \* refine_runs
  suggests,   \* suggest_runs
  cmd,        \* the command that runs, and where it is; or Nothing
  begun,      \* how many commands have begun
  edits,      \* how many edits the operator has made
  kept,       \* those that the operator has not undone
  breaks

git == <<commits, branches, head, index>>
branchesVars == <<git, work, refines, suggests, cmd, begun, edits, kept, breaks>>

TreeAt(n) == commits[n].tree
Tree == TreeAt(head.commit)
Clean(p) == work[p] = index[p] /\ index[p] = Tree[p]

BranchesInit ==
  /\ \E c \in Canonical :
       commits = <<[parent |-> 0,
                    tree |-> [p \in File |-> IF p = SkillMd THEN [Text(0) EXCEPT !.canon = c]
                                             ELSE IF p \in SkillDir \cup {Readme} THEN Text(0) ELSE Absent]]>>
  /\ branches = [b \in {Main} |-> 1]
  /\ head = [on |-> Main, commit |-> 1]
  /\ index = TreeAt(1) /\ work = index
  /\ refines = <<>> /\ suggests = <<>>
  /\ cmd = Nothing /\ begun = 0
  /\ edits = 0 /\ kept = {} /\ breaks = 0

Break == breaks < MaxBreaks /\ breaks' = breaks + 1

(***************************************************************************)
(* git                                                                     *)
(***************************************************************************)
\* git checkout of a commit keeps what differs from HEAD where the two trees agree, and
\* refuses to overwrite it where they do not.
CanSwitch(n) == \A p \in File : TreeAt(n)[p] = Tree[p] \/ Clean(p)
Switched(files, n) == [p \in File |-> IF TreeAt(n)[p] = Tree[p] THEN files[p] ELSE TreeAt(n)[p]]
Switch(b, n) ==
  /\ CanSwitch(n)
  /\ index' = Switched(index, n) /\ work' = Switched(work, n)
  /\ head' = [on |-> b, commit |-> n]

\* git checkout -b
CreateBranch(b) ==
  /\ b \notin DOMAIN branches
  /\ branches' = [x \in DOMAIN branches \cup {b} |-> IF x = b THEN head.commit ELSE branches[x]]
  /\ head' = [head EXCEPT !.on = b]

\* git add; git commit, which takes the whole index.
Add(p) == index' = [index EXCEPT ![p] = work[p]]
Commit ==
  LET n == Len(commits) + 1 IN
  /\ index # Tree
  /\ commits' = Append(commits, [parent |-> head.commit, tree |-> index])
  /\ head' = [head EXCEPT !.commit = n]
  /\ branches' = IF head.on = Nothing THEN branches ELSE [branches EXCEPT ![head.on] = n]

(***************************************************************************)
(* The operator                                                            *)
(***************************************************************************)
Edits(c) == {c.text, c.tail} \ {0, -1, -2, -3}
Texts(files) == UNION {Edits(files[p]) : p \in File}
Committed == UNION {Texts(TreeAt(n)) : n \in DOMAIN commits}

\* What is gone after a step of the operator is gone by his will.
Remember(w, ix, es) == kept' = es \cap (Texts(w) \cup Texts(ix) \cup Committed)

Idle == cmd = Nothing /\ UNCHANGED <<refines, suggests, cmd, begun, breaks>>

Edit(p) ==
  /\ Idle /\ edits < MaxEdits /\ work[p] # Absent
  /\ edits' = edits + 1
  /\ \/ work' = [work EXCEPT ![p].text = edits']
     \/ work[p].block # Nothing /\ work' = [work EXCEPT ![p].tail = edits']
  /\ Remember(work', index, kept \cup {edits'})
  /\ UNCHANGED git

Stage(p) ==
  /\ Idle /\ work[p] # index[p]
  /\ Add(p)
  /\ Remember(work, index', kept)
  /\ UNCHANGED <<commits, branches, head, work, edits>>

CommitOwn == Idle /\ Commit /\ UNCHANGED <<index, work, edits, kept>>
Return == Idle /\ head.on # Main /\ Switch(Main, branches[Main]) /\ UNCHANGED <<commits, branches, edits, kept>>

\* git reset --hard; git clean
Discard ==
  /\ Idle /\ (index # Tree \/ work # Tree)
  /\ index' = Tree /\ work' = Tree
  /\ Remember(work', index', kept)
  /\ UNCHANGED <<commits, branches, head, edits>>

Operator == (\E p \in File : Edit(p) \/ Stage(p)) \/ CommitOwn \/ Return \/ Discard

(***************************************************************************)
(* skill refine                                                            *)
(***************************************************************************)
\* The block goes to the end, or replaces the last one with all that follows it; the
\* frontmatter is written anew.
Refined(c, r) == [text |-> c.text, canon |-> TRUE, block |-> r, tail |-> 0]

Accepted(e) == e.own /\ e.pass /\ e.fresh
AnyState(p) == TRUE
EnsureClean(p) == Clean(p)

At(step) == cmd # Nothing /\ cmd.step = step
Proceed(step) == cmd' = [cmd EXCEPT !.step = step]
Start(c) ==
  /\ cmd = Nothing /\ begun < MaxCommands
  /\ begun' = begun + 1
  /\ cmd' = c
Still == UNCHANGED <<edits, kept>>
Quiet == UNCHANGED <<begun, edits, kept>>

\* Anything that is not as it should be ends the command before it has done anything.
StartRefine(r, e, tools) ==
  /\ Accepted(e)
  /\ Refined(work[SkillMd], r) # work[SkillMd]
  /\ EnsureClean(SkillMd)
  /\ CreateBranch(BranchName(r))
  /\ Start([kind |-> "refine", step |-> "write", base |-> head.commit, before |-> index, was |-> work,
            run |-> r, eval |-> e, tools |-> tools, patch |-> {}])
  /\ UNCHANGED <<commits, index, work, refines, suggests, breaks>> /\ Still

WriteRefine ==
  /\ At("write") /\ cmd.kind = "refine"
  /\ \/ work' = [work EXCEPT ![SkillMd] = Refined(@, cmd.run)] /\ Proceed("check") /\ UNCHANGED breaks
     \/ Break /\ work' = [work EXCEPT ![SkillMd] = Torn] /\ cmd' = Nothing
  /\ UNCHANGED <<git, refines, suggests>> /\ Quiet

\* git diff is that of the working tree with the index.  A frontmatter written anew is a hunk
\* of its own (in a file long enough), and hunks are counted by their markers, two of each.
Patch == {p \in SkillDir : work[p] # index[p]}
Hunks == Cardinality(Patch) + IF index[SkillMd].canon THEN 0 ELSE 1
HunkCount == 2 * Hunks
TooLarge == MaxHunks > 0 /\ HunkCount > MaxHunks
NoToolsCheck == TRUE
ToolsCheck == cmd.tools \/ work[ToolsYaml] = index[ToolsYaml]

CheckRefine ==
  /\ At("check")
  /\ IF ToolsCheck /\ ~TooLarge
     THEN cmd' = [cmd EXCEPT !.step = "add", !.patch = Patch]
     ELSE cmd' = Nothing
  /\ UNCHANGED <<git, work, refines, suggests, breaks>> /\ Quiet

AddRefine ==
  /\ At("add") /\ cmd.kind = "refine"
  /\ Add(SkillMd) /\ Proceed("commit")
  /\ UNCHANGED <<commits, branches, head, work, refines, suggests, breaks>> /\ Quiet

CommitRefine ==
  /\ At("commit") /\ cmd.kind = "refine"
  /\ Commit /\ Proceed("row")
  /\ UNCHANGED <<index, work, refines, suggests, breaks>> /\ Quiet

InsertRefineRun ==
  /\ At("row") /\ cmd.kind = "refine"
  /\ refines' = Append(refines, [cmd |-> cmd, branch |-> BranchName(cmd.run), commit |-> head.commit])
  /\ cmd' = Nothing
  /\ UNCHANGED <<git, work, suggests, breaks>> /\ Quiet

(***************************************************************************)
(* skill suggest                                                           *)
(***************************************************************************)
\* The motifs that are repeated often and well, and have no directory yet.
RepeatedMotifs == {k \in Motifs : Repeated(k)}
Triggered == {k \in RepeatedMotifs : work[Proposed(k)] = Absent}

\* The ways to rank them, up to the limit: none that is dearer comes later or is left out.
Chosen ==
  IF MaxCandidates > 0 /\ Cardinality(Triggered) > MaxCandidates THEN MaxCandidates ELSE Cardinality(Triggered)
Ranked ==
  {s \in [1 .. Chosen -> Triggered] :
     /\ \A i, j \in 1 .. Chosen : i < j => s[i] # s[j] /\ ~Dearer(s[j], s[i])
     /\ \A k \in Triggered \ Range(s), i \in 1 .. Chosen : ~Dearer(k, s[i])}

StartSuggest ==
  /\ Triggered # {}
  /\ \E left \in Ranked :
       Start([kind |-> "suggest", step |-> "anchor", base |-> head.commit, before |-> index, was |-> work,
              left |-> left])
  /\ UNCHANGED <<git, work, refines, suggests, breaks>> /\ Still

Dir == Proposed(Head(cmd.left))

\* The directory is new and clean, and every candidate starts where the command did.
WhereWeAre == head.commit
BaseHead == cmd.base
Anchor ==
  /\ At("anchor")
  /\ IF Clean(Dir) /\ work[Dir] = Absent /\ CanSwitch(BaseHead)
     THEN Switch(Nothing, BaseHead) /\ Proceed("branch")
     ELSE cmd' = Nothing /\ UNCHANGED <<head, index, work>>
  /\ UNCHANGED <<commits, branches, refines, suggests, breaks>> /\ Quiet

Branch ==
  /\ At("branch")
  /\ IF Dir \in DOMAIN branches THEN cmd' = Nothing /\ UNCHANGED <<branches, head>>
     ELSE CreateBranch(Dir) /\ Proceed("write")
  /\ UNCHANGED <<commits, index, work, refines, suggests, breaks>> /\ Quiet

WriteScaffold ==
  /\ At("write") /\ cmd.kind = "suggest"
  /\ \/ work' = [work EXCEPT ![Dir] = Scaffold] /\ Proceed("add") /\ UNCHANGED breaks
     \/ Break /\ work' = [work EXCEPT ![Dir] = Torn] /\ cmd' = Nothing
  /\ UNCHANGED <<git, refines, suggests>> /\ Quiet

AddScaffold ==
  /\ At("add") /\ cmd.kind = "suggest"
  /\ Add(Dir) /\ Proceed("commit")
  /\ UNCHANGED <<commits, branches, head, work, refines, suggests, breaks>> /\ Quiet

CommitScaffold ==
  /\ At("commit") /\ cmd.kind = "suggest"
  /\ Commit /\ Proceed("row")
  /\ UNCHANGED <<index, work, refines, suggests, breaks>> /\ Quiet

InsertSuggestRun ==
  /\ At("row") /\ cmd.kind = "suggest"
  /\ suggests' = Append(suggests, [cmd |-> cmd, motif |-> Head(cmd.left), branch |-> Dir, commit |-> head.commit])
  /\ cmd' = IF Len(cmd.left) = 1 THEN Nothing ELSE [cmd EXCEPT !.step = "anchor", !.left = Tail(@)]
  /\ UNCHANGED <<git, work, refines, breaks>> /\ Quiet

(***************************************************************************)
(* A failure that leaves nothing of its own (lint, artifacts, git, the     *)
(* row), or the end of the process.                                        *)
(***************************************************************************)
Fail ==
  /\ cmd # Nothing /\ Break
  /\ cmd' = Nothing
  /\ UNCHANGED <<git, work, refines, suggests>> /\ Quiet

BranchesNext ==
  \/ Operator
  \/ \E r \in Lesson, e \in Evals, tools \in BOOLEAN : StartRefine(r, e, tools)
  \/ WriteRefine \/ CheckRefine \/ AddRefine \/ CommitRefine \/ InsertRefineRun
  \/ StartSuggest \/ Anchor \/ Branch \/ WriteScaffold \/ AddScaffold \/ CommitScaffold \/ InsertSuggestRun
  \/ Fail

BranchesSpec == BranchesInit /\ [][BranchesNext]_branchesVars

(***************************************************************************)
(* Properties                                                              *)
(***************************************************************************)
Refining ==
  [kind : {"refine"}, step : {"write", "check", "add", "commit", "row"},
   base : Nat, before : Trees, was : Trees, run : Lesson, eval : Evals, tools : BOOLEAN, patch : SUBSET SkillDir]
Suggesting ==
  [kind : {"suggest"}, step : {"anchor", "branch", "write", "add", "commit", "row"},
   base : Nat, before : Trees, was : Trees, left : Seq(Motifs) \ {<<>>}]

RepositoryOK ==
  /\ commits \in Seq([parent : Nat, tree : Trees])
  /\ \A n \in DOMAIN commits : commits[n].parent \in {0} \cup DOMAIN commits
  /\ DOMAIN branches \subseteq BranchNames /\ Main \in DOMAIN branches
  /\ branches \in [DOMAIN branches -> DOMAIN commits]
  /\ head \in [on : DOMAIN branches \cup {Nothing}, commit : DOMAIN commits]
  /\ head.on # Nothing => branches[head.on] = head.commit
  /\ index \in Trees /\ work \in Trees
CommandsOK ==
  /\ refines \in Seq([cmd : Refining, branch : BranchNames, commit : Nat])
  /\ suggests \in Seq([cmd : Suggesting, motif : Motifs, branch : BranchNames, commit : Nat])
  /\ cmd \in {Nothing} \cup Refining \cup Suggesting
  /\ begun \in 0 .. MaxCommands
BranchesTypeOK ==
  /\ RepositoryOK /\ CommandsOK
  /\ edits \in 0 .. MaxEdits /\ breaks \in 0 .. MaxBreaks /\ kept \subseteq 1 .. edits

\* What a commit descends from, itself included: the least set closed under parents.
Ancestors(history, n) ==
  {a \in DOMAIN history :
     \A S \in SUBSET (DOMAIN history) :
       n \in S /\ (\A k \in S : history[k].parent \in S \cup {0}) => a \in S}

Altered(n) == {p \in File : TreeAt(n)[p] # TreeAt(commits[n].parent)[p]}
Staged(c) == {p \in File : c.before[p] # TreeAt(c.base)[p]}
Untouched(c) == c.before = TreeAt(c.base) /\ c.was = c.before

\* A refine row points at its commit: that is on its branch and directly on what was checked
\* out, adds its run's block and leaves the text before it alone.  What was staged when the
\* command began, by the operator or by a command that failed, goes along as it was, and
\* nothing else does: no other edit, and none of the command's own.  Without the option that
\* keeps out a tools.yaml that is edited and not staged; a staged one is committed, and a
\* rubric.yaml too (DeniedEditsStayOut, TargetsBeginClean and PatchIsTheCommit are about them).
\* In a tree without changes the patch is the commit.  A run is refined once.
\* (The code: cmdSkillRefine works on the operator's tree and commits the whole index.)
RefineRowIsTrue ==
  \A i \in DOMAIN refines :
    LET row == refines[i]
        c   == row.cmd
        new == TreeAt(row.commit)[SkillMd]
    IN  /\ row.commit \in Ancestors(commits, branches[row.branch]) /\ commits[row.commit].parent = c.base
        /\ new.block = c.run /\ new.text = TreeAt(c.base)[SkillMd].text
        /\ \A p \in Altered(row.commit) \ {SkillMd} : p \in Staged(c) /\ TreeAt(row.commit)[p] = c.before[p]
        /\ ToolsYaml \in c.patch => c.tools
        /\ Untouched(c) => c.patch = Altered(row.commit)
        /\ \A j \in DOMAIN refines : refines[j].cmd.run = c.run => i = j

\* No branch chaining: a suggestion's commit is on its branch and directly on the commit that
\* was checked out when the command began, and adds its own directory, whole, and nothing but
\* that and what the operator had staged.  A motif is scaffolded once.
\* (The code: cmdSkillSuggest detaches HEAD for every candidate.)
SuggestionStandsAlone ==
  \A i \in DOMAIN suggests :
    LET row == suggests[i]
        dir == Proposed(row.motif)
    IN  /\ row.commit \in Ancestors(commits, branches[row.branch]) /\ commits[row.commit].parent = row.cmd.base
        /\ TreeAt(row.commit)[dir] = Scaffold /\ TreeAt(row.cmd.base)[dir] = Absent
        /\ Altered(row.commit) \subseteq {dir} \cup Staged(row.cmd)
        /\ \A j \in DOMAIN suggests : suggests[j].motif = row.motif => i = j

\* No edit of the operator is lost that he has not undone himself: whatever a command does,
\* and wherever it fails, the edit is in the working tree, in the index or in a commit.
\* (The code: ensureGitCleanForRefine, ensureGitCleanForSuggest, git's own refusals.)
NoEditIsLost == kept \subseteq Texts(work) \cup Texts(index) \cup Committed

\* "Default deny tools.yaml edits": a commit without the option leaves tools.yaml alone.  It is
\* violated: the option is enforced on git diff, which does not show what is staged, and git
\* commit takes the index.
DeniedEditsStayOut ==
  \A i \in DOMAIN refines : ToolsYaml \in Altered(refines[i].commit) => refines[i].cmd.tools

\* "Dirty target files: hard fail pre-branch", where the targets are SKILL.md and rubric.yaml, and
\* tools.yaml with the option: a refine that got a branch began with clean ones.  It is violated:
\* ensureGitCleanForRefine looks at the files the refine will write, and that is SKILL.md.
Targets(c) == {SkillMd, Rubric} \cup IF c.tools THEN {ToolsYaml} ELSE {}
TargetsBeginClean ==
  \A i \in DOMAIN refines :
    LET c == refines[i].cmd IN
    \A p \in Targets(c) : c.was[p] = c.before[p] /\ c.before[p] = TreeAt(c.base)[p]

\* The patch on record, which the row's patch_hash is of, is the commit.  It is violated: what was
\* staged is in the commit and not in the patch, and what was edited only the other way round.
PatchIsTheCommit == \A i \in DOMAIN refines : refines[i].cmd.patch = Altered(refines[i].commit)

\* A patch of no more hunks than --max-hunks is not too large.
HunkLimitIsMeant == At("check") /\ Hunks <= MaxHunks => ~TooLarge

\* What a run adds to SKILL.md leaves what follows the block alone.
TailSurvives ==
  \A i \in DOMAIN refines :
    TreeAt(refines[i].commit)[SkillMd].tail = TreeAt(refines[i].cmd.base)[SkillMd].tail

\* Every commit of a refine has its row.
RefinesAreRecorded ==
  cmd = Nothing => \A r \in Lesson : BranchName(r) \in DOMAIN branches
                  => \E i \in DOMAIN refines : refines[i].cmd.run = r

\* A suggestion is not built upon another one.
SuggestionsNeverChain ==
  \A i, j \in DOMAIN suggests : suggests[i].cmd.base # suggests[j].commit
=============================================================================
