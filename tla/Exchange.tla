------------------------------ MODULE Exchange ------------------------------
(***************************************************************************)
(* Bundles: `virmux export` of a run or an evaluation on one host, and     *)
(* `virmux import` of the bundle on another                                *)
(* (src/cmd/virmux/export_import.go).                                      *)
(*                                                                         *)
(* The export copies the run directory and then reads up to sixteen        *)
(* tables, one query each and no transaction around them, while the        *)
(* command that owns the rows, or one that adds to them, may be writing.   *)
(* The import unpacks and verifies, inserts every row in one transaction,  *)
(* and copies the directory after it has committed.  Any step may fail,    *)
(* any process may die, and imports of one bundle may be repeated or meet. *)
(*                                                                         *)
(* A row has a table (t), a primary key (id) and the keys of the rows it   *)
(* refers to (up).  Its other columns are carried along and change         *)
(* nothing.                                                                *)
(***************************************************************************)
EXTENDS Naturals, Sequences, FiniteSets, SequencesExt

CONSTANTS
  Id,         \* the run, or evaluation, that is exported
  Jobs,       \* what may be exported: mode, whether the run's task is skill:ab, the
              \* rows that may be written, the files; None: no run directory
  Own,        \* rows the importing host may have of its own
  Importer,   \* imports of the bundle, in any order and at once
  MaxFaults,  \* failing steps and crashes in a behaviour
  None

Row == (UNION {j.rows : j \in Jobs}) \cup Own
Key(r) == <<r.t, r.id>>
Keys(R) == {Key(r) : r \in R}

\* In the order in which they are read and inserted.
RunTables == <<"runs", "events", "artifacts", "tool_calls", "scores", "judge_runs",
               "refine_runs", "evidence", "row_evidence">>
EvalTables == <<"eval_runs", "eval_cases", "promotions", "experiments", "comparisons",
                "canary_runs", "suggest_runs">>
Table == Range(RunTables) \cup Range(EvalTables)

\* FOREIGN KEY clauses of the schema: to what tables a row of a table refers.
RunParents(t) ==
  CASE t = "runs" -> {}
    [] t = "row_evidence" -> {"runs", "evidence"}
    [] OTHER -> {"runs"}
EvalParents(t) ==
  CASE t = "eval_runs" -> {}
    [] t = "comparisons" -> {"experiments"}
    [] OTHER -> {"eval_runs"}
Parents(t) == IF t \in Range(RunTables) THEN RunParents(t) ELSE EvalParents(t)

\* Tables whose primary key is in the bundle.  The others number their rows themselves.
Keyed == {"runs", "refine_runs", "evidence", "row_evidence", "promotions", "experiments",
          "canary_runs", "suggest_runs"}

\* Files of a run directory, and what a manifest or a stage lists.
File == UNION {j.files : j \in {k \in Jobs : k.files # None}}
Content == [rows : SUBSET Row, files : SUBSET File]

ASSUME ExchangeAssumption ==
  /\ \A r \in Row : r.t \in Table /\ r.up \subseteq {<<t, i>> : t \in Parents(r.t), i \in {x.id : x \in Row}}
  /\ \A j \in Jobs : j.mode \in {"run", "eval"} /\ j.ab \in BOOLEAN
  /\ MaxFaults \in Nat
  \* Ids of evaluations are made from the time: one id is one row, on every host.
  /\ \A r, s \in Row : r.t = "eval_runs" /\ Key(r) = Key(s) => r = s
  \* The null value is no file, no bundle and no directory.
  /\ None \notin File \cup Content \cup [stage : Content, manifest : Content]
  /\ \A F \in SUBSET File : None \notin [F -> {"torn", "whole"}]

\* The rows of one host, by the schema and by the code that writes them: a primary key is
\* one row; a row refers to at most one, but a canary to two evaluations, and a line of a
\* mapper's table to its run and to evidence of the same run (mapper.go:124-138); evidence
\* and a comparison do refer to one.  A run that is not an A/B run shares its id with no
\* evaluation.
ASSUME SchemaAssumption ==
  \A j \in Jobs :
    /\ \A r, s \in j.rows : Key(r) = Key(s) => r = s
    /\ \A r \in j.rows :
         /\ r.t \notin {"canary_runs", "row_evidence"} => \A k, l \in r.up : k = l
         /\ r.t \in {"evidence", "comparisons"} => r.up # {}
         /\ r.t = "row_evidence" =>
              /\ \A k, l \in r.up : k[1] = l[1] => k = l
              /\ \A e \in j.rows : Key(e) \in r.up => e.up \subseteq r.up
    /\ j.mode = "run" /\ ~j.ab => <<"eval_runs", Id>> \notin Keys(j.rows)

VARIABLES
  job,      \* what is exported; never changes
  src,      \* rows of the exporting host
  quiet,    \* no row has been written since the export has begun
  pcx,      \* where the export is: "idle", "reading", "staged", "failed" or "sealed"
  todo,     \* tables still to be read
  got,      \* rows read
  bundle,   \* the file: rows, files, and the manifest that was sealed with them
  held,     \* how often the importing host holds each row
  dir,      \* its run directory: files, "torn" or "whole"
  at,       \* where each import is
  opened,   \* the file each import is copying
  left,     \* files each import has yet to copy
  faults    \* failing steps so far

source == <<job, src, quiet>>
exporter == <<pcx, todo, got>>
host == <<held, dir>>
imports == <<at, opened, left>>
vars == <<source, exporter, bundle, host, imports, faults>>

Holds(h) == {r \in Row : h[r] > 0}
Whole == "whole"
NoDir == [f \in {} |-> Whole]

Init ==
  /\ job \in Jobs
  /\ src = {} /\ quiet = TRUE /\ pcx = "idle" /\ todo = <<>> /\ got = {}
  /\ bundle = None
  /\ \E R \in SUBSET Own :
       /\ \A r \in R : r.up \subseteq Keys(R)
       /\ held = [r \in Row |-> IF r \in R THEN 1 ELSE 0]
  /\ dir = None
  /\ at = [i \in Importer |-> "idle"] /\ opened = [i \in Importer |-> None]
  /\ left = [i \in Importer |-> {}]
  /\ faults = 0

Fault == faults < MaxFaults /\ faults' = faults + 1

(***************************************************************************)
(* The exporting host                                                      *)
(***************************************************************************)
\* An insert by the command that owns the run, by an A/B run, a promotion, a canary: the
\* rows a row refers to are there, or SQLite refuses it.  What is written after the last
\* table is read reaches no bundle, and is left out.
Write(r) ==
  /\ pcx \in {"idle", "reading"}
  /\ r \in job.rows \ src /\ r.up \subseteq Keys(src)
  /\ src' = src \cup {r}
  /\ quiet' = (quiet /\ pcx = "idle")
  /\ UNCHANGED <<job, exporter, bundle, host, imports, faults>>

Tables == IF job.mode = "eval" THEN EvalTables
          ELSE IF job.ab THEN RunTables \o EvalTables ELSE RunTables

\* A run must have its directory and its row.  The tree is copied before the tables are
\* read.
BeginRunExport ==
  /\ pcx = "idle" /\ job.mode = "run"
  /\ pcx' = IF job.files # None /\ <<"runs", Id>> \in Keys(src) THEN "reading" ELSE "failed"
  /\ todo' = Tables
  /\ UNCHANGED <<source, got, bundle, host, imports, faults>>

\* An evaluation need have neither.
BeginEvalExport ==
  /\ pcx = "idle" /\ job.mode = "eval"
  /\ pcx' = "reading"
  /\ todo' = Tables
  /\ UNCHANGED <<source, got, bundle, host, imports, faults>>

Of(R, t, k) == {r \in R : r.t = t /\ k \in r.up}

\* The query of one table.  An evaluation takes along the curated evaluations that its
\* canaries name, without their cases.
NoCurated(R) == {}
Curated(R) == UNION {r.up : r \in Of(R, "canary_runs", <<"eval_runs", Id>>)}
Selected(R, t) ==
  CASE t = "runs" -> {r \in R : Key(r) = <<"runs", Id>>}
    [] t = "eval_runs" -> {r \in R : Key(r) \in {<<"eval_runs", Id>>} \cup Curated(R) /\ r.t = t}
    [] t = "comparisons" ->
         {r \in R : r.t = t /\ r.up \subseteq Keys(Of(R, "experiments", <<"eval_runs", Id>>))}
    [] OTHER -> Of(R, t, IF t \in Range(RunTables) THEN <<"runs", Id>> ELSE <<"eval_runs", Id>>)

ReadTable ==
  /\ pcx = "reading" /\ todo # <<>>
  /\ got' = got \cup Selected(src, Head(todo))
  /\ todo' = Tail(todo)
  /\ pcx' = IF Len(todo) = 1 THEN "staged" ELSE pcx
  /\ UNCHANGED <<source, bundle, host, imports, faults>>

\* The manifest is built from the stage, the stage is packed.  Errors of the tar writer's
\* deferred Close are dropped: a full disk seals a bundle that lacks its tail, which is the
\* run directory.
Staged == [rows |-> got, files |-> IF job.files = None THEN {} ELSE job.files]
Seal ==
  /\ pcx = "staged"
  /\ \/ bundle' = [stage |-> Staged, manifest |-> Staged] /\ UNCHANGED faults
     \/ Fault /\ \E F \in SUBSET Staged.files :
          F # Staged.files /\ bundle' = [stage |-> [Staged EXCEPT !.files = F], manifest |-> Staged]
  /\ pcx' = "sealed"
  /\ UNCHANGED <<source, todo, got, host, imports>>

ExportFails ==
  /\ pcx \in {"reading", "staged"} /\ Fault
  /\ pcx' = "failed"
  /\ UNCHANGED <<source, todo, got, bundle, host, imports>>

\* The file loses rows on its way to the other host.
Damage ==
  /\ bundle # None /\ \A i \in Importer : at[i] = "idle"
  /\ Fault
  /\ \E r \in bundle.stage.rows : bundle' = [bundle EXCEPT !.stage.rows = @ \ {r}]
  /\ UNCHANGED <<source, exporter, host, imports>>

(***************************************************************************)
(* The importing host                                                      *)
(***************************************************************************)
Goto(i, s) == at' = [at EXCEPT ![i] = s]

\* Unpack into a directory of its own and compare with the manifest.
Trusted == TRUE
Verified == bundle.manifest = bundle.stage

Extract(i) ==
  /\ at[i] = "idle" /\ bundle # None
  /\ Goto(i, IF ~Verified THEN "refused" ELSE IF job.mode = "run" THEN "check" ELSE "insert")
  /\ UNCHANGED <<source, exporter, bundle, host, opened, left, faults>>

\* Run mode only: before the transaction.
CheckDir(i) ==
  /\ at[i] = "check"
  /\ Goto(i, IF dir # None THEN "refused" ELSE "insert")
  /\ UNCHANGED <<source, exporter, bundle, host, opened, left, faults>>

\* The transaction.  Tables are in an order that has parents first, so a row is refused
\* exactly if what it refers to is neither there nor in the bundle.
NotOneRun(R) == job.mode = "run" /\ Cardinality({r \in R : r.t = "runs"}) # 1
NoRunsKey(R) == \E r \in R : r.t \in Keyed \ {"runs"} /\ Key(r) \in Keys(Holds(held))
Clash(R) == \E r \in R : r.t \in Keyed /\ Key(r) \in Keys(Holds(held))
Dangling(R) == \E r \in R : ~(r.up \subseteq Keys(Holds(held) \cup R))
Skipped(r) == r.t = "eval_runs" /\ Key(r) \in Keys(Holds(held))
Inserted(R) == [r \in Row |-> IF r \in R /\ ~Skipped(r) THEN held[r] + 1 ELSE held[r]]

Insert(i) ==
  /\ at[i] = "insert"
  /\ LET R == bundle.stage.rows IN
       IF NotOneRun(R) \/ Clash(R) \/ Dangling(R)
       THEN Goto(i, "refused") /\ UNCHANGED held
       ELSE /\ held' = Inserted(R)
            /\ Goto(i, IF job.mode = "run" THEN "mkdir" ELSE "look")
  /\ UNCHANGED <<source, exporter, bundle, dir, opened, left, faults>>

\* Evaluation mode only: after the transaction, and an existing directory is kept as it is.
\* A bundle without a run directory has nothing to copy.
Look(i) ==
  /\ at[i] = "look"
  /\ Goto(i, IF dir # None \/ job.files = None THEN "ok" ELSE "mkdir")
  /\ UNCHANGED <<source, exporter, bundle, host, opened, left, faults>>

\* copyTree: the directory, then each file, which is truncated and then written.
MakeDir(i) ==
  /\ at[i] = "mkdir"
  /\ dir' = IF dir = None THEN NoDir ELSE dir
  /\ left' = [left EXCEPT ![i] = bundle.stage.files]
  /\ Goto(i, "copy")
  /\ UNCHANGED <<source, exporter, bundle, held, opened, faults>>

OpenFile(i) ==
  /\ at[i] = "copy" /\ opened[i] = None
  /\ \E f \in left[i] :
       /\ opened' = [opened EXCEPT ![i] = f]
       /\ dir' = [g \in DOMAIN dir \cup {f} |-> IF g = f THEN "torn" ELSE dir[g]]
  /\ UNCHANGED <<source, exporter, bundle, held, at, left, faults>>

FillFile(i) ==
  /\ at[i] = "copy" /\ opened[i] # None
  /\ dir' = [dir EXCEPT ![opened[i]] = Whole]
  /\ left' = [left EXCEPT ![i] = @ \ {opened[i]}]
  /\ opened' = [opened EXCEPT ![i] = None]
  /\ UNCHANGED <<source, exporter, bundle, held, at, faults>>

Finish(i) ==
  /\ at[i] = "copy" /\ opened[i] = None /\ left[i] = {}
  /\ Goto(i, "ok")
  /\ UNCHANGED <<source, exporter, bundle, host, opened, left, faults>>

\* An error, or the end of the process: what is committed and copied stays, what is not
\* committed is rolled back.
Break(i) ==
  /\ at[i] \in {"check", "insert", "look", "mkdir", "copy"} /\ Fault
  /\ Goto(i, "broken")
  /\ UNCHANGED <<source, exporter, bundle, host, opened, left>>

Over(i) == at[i] \in {"ok", "refused", "broken"}

Done ==
  /\ pcx = "failed" \/ (pcx = "sealed" /\ \A i \in Importer : Over(i))
  /\ UNCHANGED vars

ImportStep(i) ==
  \/ Extract(i) \/ CheckDir(i) \/ Insert(i) \/ Look(i)
  \/ MakeDir(i) \/ OpenFile(i) \/ FillFile(i) \/ Finish(i)

Next ==
  \/ \E r \in Row : Write(r)
  \/ BeginRunExport \/ BeginEvalExport \/ ReadTable \/ Seal \/ ExportFails \/ Damage
  \/ \E i \in Importer : ImportStep(i) \/ Break(i)
  \/ Done

Spec == Init /\ [][Next]_vars

(***************************************************************************)
(* Properties                                                              *)
(***************************************************************************)
TypeOK ==
  /\ job \in Jobs /\ src \subseteq job.rows /\ quiet \in BOOLEAN
  /\ pcx \in {"idle", "reading", "staged", "failed", "sealed"}
  /\ todo \in Seq(Table) /\ got \subseteq src
  /\ bundle # None => /\ bundle \in [stage : Content, manifest : Content] /\ bundle.manifest = Staged
                      /\ bundle.stage.rows \subseteq got /\ bundle.stage.files \subseteq Staged.files
  /\ held \in [Row -> Nat]
  /\ dir # None => bundle # None /\ dir \in [DOMAIN dir -> {"torn", Whole}] /\ DOMAIN dir \subseteq Staged.files
  /\ at \in [Importer -> {"idle", "check", "insert", "look", "mkdir", "copy", "ok", "refused", "broken"}]
  /\ left \in [Importer -> SUBSET Staged.files] /\ opened \in [Importer -> Staged.files \cup {None}]
  /\ \A i \in Importer : opened[i] \in left[i] \cup {None}
  /\ faults \in 0 .. MaxFaults

\* The rows that are evidence of Id, by the schema's references and not by the export's
\* queries: what refers to it, what refers to that, and what any of these refers to.
Root == IF job.mode = "eval" THEN {<<"eval_runs", Id>>} ELSE {<<"runs", Id>>, <<"eval_runs", Id>>}
Below(R, K) == {r \in R : Key(r) \in K \/ r.up \cap K # {}}
EvidenceOf(R) ==
  LET below == Below(R, Root \cup Keys(Below(R, Root)))
  IN  below \cup {r \in R : \E s \in below : Key(r) \in s.up}

\* What can keep a host from taking a bundle: a row with a key of the bundle's, its own
\* or of an import before this one.
Taken == \E r \in bundle.manifest.rows : r.t \in Keyed /\ Key(r) \in Keys(Holds(held))

\* The round trip: an export during which nothing is written has all the evidence of its
\* run or evaluation, what every import of it that nothing goes wrong with takes, unless
\* the keys are taken.  (The code: writeRunSnapshots and writeEvalSnapshots choose the
\* rows, importSnapshotsIntoStore the order, SQLite's foreign keys decide.)
RoundtripWorks ==
  quiet /\ bundle # None =>
    /\ bundle.manifest.rows = EvidenceOf(src)
    /\ faults = 0 => \A i \in Importer : at[i] = "refused" => Taken

\* The same of any export, also of one that meets a writer.
EveryExportImports ==
  bundle # None /\ faults = 0 => \A i \in Importer : at[i] = "refused" => Taken

\* An import that says it has succeeded has, whatever became of the imports before it and
\* beside it: all rows, and for a run every row of the run once and every file whole.  (The
\* code: the look at the directory, the primary key of runs, the copy after the commit.)
OkMeansBoth ==
  \A i \in Importer : at[i] = "ok" =>
    /\ bundle.manifest.rows \subseteq Holds(held)
    /\ job.mode = "run" =>
         /\ dir = [f \in bundle.manifest.files |-> Whole]
         /\ \A r \in bundle.manifest.rows : r.t \in Range(RunTables) => held[r] = 1

\* The same of the rows of an evaluation: nothing is there twice after an import.
RowsArriveOnce ==
  \A i \in Importer : at[i] = "ok" => \A r \in bundle.manifest.rows : held[r] = 1

\* The importing host sees an import as one step for the rows, and files only after it.
\* (The code: the transaction around every insert, and copyTree after its commit.)
A == INSTANCE AtomicImport WITH
       Known <- Row,
       Unique <- {r \in Row : r.t \in Keyed},
       Shared <- {r \in Row : r.t = "eval_runs"},
       sealed <- IF bundle = None THEN None ELSE bundle.manifest,
       rows <- held
ImportIsAtomic == A!Spec
=============================================================================
