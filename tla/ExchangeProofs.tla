--------------------------- MODULE ExchangeProofs ---------------------------
(***************************************************************************)
(* For any jobs, any rows of the importing host, any importers and any     *)
(* number of faults: an import is one step for the rows, and files follow. *)
(***************************************************************************)
EXTENDS Exchange, FiniteSetTheorems, SequenceTheorems, TLAPS

\* The bundle exists when the export has sealed it, and not before.
Sealed == bundle # None <=> pcx = "sealed"

\* An import that has gone past its first look has a bundle that agrees with its manifest.
Checked == \A i \in Importer : at[i] \notin {"idle", "refused"} => bundle # None /\ Verified

\* What an import has committed stays: rows are only added.
Committed ==
  \A i \in Importer :
    at[i] \in {"look", "mkdir", "copy", "ok"} => bundle.manifest.rows \subseteq Holds(held)

\* A copy has its directory, and the file it is writing has its name there.
Copying ==
  \A i \in Importer :
    /\ at[i] = "copy" => dir # None /\ (opened[i] # None => opened[i] \in DOMAIN dir)
    /\ at[i] \notin {"copy", "broken"} => opened[i] = None

IInv == TypeOK /\ Sealed /\ Checked /\ Committed /\ Copying

(***************************************************************************)
(* Lemmas about the operators                                              *)
(***************************************************************************)
LEMMA TablesAreTables == Tables \in Seq(Table)
<1>1. RunTables \in Seq(Table)
  BY DEF RunTables, Table, Range
<1>2. EvalTables \in Seq(Table)
  BY DEF EvalTables, Table, Range
<1> QED
  BY <1>1, <1>2 DEF Tables

LEMMA JobRows == ASSUME job \in Jobs PROVE job.rows \subseteq Row
BY DEF Row

LEMMA SelectedFromSource ==
  ASSUME NEW R, NEW t PROVE Selected(R, t) \subseteq R
BY DEF Selected, Of

LEMMA StagedIsContent ==
  ASSUME job \in Jobs, got \subseteq Row PROVE Staged \in Content /\ Staged.files \subseteq File
<1>1. job.files # None => job.files \subseteq File
  BY DEF File
<1>2. (IF job.files = None THEN {} ELSE job.files) \in SUBSET File
  BY <1>1
<1> QED
  BY <1>2 DEF Staged, Content

\* The transaction adds each row it does not skip once, and skips only rows that are there.
LEMMA InsertedRows ==
  ASSUME NEW R \in SUBSET Row, held \in [Row -> Nat]
  PROVE  /\ Inserted(R) \in [Row -> Nat]
         /\ Inserted(R) = [r \in Row |->
              IF r \in R /\ ~(r \in {x \in Row : x.t = "eval_runs"} /\ held[r] > 0)
              THEN held[r] + 1 ELSE held[r]]
         /\ R \subseteq Holds(Inserted(R))
         /\ Holds(held) \subseteq Holds(Inserted(R))
<1>1. ASSUME NEW r \in Row PROVE Skipped(r) <=> r.t = "eval_runs" /\ held[r] > 0
  <2>1. ASSUME Skipped(r) PROVE held[r] > 0
    <3>1. PICK s \in Holds(held) : Key(r) = Key(s)
      BY <2>1 DEF Skipped, Keys
    <3>2. s = r
      BY <2>1, <3>1, ExchangeAssumption DEF Skipped, Holds
    <3> QED
      BY <3>1, <3>2 DEF Holds
  <2>2. ASSUME held[r] > 0 PROVE Key(r) \in Keys(Holds(held))
    BY <2>2 DEF Keys, Holds
  <2> QED
    BY <2>1, <2>2 DEF Skipped
<1>2. Inserted(R) = [r \in Row |->
        IF r \in R /\ ~(r.t = "eval_runs" /\ held[r] > 0) THEN held[r] + 1 ELSE held[r]]
  BY <1>1 DEF Inserted
<1>3. Inserted(R) \in [Row -> Nat]
  BY <1>2
<1>4. \A r \in Row : held[r] > 0 => Inserted(R)[r] > 0
  BY <1>2
<1>5. \A r \in R : Inserted(R)[r] > 0
  BY <1>2
<1> QED
  BY <1>2, <1>3, <1>4, <1>5 DEF Holds

\* A row whose key the host has not is a row it does not hold.
LEMMA NoClash ==
  ASSUME NEW R \in SUBSET Row, ~Clash(R), held \in [Row -> Nat]
  PROVE  \A r \in R : r.t \in Keyed => held[r] = 0
<1> SUFFICES ASSUME NEW r \in R, r.t \in Keyed, held[r] # 0 PROVE FALSE
  OBVIOUS
<1>1. r \in Holds(held)
  BY DEF Holds
<1>2. Key(r) \in Keys(Holds(held))
  BY <1>1 DEF Keys
<1> QED
  BY <1>2 DEF Clash

(***************************************************************************)
(* The invariant                                                           *)
(***************************************************************************)
LEMMA InitIInv == Init => IInv
<1> SUFFICES ASSUME Init PROVE IInv
  OBVIOUS
<1>1. held \in [Row -> Nat]
  BY DEF Init
<1>2. TypeOK
  BY <1>1, ExchangeAssumption DEF Init, TypeOK
<1> QED
  BY <1>2 DEF Init, IInv, Sealed, Checked, Committed, Copying

\* The exporting host leaves the imports and the importing host alone.
LEMMA WriteKeeps == ASSUME IInv, NEW r \in Row, Write(r) PROVE IInv'
<1>1. TypeOK'
  BY DEF IInv, TypeOK, Write, exporter, host, imports, Staged
<1> QED
  BY <1>1 DEF IInv, Write, exporter, host, imports, Sealed, Checked, Verified, Committed, Copying

LEMMA BeginKeeps == ASSUME IInv, BeginRunExport \/ BeginEvalExport PROVE IInv'
<1>1. UNCHANGED <<source, got, bundle, host, imports, faults>> /\ pcx = "idle"
      /\ pcx' \in {"reading", "failed"} /\ todo' = Tables
  BY DEF BeginRunExport, BeginEvalExport
<1>2. TypeOK'
  BY <1>1, TablesAreTables DEF IInv, TypeOK, source, host, imports, Staged
<1> QED
  BY <1>1, <1>2 DEF IInv, host, imports, Sealed, Checked, Verified, Committed, Copying

LEMMA ReadKeeps == ASSUME IInv, ReadTable PROVE IInv'
<1>1. bundle = None
  BY DEF IInv, Sealed, ReadTable
<1>2. got' \subseteq src
  BY SelectedFromSource DEF IInv, TypeOK, ReadTable
<1>3. todo' \in Seq(Table)
  BY DEF IInv, TypeOK, ReadTable
<1>4. pcx' \in {"reading", "staged"}
  BY DEF ReadTable
<1>5. TypeOK'
  BY <1>1, <1>2, <1>3, <1>4 DEF IInv, TypeOK, ReadTable, source, host, imports, Staged
<1> QED
  BY <1>1, <1>4, <1>5 DEF IInv, ReadTable, host, imports, Sealed, Checked, Verified, Committed, Copying

LEMMA SealKeeps == ASSUME IInv, Seal PROVE IInv'
<1>1. bundle = None /\ job \in Jobs /\ got \subseteq Row
  BY JobRows DEF IInv, Sealed, Seal, TypeOK
<1>2. Staged \in Content /\ Staged' = Staged
  BY <1>1, StagedIsContent DEF Seal, Staged, source
<1>3. \A i \in Importer : at[i] \in {"idle", "refused"}
  BY <1>1 DEF IInv, Checked
<1>4. PICK F \in SUBSET Staged.files : bundle' = [stage |-> [Staged EXCEPT !.files = F], manifest |-> Staged]
  <2>1. Staged = [Staged EXCEPT !.files = Staged.files]
    BY <1>2 DEF Content
  <2> QED
    BY <2>1 DEF Seal
<1>5. [Staged EXCEPT !.files = F] = [rows |-> got, files |-> F]
  BY DEF Staged
<1>6. bundle' \in [stage : Content, manifest : Content] /\ bundle'.manifest = Staged
      /\ bundle'.stage.rows = got /\ bundle'.stage.files = F
  BY <1>1, <1>2, <1>4, <1>5 DEF Content
<1>7. bundle' # None
  BY <1>6, ExchangeAssumption
<1>8. faults' \in 0 .. MaxFaults
  BY ExchangeAssumption DEF IInv, TypeOK, Seal, Fault
<1>9. TypeOK'
  BY <1>1, <1>2, <1>6, <1>8 DEF IInv, TypeOK, Seal, source, host, imports
<1> QED
  BY <1>3, <1>7, <1>9 DEF IInv, Seal, host, imports, Sealed, Checked, Committed, Copying

LEMMA ExportFailsKeeps == ASSUME IInv, ExportFails PROVE IInv'
<1>1. faults' \in 0 .. MaxFaults
  BY ExchangeAssumption DEF IInv, TypeOK, ExportFails, Fault
<1>2. TypeOK'
  BY <1>1 DEF IInv, TypeOK, ExportFails, source, host, imports, Staged
<1> QED
  BY <1>2 DEF IInv, ExportFails, host, imports, Sealed, Checked, Verified, Committed, Copying

\* A bundle is damaged only before anybody has looked at it.
LEMMA DamageKeeps == ASSUME IInv, Damage PROVE IInv'
<1>1. PICK r \in bundle.stage.rows : bundle' = [bundle EXCEPT !.stage.rows = @ \ {r}]
  BY DEF Damage
<1>2. bundle \in [stage : Content, manifest : Content]
  BY DEF IInv, TypeOK, Damage
<1>3. bundle' = [stage |-> [rows |-> bundle.stage.rows \ {r}, files |-> bundle.stage.files],
                 manifest |-> bundle.manifest]
  BY <1>1, <1>2 DEF Content
<1>4. bundle' \in [stage : Content, manifest : Content] /\ bundle'.manifest = bundle.manifest
      /\ bundle'.stage.rows \subseteq bundle.stage.rows /\ bundle'.stage.files = bundle.stage.files
  BY <1>2, <1>3 DEF Content
<1>5. bundle' # None
  BY <1>4, ExchangeAssumption
<1>6. faults' \in 0 .. MaxFaults
  BY ExchangeAssumption DEF IInv, TypeOK, Damage, Fault
<1>7. TypeOK'
  BY <1>4, <1>5, <1>6 DEF IInv, TypeOK, Damage, source, exporter, host, imports, Staged
<1> QED
  BY <1>5, <1>7 DEF IInv, Damage, exporter, host, imports, Sealed, Checked, Committed, Copying

\* Steps of an import that touch no row and no file.
LEMMA QuietStepKeeps ==
  ASSUME IInv, NEW i \in Importer,
         Extract(i) \/ CheckDir(i) \/ Look(i) \/ Finish(i) \/ Break(i)
  PROVE  IInv'
<1>1. UNCHANGED <<source, exporter, bundle, host, opened, left>>
  BY DEF Extract, CheckDir, Look, Finish, Break
<1>2. faults' \in 0 .. MaxFaults
  BY ExchangeAssumption DEF IInv, TypeOK, Extract, CheckDir, Look, Finish, Break, Fault
<1>3. /\ at' = [at EXCEPT ![i] = at'[i]]
      /\ at'[i] \in {"refused", "check", "insert", "ok", "mkdir", "broken"}
      /\ at'[i] # "refused" => bundle # None /\ Verified
      /\ at'[i] \in {"mkdir", "ok"} => at[i] \in {"look", "copy"}
      /\ at'[i] # "broken" => opened[i] = None
  BY DEF Extract, CheckDir, Look, Finish, Break, Goto, IInv, TypeOK, Checked, Copying
<1>4. TypeOK'
  <2>1. at' \in [Importer -> {"idle", "check", "insert", "look", "mkdir", "copy", "ok", "refused", "broken"}]
    BY <1>3 DEF IInv, TypeOK
  <2>2. Staged' = Staged
    BY <1>1 DEF Staged, source, exporter
  <2> QED
    BY <1>1, <1>2, <2>1, <2>2 DEF IInv, TypeOK, source, exporter, host
<1>5. Checked'
  BY <1>1, <1>3 DEF IInv, TypeOK, Checked, Verified
<1>6. Committed'
  BY <1>1, <1>3 DEF IInv, TypeOK, Committed, host, Holds
<1>7. Copying'
  BY <1>1, <1>3 DEF IInv, TypeOK, Copying, host
<1> QED
  BY <1>1, <1>4, <1>5, <1>6, <1>7 DEF IInv, Sealed, exporter

LEMMA InsertKeeps == ASSUME IInv, NEW i \in Importer, Insert(i) PROVE IInv'
<1> DEFINE R == bundle.stage.rows
<1>1. bundle # None /\ Verified /\ bundle \in [stage : Content, manifest : Content]
  BY DEF Insert, IInv, Checked, TypeOK
<1>2. R \in SUBSET Row /\ R = bundle.manifest.rows
  BY <1>1 DEF Verified, Content
<1>3. CASE NotOneRun(R) \/ Clash(R) \/ Dangling(R)
  <2>1. at[i] = "insert" /\ at' = [at EXCEPT ![i] = "refused"] /\ UNCHANGED <<source, exporter, bundle, host, opened, left, faults>>
    BY <1>3 DEF Insert, Goto, host
  <2>2. TypeOK'
    BY <2>1 DEF IInv, TypeOK, source, exporter, host, Staged
  <2> QED
    BY <2>1, <2>2 DEF IInv, TypeOK, Sealed, Checked, Verified, Committed, Copying, Holds, exporter, host
<1>4. CASE ~(NotOneRun(R) \/ Clash(R) \/ Dangling(R))
  <2>1. /\ held' = Inserted(R) /\ at[i] = "insert"
        /\ \E s \in {"mkdir", "look"} : at' = [at EXCEPT ![i] = s]
        /\ UNCHANGED <<source, exporter, bundle, dir, opened, left, faults>>
    BY <1>4 DEF Insert, Goto
  <2>2. held' \in [Row -> Nat] /\ R \subseteq Holds(held') /\ Holds(held) \subseteq Holds(held')
    BY <1>2, <2>1, InsertedRows DEF IInv, TypeOK
  <2>3. TypeOK'
    BY <2>1, <2>2 DEF IInv, TypeOK, source, exporter, Staged
  <2>4. Committed'
    BY <1>2, <2>1, <2>2 DEF IInv, TypeOK, Committed
  <2>5. Checked' /\ Copying' /\ Sealed'
    BY <1>1, <2>1 DEF IInv, TypeOK, Checked, Verified, Copying, Sealed, exporter
  <2> QED
    BY <2>3, <2>4, <2>5 DEF IInv
<1> QED
  BY <1>3, <1>4

LEMMA MakeDirKeeps == ASSUME IInv, NEW i \in Importer, MakeDir(i) PROVE IInv'
<1>1. bundle # None /\ Verified /\ bundle.stage.files \subseteq Staged.files
  BY DEF MakeDir, IInv, Checked, TypeOK
<1>2. dir' # None /\ dir' \in [DOMAIN dir' -> {"torn", Whole}] /\ DOMAIN dir' \subseteq Staged.files
  <2>1. CASE dir = None
    <3>1. dir' = NoDir /\ DOMAIN NoDir = {}
      BY <2>1 DEF MakeDir, NoDir
    <3>2. NoDir \in [{} -> {"torn", "whole"}]
      BY DEF NoDir, Whole
    <3>3. None \notin [{} -> {"torn", "whole"}]
      BY ExchangeAssumption
    <3>4. NoDir # None
      BY <3>2, <3>3
    <3> QED
      BY <3>1, <3>2, <3>4 DEF Whole
  <2> QED
    BY <2>1 DEF MakeDir, IInv, TypeOK
<1>3. dir # None => dir' = dir
  BY DEF MakeDir
<1>4. TypeOK'
  BY <1>1, <1>2 DEF IInv, TypeOK, Copying, MakeDir, Goto, source, exporter, Staged
<1>5. Checked' /\ Sealed'
  BY <1>1 DEF IInv, TypeOK, MakeDir, Goto, Checked, Verified, Sealed, exporter
<1>6. Committed'
  BY DEF IInv, TypeOK, MakeDir, Goto, Committed, Holds
<1>7. Copying'
  BY <1>2, <1>3 DEF IInv, TypeOK, MakeDir, Goto, Copying
<1> QED
  BY <1>4, <1>5, <1>6, <1>7 DEF IInv

LEMMA OpenFileKeeps == ASSUME IInv, NEW i \in Importer, OpenFile(i) PROVE IInv'
<1>1. PICK f \in left[i] : opened' = [opened EXCEPT ![i] = f]
                          /\ dir' = [g \in DOMAIN dir \cup {f} |-> IF g = f THEN "torn" ELSE dir[g]]
  BY DEF OpenFile
<1>2. dir # None /\ f \in Staged.files /\ bundle # None
  BY DEF OpenFile, IInv, TypeOK, Copying
<1>3. DOMAIN dir' = DOMAIN dir \cup {f} /\ DOMAIN dir' \subseteq Staged.files
      /\ dir' \in [DOMAIN dir' -> {"torn", Whole}]
  BY <1>1, <1>2 DEF IInv, TypeOK
<1>4. Staged.files \subseteq File
  BY JobRows, StagedIsContent DEF IInv, TypeOK
<1>5. dir' # None
  BY <1>3, <1>4, ExchangeAssumption DEF Whole
<1>6. TypeOK'
  BY <1>1, <1>2, <1>3 DEF IInv, TypeOK, OpenFile, source, exporter, Staged
<1>7. Copying'
  BY <1>1, <1>3, <1>5 DEF IInv, TypeOK, OpenFile, Copying
<1> QED
  BY <1>6, <1>7 DEF IInv, OpenFile, Sealed, Checked, Verified, Committed, Holds, exporter

LEMMA FillFileKeeps == ASSUME IInv, NEW i \in Importer, FillFile(i) PROVE IInv'
<1>1. dir # None /\ DOMAIN dir' = DOMAIN dir /\ dir' \in [DOMAIN dir -> {"torn", Whole}]
  BY DEF FillFile, IInv, TypeOK, Copying
<1>2. DOMAIN dir \subseteq File
  BY <1>1, JobRows, StagedIsContent DEF IInv, TypeOK
<1>3. dir' # None
  BY <1>1, <1>2, ExchangeAssumption DEF Whole
<1>4. TypeOK'
  BY <1>1 DEF IInv, TypeOK, FillFile, source, exporter, Staged
<1>5. Copying'
  BY <1>1, <1>3 DEF IInv, TypeOK, FillFile, Copying
<1> QED
  BY <1>4, <1>5 DEF IInv, FillFile, Sealed, Checked, Verified, Committed, Holds, exporter

LEMMA NextIInv == IInv /\ [Next]_vars => IInv'
<1> SUFFICES ASSUME IInv, [Next]_vars PROVE IInv'
  OBVIOUS
<1>1. CASE Done \/ UNCHANGED vars
  BY <1>1 DEF Done, vars, source, exporter, host, imports, IInv, TypeOK, Staged, Sealed, Checked,
              Verified, Committed, Holds, Copying
<1>2. ASSUME NEW i \in Importer, ImportStep(i) \/ Break(i) PROVE IInv'
  BY <1>2, QuietStepKeeps, InsertKeeps, MakeDirKeeps, OpenFileKeeps, FillFileKeeps DEF ImportStep
<1> QED
  BY <1>1, <1>2, WriteKeeps, BeginKeeps, ReadKeeps, SealKeeps, ExportFailsKeeps, DamageKeeps DEF Next

LEMMA SpecIInv == Spec => []IInv
BY InitIInv, NextIInv, PTL DEF Spec

\* Every variable keeps its type; in particular a bundle's manifest is what was staged, and
\* the run directory has no file that the bundle did not bring (export_import.go:449-489,
\* 952-1002).
THEOREM TypeCorrect == Spec => []TypeOK
<1>1. IInv => TypeOK
  BY DEF IInv
<1> QED
  BY <1>1, SpecIInv, PTL

(***************************************************************************)
(* The refinement                                                          *)
(***************************************************************************)
LEMMA InitIsAtomicInit == Init => A!Init
BY DEF Init, A!Init

LEMMA InsertIsAtomic ==
  ASSUME IInv, NEW i \in Importer, Insert(i) PROVE A!Import \/ UNCHANGED A!vars
<1> DEFINE R == bundle.stage.rows
<1>1. bundle # None /\ Verified /\ bundle \in [stage : Content, manifest : Content]
  BY DEF Insert, IInv, Checked, TypeOK
<1>2. R \in SUBSET Row /\ bundle.manifest.rows = R
  BY <1>1 DEF Verified, Content
<1>3. CASE NotOneRun(R) \/ Clash(R) \/ Dangling(R)
  BY <1>3 DEF Insert, A!vars
<1>4. CASE ~(NotOneRun(R) \/ Clash(R) \/ Dangling(R))
  <2>1. held' = Inserted(R) /\ UNCHANGED <<bundle, dir>>
    BY <1>4 DEF Insert
  <2>2. \A r \in R \cap {x \in Row : x.t \in Keyed} : held[r] = 0
    BY <1>2, <1>4, NoClash DEF IInv, TypeOK
  <2>3. held' = [r \in Row |->
          IF r \in R /\ ~(r \in {x \in Row : x.t = "eval_runs"} /\ held[r] > 0)
          THEN held[r] + 1 ELSE held[r]]
    BY <1>2, <2>1, InsertedRows DEF IInv, TypeOK
  <2>4. A!Import
    BY <1>1, <1>2, <2>1, <2>2, <2>3, ExchangeAssumption DEF A!Import, Content
  <2> QED
    BY <2>4
<1> QED
  BY <1>3, <1>4

\* A step of the copy: the rows are there, and the directory grows within the bundle.
LEMMA CopyIsAtomic ==
  ASSUME IInv, IInv', NEW i \in Importer, MakeDir(i) \/ OpenFile(i) \/ FillFile(i)
  PROVE  A!Copy
<1>1. bundle # None /\ bundle \in [stage : Content, manifest : Content] /\ UNCHANGED <<bundle, held>>
      /\ bundle.manifest = Staged
  BY DEF IInv, Checked, TypeOK, MakeDir, OpenFile, FillFile
<1>2. \A r \in bundle.manifest.rows : held[r] > 0
  BY DEF IInv, Committed, Holds, MakeDir, OpenFile, FillFile
<1>3. dir' # None
  BY <1>1 DEF IInv, Copying, MakeDir, OpenFile, FillFile, Goto, TypeOK
<1>4. DOMAIN dir' \subseteq bundle.manifest.files
  BY <1>1, <1>3 DEF IInv, TypeOK
<1>5. dir = None \/ DOMAIN dir \subseteq DOMAIN dir'
  BY DEF MakeDir, OpenFile, FillFile
<1>6. bundle.manifest # None
  BY <1>1, ExchangeAssumption
<1> QED
  BY <1>1, <1>2, <1>3, <1>4, <1>5, <1>6 DEF A!Copy

LEMMA SealIsAtomic == ASSUME IInv, Seal PROVE A!Seal
<1>1. bundle = None /\ Staged \in Content
  BY JobRows, StagedIsContent DEF IInv, Sealed, Seal, TypeOK
<1>2. bundle' # None /\ bundle'.manifest = Staged
  <2>1. IInv'
    BY SealKeeps
  <2>2. pcx' = "sealed" /\ Staged' = Staged
    BY DEF Seal, Staged, source
  <2> QED
    BY <2>1, <2>2 DEF IInv, Sealed, TypeOK
<1>3. Staged # None /\ Staged.rows \subseteq Row
  BY <1>1, ExchangeAssumption DEF Content
<1> QED
  BY <1>1, <1>2, <1>3 DEF A!Seal, Seal, host

LEMMA NextIsAtomicNext == IInv /\ [Next]_vars => [A!Next]_(A!vars)
<1> SUFFICES ASSUME IInv, [Next]_vars PROVE A!Next \/ UNCHANGED A!vars
  OBVIOUS
<1>1. CASE Seal
  BY <1>1, SealIsAtomic DEF A!Next
<1>2. CASE Damage
  <2>1. PICK r \in bundle.stage.rows : bundle' = [bundle EXCEPT !.stage.rows = @ \ {r}]
    BY <1>2 DEF Damage
  <2>2. bundle # None /\ bundle \in [stage : Content, manifest : Content] /\ UNCHANGED host
    BY <1>2 DEF Damage, IInv, TypeOK
  <2>3. bundle'.manifest = bundle.manifest
    BY <2>1, <2>2
  <2>4. bundle' # None
    BY <1>2, DamageKeeps DEF IInv, Sealed, Damage, exporter
  <2> QED
    BY <2>2, <2>3, <2>4 DEF A!vars, host
<1>3. ASSUME NEW i \in Importer, Insert(i) PROVE A!Next \/ UNCHANGED A!vars
  BY <1>3, InsertIsAtomic DEF A!Next
<1>4. ASSUME NEW i \in Importer, MakeDir(i) \/ OpenFile(i) \/ FillFile(i) PROVE A!Next
  <2>1. IInv'
    BY <1>4, NextIInv DEF Next, ImportStep
  <2> QED
    BY <1>4, <2>1, CopyIsAtomic DEF A!Next
<1>5. CASE \/ \E r \in Row : Write(r)
           \/ BeginRunExport \/ BeginEvalExport \/ ReadTable \/ ExportFails
           \/ \E i \in Importer : Extract(i) \/ CheckDir(i) \/ Look(i) \/ Finish(i) \/ Break(i)
           \/ Done \/ UNCHANGED vars
  <2>1. UNCHANGED <<bundle, host>>
    BY <1>5 DEF Write, BeginRunExport, BeginEvalExport, ReadTable, ExportFails, Extract, CheckDir,
                Look, Finish, Break, Done, vars
  <2> QED
    BY <2>1 DEF A!vars, host
<1> QED
  BY <1>1, <1>2, <1>3, <1>4, <1>5 DEF Next, ImportStep

\* For any bundle, any host, any number of imports at once and of faults: the host sees the
\* rows of an import arrive in one step, a keyed row only once, and files only after the
\* rows (export_import.go:687-941: one transaction; :952-1002: the copy).
THEOREM ImportRefinement == Spec => ImportIsAtomic
BY InitIsAtomicInit, NextIsAtomicNext, SpecIInv, PTL DEF Spec, A!Spec, ImportIsAtomic

(***************************************************************************)
(* What a success means                                                    *)
(***************************************************************************)
RunKey == <<"runs", Id>>
RunHeld == RunKey \in Keys(Holds(held))
Past == {"mkdir", "copy", "ok"}

\* SQLite holds no row without what it refers to.
Closed == \A r \in Holds(held) : r.up \subseteq Keys(Holds(held))

\* Of the tables of a run the export takes the run's own row, and what refers to it.
OfTheRun ==
  \A r \in got : r.t \in Range(RunTables) =>
    Key(r) = RunKey \/ (r.t # "runs" /\ RunKey \in r.up)

\* What a copy has got to: the files it has no longer to copy are whole, and nothing else is
\* there but the one that is open.
Partly(i) ==
  /\ DOMAIN dir = (bundle.manifest.files \ left[i]) \cup ({opened[i]} \ {None})
  /\ \A f \in bundle.manifest.files \ left[i] : dir[f] = Whole

\* In run mode the primary key of runs lets one import through, and the directory is its own.
OneRun ==
  job.mode = "run" =>
    /\ dir # None => RunHeld
    /\ \A i \in Importer :
         /\ at[i] # "look"
         /\ at[i] \in Past =>
              /\ RunHeld
              /\ \A j \in Importer : at[j] \in Past => j = i
              /\ \A r \in bundle.manifest.rows : r.t \in Range(RunTables) => held[r] = 1
         /\ at[i] = "mkdir" => dir = None
         /\ at[i] = "copy" => Partly(i)
         /\ at[i] = "ok" => dir = [f \in bundle.manifest.files |-> Whole]

JInv == IInv /\ Closed /\ OfTheRun /\ OneRun

LEMMA RunTableNames ==
  /\ "runs" \in Range(RunTables)
  /\ \A t \in {"eval_runs", "comparisons"} : t \notin Range(RunTables)
<1>1. RunTables[1] = "runs" /\ 1 \in DOMAIN RunTables
  BY DEF RunTables
<1>2. DOMAIN RunTables = 1 .. 9
  BY DEF RunTables
<1>3. \A k \in 1 .. 9 : RunTables[k] \notin {"eval_runs", "comparisons"}
  BY DEF RunTables
<1> QED
  BY <1>1, <1>2, <1>3 DEF Range

LEMMA SelectedOfTheRun ==
  ASSUME NEW R, NEW t, NEW r \in Selected(R, t), r.t \in Range(RunTables)
  PROVE  Key(r) = RunKey \/ (r.t # "runs" /\ RunKey \in r.up)
<1>1. CASE t = "runs"
  BY <1>1 DEF Selected, RunKey
<1>2. CASE t \in {"eval_runs", "comparisons"}
  BY <1>2, RunTableNames DEF Selected
<1>3. CASE t \notin {"runs", "eval_runs", "comparisons"}
  <2>1. r \in Of(R, t, IF t \in Range(RunTables) THEN <<"runs", Id>> ELSE <<"eval_runs", Id>>)
    BY <1>3 DEF Selected
  <2>2. r.t = t
    BY <2>1 DEF Of
  <2> QED
    BY <1>3, <2>1, <2>2 DEF Of, RunKey
<1> QED
  BY <1>1, <1>2, <1>3

LEMMA InitJInv == Init => JInv
<1> SUFFICES ASSUME Init PROVE JInv
  OBVIOUS
<1>1. IInv
  BY InitIInv
<1>2. Closed
  <2>1. PICK R \in SUBSET Own : /\ \A r \in R : r.up \subseteq Keys(R)
                               /\ held = [r \in Row |-> IF r \in R THEN 1 ELSE 0]
    BY DEF Init
  <2>2. R \subseteq Row
    BY DEF Row
  <2>3. Holds(held) = R
    BY <2>1, <2>2 DEF Holds
  <2> QED
    BY <2>1, <2>3 DEF Closed
<1>3. OfTheRun /\ OneRun
  BY DEF Init, OfTheRun, OneRun, Past
<1> QED
  BY <1>1, <1>2, <1>3 DEF JInv

\* Only the transaction changes the rows; only the copy changes the files.
LEMMA ExportKeepsRun ==
  ASSUME JInv, (\E r \in Row : Write(r)) \/ BeginRunExport \/ BeginEvalExport \/ ReadTable
               \/ Seal \/ ExportFails \/ Damage
  PROVE  (Closed /\ OfTheRun /\ OneRun)'
<1>1. UNCHANGED <<job, host, imports>>
  BY DEF Write, BeginRunExport, BeginEvalExport, ReadTable, Seal, ExportFails, Damage, source, host
<1>2. Closed'
  BY <1>1 DEF JInv, Closed, host, Holds
<1>3. OfTheRun'
  <2>1. CASE ReadTable
    BY <2>1, SelectedOfTheRun DEF ReadTable, JInv, OfTheRun
  <2>2. CASE ~ReadTable
    <3>1. got' = got
      BY <2>2 DEF Write, BeginRunExport, BeginEvalExport, Seal, ExportFails, Damage, exporter
    <3> QED
      BY <3>1 DEF JInv, OfTheRun
  <2> QED
    BY <2>1, <2>2
<1>4. OneRun'
  <2>1. CASE \A i \in Importer : at[i] \notin Past
    BY <1>1, <2>1 DEF JInv, OneRun, RunHeld, Holds, host, imports, Past
  <2>2. CASE \E i \in Importer : at[i] \in Past
    <3>1. bundle # None /\ pcx = "sealed"
      BY <2>2 DEF JInv, IInv, Checked, Sealed, Past
    <3>2. ~Damage
      BY <2>2 DEF Damage, Past
    <3>3. bundle' = bundle
      BY <3>1, <3>2 DEF Write, BeginRunExport, BeginEvalExport, ReadTable, Seal, ExportFails
    <3> QED
      BY <1>1, <3>3 DEF JInv, OneRun, Partly, RunHeld, Holds, host, imports
  <2> QED
    BY <2>1, <2>2
<1> QED
  BY <1>2, <1>3, <1>4

\* An import moves, and not past the transaction.
LEMMA MovesBefore ==
  ASSUME JInv, NEW i \in Importer, NEW s, s \notin Past, s # "look",
         at' = [at EXCEPT ![i] = s], UNCHANGED <<source, bundle, host, opened, left>>
  PROVE  OneRun'
<1> SUFFICES ASSUME job.mode = "run" PROVE OneRun'
  BY DEF OneRun, source
<1>1. \A j \in Importer : at'[j] = at[j] \/ at'[j] = s
  BY DEF JInv, IInv, TypeOK
<1>2. \A j \in Importer : at'[j] # "look" /\ (at'[j] \in Past => at'[j] = at[j])
  BY <1>1 DEF JInv, OneRun
<1>3. RunHeld' = RunHeld /\ dir' = dir /\ held' = held /\ bundle' = bundle /\ job' = job
  BY DEF RunHeld, Holds, host, source
<1>4. \A j \in Importer : Partly(j)' = Partly(j)
  BY DEF Partly, host
<1> QED
  BY <1>2, <1>3, <1>4 DEF JInv, OneRun, Past

LEMMA QuietStepKeepsRun ==
  ASSUME JInv, NEW i \in Importer, Extract(i) \/ CheckDir(i) \/ Look(i) \/ Finish(i) \/ Break(i)
  PROVE  (Closed /\ OfTheRun /\ OneRun)'
<1>1. UNCHANGED <<source, exporter, bundle, host, opened, left>>
  BY DEF Extract, CheckDir, Look, Finish, Break
<1>2. Closed' /\ OfTheRun'
  BY <1>1 DEF JInv, Closed, OfTheRun, exporter, host, Holds
<1>3. ASSUME job.mode = "run" PROVE OneRun'
  <2>1. /\ at' = [at EXCEPT ![i] = at'[i]]
        /\ at'[i] \in {"refused", "check", "insert", "broken"} \/ Finish(i)
    BY <1>3 DEF Extract, CheckDir, Look, Finish, Break, Goto, JInv, IInv, TypeOK, OneRun
  <2>2. CASE Finish(i)
    <3>1. at[i] = "copy" /\ opened[i] = None /\ left[i] = {} /\ at' = [at EXCEPT ![i] = "ok"]
      BY <2>2 DEF Finish, Goto
    <3>2. dir # None /\ dir \in [DOMAIN dir -> {"torn", Whole}] /\ Partly(i)
      BY <1>3, <3>1 DEF JInv, IInv, Copying, TypeOK, OneRun
    <3>3. DOMAIN dir = bundle.manifest.files /\ \A f \in bundle.manifest.files : dir[f] = Whole
      BY <3>1, <3>2 DEF Partly
    <3>4. dir = [f \in bundle.manifest.files |-> Whole]
      BY <3>2, <3>3
    <3> QED
      BY <1>1, <1>3, <3>1, <3>4 DEF JInv, IInv, TypeOK, OneRun, Partly, RunHeld, Holds, host, source, Past
  <2>3. CASE at'[i] \in {"refused", "check", "insert", "broken"}
    BY <1>1, <2>1, <2>3, MovesBefore DEF Past
  <2> QED
    BY <2>1, <2>2, <2>3
<1>4. ASSUME job.mode # "run" PROVE OneRun'
  BY <1>1, <1>4 DEF OneRun, source
<1> QED
  BY <1>2, <1>3, <1>4

LEMMA InsertKeepsRun == ASSUME JInv, NEW i \in Importer, Insert(i) PROVE (Closed /\ OfTheRun /\ OneRun)'
<1> DEFINE R == bundle.stage.rows
<1>1. bundle # None /\ Verified /\ bundle \in [stage : Content, manifest : Content]
  BY DEF Insert, JInv, IInv, Checked, TypeOK
<1>2. R \in SUBSET Row /\ R = bundle.manifest.rows /\ R \subseteq got
  BY <1>1 DEF Verified, Content, JInv, IInv, TypeOK
<1>3. at[i] = "insert" /\ UNCHANGED <<source, exporter, bundle, dir, opened, left>>
  BY DEF Insert
<1>4. OfTheRun'
  BY <1>3 DEF JInv, OfTheRun, exporter
<1>5. CASE NotOneRun(R) \/ Clash(R) \/ Dangling(R)
  <2>1. held' = held /\ at' = [at EXCEPT ![i] = "refused"]
    BY <1>5 DEF Insert, Goto
  <2>2. Closed'
    BY <2>1 DEF JInv, Closed, Holds
  <2>3. OneRun'
    BY <1>3, <2>1, MovesBefore DEF Past, host
  <2> QED
    BY <1>4, <2>2, <2>3
<1>6. CASE ~(NotOneRun(R) \/ Clash(R) \/ Dangling(R))
  <2>1. held' = Inserted(R) /\ at' = [at EXCEPT ![i] = IF job.mode = "run" THEN "mkdir" ELSE "look"]
    BY <1>6 DEF Insert, Goto
  <2>2. held \in [Row -> Nat] /\ R \subseteq Holds(held') /\ Holds(held) \subseteq Holds(held')
    BY <1>2, <2>1, InsertedRows DEF JInv, IInv, TypeOK
  <2>3. Closed'
    <3>1. ASSUME NEW r \in Holds(held'), r \notin R PROVE r \in Holds(held)
      BY <2>1, <3>1 DEF Holds, Inserted
    <3>2. \A r \in R : r.up \subseteq Keys(Holds(held) \cup R)
      BY <1>6 DEF Dangling
    <3>3. Keys(Holds(held) \cup R) \subseteq Keys(Holds(held'))
      BY <2>2 DEF Keys
    <3>4. Keys(Holds(held)) \subseteq Keys(Holds(held'))
      BY <2>2 DEF Keys
    <3> QED
      BY <3>1, <3>2, <3>3, <3>4 DEF JInv, Closed
  <2>4. ASSUME job.mode = "run" PROVE OneRun'
    <3>1. PICK x \in R : x.t = "runs"
      <4>1. {r \in R : r.t = "runs"} # {}
        BY <1>6, <2>4, FS_EmptySet DEF NotOneRun
      <4> QED
        BY <4>1
    <3>2. Key(x) = RunKey
      BY <1>2, <3>1, RunTableNames DEF JInv, OfTheRun
    <3>3. ~RunHeld
      BY <1>6, <3>1, <3>2 DEF Clash, Keyed, RunHeld
    <3>4. dir = None /\ \A j \in Importer : at[j] \notin Past
      BY <2>4, <3>3 DEF JInv, OneRun
    <3>5. RunHeld'
      BY <2>2, <3>1, <3>2 DEF RunHeld, Keys
    <3>6. ASSUME NEW r \in R, r.t \in Range(RunTables) PROVE held'[r] = 1
      <4>1. r \notin Holds(held)
        BY <1>2, <3>3, <3>6 DEF JInv, OfTheRun, Closed, RunHeld, Keys
      <4>2. held[r] = 0
        BY <1>2, <2>2, <4>1 DEF Holds
      <4>3. ~Skipped(r)
        BY <3>6, RunTableNames DEF Skipped
      <4> QED
        BY <1>2, <2>1, <3>6, <4>2, <4>3 DEF Inserted
    <3>7. at' = [at EXCEPT ![i] = "mkdir"]
      BY <2>1, <2>4
    <3> QED
      BY <1>2, <1>3, <2>4, <3>4, <3>5, <3>6, <3>7 DEF JInv, IInv, TypeOK, OneRun, source, Past
  <2>5. ASSUME job.mode # "run" PROVE OneRun'
    BY <1>3, <2>5 DEF OneRun, source
  <2> QED
    BY <1>4, <2>3, <2>4, <2>5
<1> QED
  BY <1>5, <1>6

LEMMA CopyKeepsRun ==
  ASSUME JInv, NEW i \in Importer, MakeDir(i) \/ OpenFile(i) \/ FillFile(i)
  PROVE  (Closed /\ OfTheRun /\ OneRun)'
<1>1. UNCHANGED <<source, exporter, bundle, held>> /\ at[i] \in {"mkdir", "copy"}
  BY DEF MakeDir, OpenFile, FillFile
<1>2. Closed' /\ OfTheRun'
  BY <1>1 DEF JInv, Closed, OfTheRun, exporter, Holds
<1>3. ASSUME job.mode = "run" PROVE OneRun'
  <2>1. RunHeld /\ RunHeld' /\ \A j \in Importer : at[j] \in Past => j = i
    BY <1>1, <1>3 DEF JInv, OneRun, RunHeld, Holds, Past
  <2>2. at' = [at EXCEPT ![i] = "copy"]
    BY DEF MakeDir, OpenFile, FillFile, Goto, JInv, IInv, TypeOK
  <2>3. bundle.stage = bundle.manifest /\ left[i] \subseteq Staged.files /\ bundle.manifest = Staged
    BY <1>1 DEF JInv, IInv, Checked, Verified, TypeOK
  <2>4. Partly(i)'
    <3>1. CASE MakeDir(i)
      <4>1. dir' = NoDir /\ left'[i] = bundle.manifest.files /\ opened'[i] = None
        BY <1>3, <2>3, <3>1 DEF MakeDir, JInv, IInv, TypeOK, Copying, OneRun
      <4>2. DOMAIN NoDir = {}
        BY DEF NoDir
      <4> QED
        BY <1>1, <4>1, <4>2 DEF Partly
    <3>2. CASE OpenFile(i)
      <4>1. PICK f \in left[i] : opened' = [opened EXCEPT ![i] = f]
                 /\ dir' = [g \in DOMAIN dir \cup {f} |-> IF g = f THEN "torn" ELSE dir[g]]
        BY <3>2 DEF OpenFile
      <4>2. opened[i] = None /\ left' = left /\ Partly(i) /\ opened'[i] = f /\ f # None
        BY <1>3, <2>3, <3>2, <4>1, JobRows, StagedIsContent, ExchangeAssumption
        DEF OpenFile, JInv, IInv, TypeOK, OneRun
      <4> QED
        BY <1>1, <4>1, <4>2 DEF Partly
    <3>3. CASE FillFile(i)
      <4>1. /\ opened[i] # None /\ opened[i] \in left[i] /\ Partly(i)
            /\ dir' = [dir EXCEPT ![opened[i]] = Whole]
            /\ left'[i] = left[i] \ {opened[i]} /\ opened'[i] = None
        BY <1>3, <3>3 DEF FillFile, JInv, IInv, TypeOK, OneRun
      <4>2. DOMAIN dir' = DOMAIN dir /\ dir'[opened[i]] = Whole
            /\ \A f \in DOMAIN dir \ {opened[i]} : dir'[f] = dir[f]
        BY <4>1 DEF Partly
      <4> QED
        BY <1>1, <2>3, <4>1, <4>2 DEF Partly
    <3> QED
      BY <3>1, <3>2, <3>3
  <2> QED
    BY <1>1, <1>3, <2>1, <2>2, <2>4 DEF JInv, IInv, TypeOK, OneRun, source, Past
<1>4. ASSUME job.mode # "run" PROVE OneRun'
  BY <1>1, <1>4 DEF OneRun, source
<1> QED
  BY <1>2, <1>3, <1>4

LEMMA NextJInv == JInv /\ [Next]_vars => JInv'
<1> SUFFICES ASSUME JInv, [Next]_vars PROVE (Closed /\ OfTheRun /\ OneRun)'
  BY NextIInv DEF JInv
<1>1. CASE Done \/ UNCHANGED vars
  BY <1>1 DEF Done, vars, source, exporter, host, imports, JInv, Closed, OfTheRun, OneRun, Partly,
              RunHeld, Holds
<1>2. ASSUME NEW i \in Importer, ImportStep(i) \/ Break(i) PROVE (Closed /\ OfTheRun /\ OneRun)'
  BY <1>2, QuietStepKeepsRun, InsertKeepsRun, CopyKeepsRun DEF ImportStep
<1> QED
  BY <1>1, <1>2, ExportKeepsRun DEF Next

\* An import that reports success has brought all rows of its bundle, and in run mode each
\* row of the run once and each file whole, for any number of imports and faults beside it
\* (export_import.go:240-278).
THEOREM SuccessMeansBoth == Spec => []OkMeansBoth
<1>1. JInv => OkMeansBoth
  BY DEF JInv, IInv, Committed, OneRun, OkMeansBoth, Past
<1> QED
  BY <1>1, InitJInv, NextJInv, PTL DEF Spec

(***************************************************************************)
(* The round trip                                                          *)
(***************************************************************************)
EvalKey == <<"eval_runs", Id>>

\* The evidence of Id, table by table: the rows of the run and the evaluation and what
\* refers to them, the comparisons of its experiments, the evaluations its canaries name.
OfRun(R) == {r \in R : job.mode = "run" /\ (Key(r) = RunKey \/ RunKey \in r.up)}
OfEval(R) == {r \in R : Key(r) = EvalKey \/ EvalKey \in r.up}
Compared(R) == {r \in R : r.t = "comparisons" /\ \E e \in OfEval(R) : e.t = "experiments" /\ Key(e) \in r.up}
Named(R) == {r \in R : r.t = "eval_runs" /\ \E c \in OfEval(R) : c.t = "canary_runs" /\ Key(r) \in c.up}
Evidence(R) == OfRun(R) \cup OfEval(R) \cup Compared(R) \cup Named(R)

\* What the queries of the tables in s choose.
Reads(s) == UNION {Selected(src, s[n]) : n \in DOMAIN s}

\* The exporting host holds no row without what it refers to either.
SourceClosed == \A r \in src : r.up \subseteq Keys(src)

\* While nobody writes, what has been read and what is to be read are the whole.
ReadSoFar ==
  /\ pcx = "idle" => got = {}
  /\ pcx \in {"staged", "sealed"} => todo = <<>>
  /\ pcx \in {"reading", "staged", "sealed"} =>
       /\ job.mode = "run" => RunKey \in Keys(src)
       /\ quiet => got \cup Reads(todo) = Reads(Tables)

\* Only the import of a run looks at the directory first, and only faults spoil a bundle.
Unspoilt ==
  /\ \A i \in Importer : at[i] = "check" => job.mode = "run"
  /\ bundle = None => \A i \in Importer : at[i] = "idle"
  /\ bundle # None /\ faults = 0 => Verified

Refusals == quiet /\ bundle # None /\ faults = 0 => \A i \in Importer : at[i] = "refused" => Taken

KInv == JInv /\ SourceClosed /\ ReadSoFar /\ Unspoilt /\ Refusals

(***************************************************************************)
(* Rows and tables                                                         *)
(***************************************************************************)
RunNames == {"runs", "events", "artifacts", "tool_calls", "scores", "judge_runs", "refine_runs",
             "evidence", "row_evidence"}
EvalNames == {"eval_runs", "eval_cases", "promotions", "experiments", "comparisons", "canary_runs", "suggest_runs"}

LEMMA TableNames == Range(RunTables) = RunNames /\ Range(EvalTables) = EvalNames
<1>1. /\ DOMAIN RunTables = 1 .. 9 /\ RunTables[1] = "runs" /\ RunTables[2] = "events" /\ RunTables[3] = "artifacts"
      /\ RunTables[4] = "tool_calls" /\ RunTables[5] = "scores" /\ RunTables[6] = "judge_runs"
      /\ RunTables[7] = "refine_runs" /\ RunTables[8] = "evidence" /\ RunTables[9] = "row_evidence"
  BY DEF RunTables
<1>2. /\ DOMAIN EvalTables = 1 .. 7 /\ EvalTables[1] = "eval_runs" /\ EvalTables[2] = "eval_cases"
      /\ EvalTables[3] = "promotions" /\ EvalTables[4] = "experiments" /\ EvalTables[5] = "comparisons"
      /\ EvalTables[6] = "canary_runs" /\ EvalTables[7] = "suggest_runs"
  BY DEF EvalTables
<1>3. Range(RunTables) = RunNames
  <2>1. \A t \in Range(RunTables) : t \in RunNames
    BY <1>1 DEF Range, RunNames
  <2>2. \A t \in RunNames : t \in Range(RunTables)
    <3>1. {1, 2, 3, 4, 5, 6, 7, 8, 9} \subseteq DOMAIN RunTables
      BY <1>1
    <3> QED
      BY <1>1, <3>1 DEF Range, RunNames
  <2> QED
    BY <2>1, <2>2
<1>4. Range(EvalTables) = EvalNames
  <2>1. \A t \in Range(EvalTables) : t \in EvalNames
    BY <1>2 DEF Range, EvalNames
  <2>2. \A t \in EvalNames : t \in Range(EvalTables)
    <3>1. {1, 2, 3, 4, 5, 6, 7} \subseteq DOMAIN EvalTables
      BY <1>2
    <3> QED
      BY <1>2, <3>1 DEF Range, EvalNames
  <2> QED
    BY <2>1, <2>2
<1> QED
  BY <1>3, <1>4

\* The tables of an export.
LEMMA ExportedNames ==
  /\ \A R, n : n \in DOMAIN Tables => Selected(R, Tables[n]) \subseteq R
  /\ {Tables[n] : n \in DOMAIN Tables} =
       IF job.mode = "eval" THEN EvalNames ELSE IF job.ab THEN RunNames \cup EvalNames ELSE RunNames
<1>1. \A R, n : n \in DOMAIN Tables => Selected(R, Tables[n]) \subseteq R
  BY SelectedFromSource
<1>2. Range(RunTables) = {RunTables[n] : n \in DOMAIN RunTables} /\ Range(EvalTables) = {EvalTables[n] : n \in DOMAIN EvalTables}
  BY DEF Range
<1>3. CASE job.mode = "eval"
  BY <1>1, <1>2, <1>3, TableNames DEF Tables
<1>4. CASE job.mode # "eval" /\ ~job.ab
  BY <1>1, <1>2, <1>4, TableNames DEF Tables
<1>5. CASE job.mode # "eval" /\ job.ab
  <2>1. RunTables \in Seq(Table) /\ EvalTables \in Seq(Table) /\ Len(RunTables) = 9 /\ Len(EvalTables) = 7
    BY DEF RunTables, EvalTables, Table, Range
  <2>2. Tables = RunTables \o EvalTables
    BY <1>5 DEF Tables
  <2>3. /\ DOMAIN Tables = 1 .. 16 /\ DOMAIN RunTables = 1 .. 9 /\ DOMAIN EvalTables = 1 .. 7
        /\ \A n \in 1 .. 9 : Tables[n] = RunTables[n]
        /\ \A n \in 10 .. 16 : Tables[n] = EvalTables[n - 9]
    <3>1. ASSUME NEW a \in Seq(Table), NEW b \in Seq(Table), Len(a) = 9, Len(b) = 7
          PROVE  /\ DOMAIN (a \o b) = 1 .. 16 /\ DOMAIN a = 1 .. 9 /\ DOMAIN b = 1 .. 7
                 /\ \A n \in 1 .. 9 : (a \o b)[n] = a[n]
                 /\ \A n \in 10 .. 16 : (a \o b)[n] = b[n - 9]
      <4>1. /\ a \o b \in Seq(Table) /\ Len(a \o b) = 16
            /\ \A n \in 1 .. 16 : (a \o b)[n] = IF n <= 9 THEN a[n] ELSE b[n - 9]
        <5>1. a \o b \in Seq(Table) /\ Len(a \o b) = Len(a) + Len(b)
              /\ \A i \in 1 .. Len(a) + Len(b) : (a \o b)[i] = IF i <= Len(a) THEN a[i] ELSE b[i - Len(a)]
          BY ONLY <3>1, ConcatProperties
        <5>2. Len(a) + Len(b) = 16
          BY <3>1
        <5> QED
          BY <3>1, <5>1, <5>2
      <4>2. DOMAIN (a \o b) = 1 .. 16 /\ DOMAIN a = 1 .. 9 /\ DOMAIN b = 1 .. 7
        BY <3>1, <4>1, LenProperties
      <4>3. ASSUME NEW n \in 1 .. 9 PROVE (a \o b)[n] = a[n]
        <5>1. n \in 1 .. 16 /\ n <= 9
          BY ONLY <4>3
        <5> QED
          BY <4>1, <5>1, Zenon
      <4>4. ASSUME NEW n \in 10 .. 16 PROVE (a \o b)[n] = b[n - 9]
        <5>1. n \in 1 .. 16 /\ ~(n <= 9)
          BY ONLY <4>4
        <5> QED
          BY <4>1, <5>1, Zenon
      <4> QED
        BY <4>2, <4>3, <4>4
    <3> QED
      BY <2>1, <2>2, <3>1
  <2>4. \A n \in 1 .. 7 : Tables[n + 9] = EvalTables[n]
    <3>1. \A n \in 1 .. 7 : n + 9 \in 10 .. 16 /\ (n + 9) - 9 = n
      OBVIOUS
    <3> QED
      BY <2>3, <3>1
  <2>5. \A n \in 1 .. 16 : n \in 1 .. 9 \/ n \in 10 .. 16
    OBVIOUS
  <2>6. \A n \in 10 .. 16 : n - 9 \in 1 .. 7
    OBVIOUS
  <2>7. \A n \in 1 .. 9 : n \in 1 .. 16
    OBVIOUS
  <2>8. \A n \in 1 .. 7 : n + 9 \in 1 .. 16
    OBVIOUS
  <2>9. \A t : t \in {Tables[n] : n \in DOMAIN Tables} => t \in RunNames \cup EvalNames
    BY <1>2, <2>3, <2>5, <2>6, TableNames
  <2>10. \A t \in RunNames : t \in {Tables[n] : n \in DOMAIN Tables}
    BY <1>2, <2>3, <2>7, TableNames
  <2>11. \A t \in EvalNames : t \in {Tables[n] : n \in DOMAIN Tables}
    BY <1>2, <2>3, <2>4, <2>8, TableNames
  <2>12. {Tables[n] : n \in DOMAIN Tables} = RunNames \cup EvalNames
    BY <2>9, <2>10, <2>11
  <2> QED
    BY <1>1, <1>5, <2>12
<1> QED
  BY <1>3, <1>4, <1>5

\* To what tables a row refers, and the table that its key names.
LEMMA References ==
  ASSUME NEW r \in Row
  PROVE  /\ r.t \in RunNames \cup EvalNames /\ Key(r)[1] = r.t
         /\ r.t \in {"runs", "eval_runs"} => r.up = {}
         /\ \A k \in r.up :
              /\ r.t = "row_evidence" => k[1] \in {"runs", "evidence"}
              /\ r.t \in RunNames \ {"runs", "row_evidence"} => k[1] = "runs"
              /\ r.t = "comparisons" => k[1] = "experiments"
              /\ r.t \in EvalNames \ {"eval_runs", "comparisons"} => k[1] = "eval_runs"
<1>1. r.t \in RunNames \cup EvalNames /\ r.up \subseteq {<<t, i>> : t \in Parents(r.t), i \in {x.id : x \in Row}}
  BY ExchangeAssumption, TableNames DEF Table
<1>2. \A k \in r.up : k[1] \in Parents(r.t)
  BY <1>1
<1>3. Key(r)[1] = r.t
  BY DEF Key
<1>4. Parents(r.t) = IF r.t \in RunNames THEN RunParents(r.t) ELSE EvalParents(r.t)
  BY TableNames DEF Parents
<1>5. /\ RunParents("runs") = {} /\ RunParents("row_evidence") = {"runs", "evidence"}
      /\ \A t : t \notin {"runs", "row_evidence"} => RunParents(t) = {"runs"}
  BY DEF RunParents
<1>6. /\ EvalParents("eval_runs") = {} /\ EvalParents("comparisons") = {"experiments"}
      /\ \A t : t \notin {"eval_runs", "comparisons"} => EvalParents(t) = {"eval_runs"}
  BY DEF EvalParents
<1>7. RunNames \cap EvalNames = {} /\ "runs" \in RunNames /\ "row_evidence" \in RunNames
      /\ "eval_runs" \in EvalNames /\ "comparisons" \in EvalNames
  BY DEF RunNames, EvalNames
<1>8. r.t \in {"runs", "eval_runs"} => r.up = {}
  BY <1>2, <1>4, <1>5, <1>6, <1>7
<1> QED
  BY <1>1, <1>2, <1>3, <1>4, <1>5, <1>6, <1>7, <1>8

\* What the schema says of the rows of the exporting host.
LEMMA SourceRows ==
  ASSUME TypeOK
  PROVE  /\ src \subseteq Row /\ job.mode \in {"run", "eval"}
         /\ \A r, s \in src : Key(r) = Key(s) => r = s
         /\ \A r \in src :
              /\ r.t \notin {"canary_runs", "row_evidence"} => \A k, l \in r.up : k = l
              /\ r.t \in {"evidence", "comparisons"} => r.up # {}
              /\ r.t = "row_evidence" =>
                   /\ \A k, l \in r.up : k[1] = l[1] => k = l
                   /\ \A e \in src : Key(e) \in r.up => e.up \subseteq r.up
         /\ job.mode = "run" /\ ~job.ab => EvalKey \notin Keys(src)
<1>1. job \in Jobs /\ src \subseteq job.rows
  BY DEF TypeOK
<1>2. job.rows \subseteq Row
  BY <1>1 DEF Row
<1>3. /\ \A r, s \in job.rows : Key(r) = Key(s) => r = s
      /\ \A r \in job.rows :
           /\ r.t \notin {"canary_runs", "row_evidence"} => \A k, l \in r.up : k = l
           /\ r.t \in {"evidence", "comparisons"} => r.up # {}
           /\ r.t = "row_evidence" =>
                /\ \A k, l \in r.up : k[1] = l[1] => k = l
                /\ \A e \in job.rows : Key(e) \in r.up => e.up \subseteq r.up
      /\ job.mode = "run" /\ ~job.ab => EvalKey \notin Keys(job.rows)
  BY <1>1, SchemaAssumption DEF EvalKey
<1>4. Keys(src) \subseteq Keys(job.rows)
  BY <1>1 DEF Keys
<1>5. job.mode \in {"run", "eval"}
  BY <1>1, ExchangeAssumption
<1>6. \A r \in src : r \in job.rows
  BY <1>1
<1> QED
  BY <1>2, <1>3, <1>4, <1>5, <1>6

\* A row that refers to one of the run: evidence, cited by a row of the run.
LEMMA BelowTheRun ==
  ASSUME TypeOK, NEW r \in src, NEW s \in OfRun(src), Key(s) \in r.up
  PROVE  r \in OfRun(src)
<1>1. s \in src /\ job.mode = "run" /\ RunKey[1] = "runs"
  BY DEF OfRun, RunKey
<1>2. CASE Key(s) = RunKey
  BY <1>1, <1>2 DEF OfRun
<1>3. CASE RunKey \in s.up
  <2>1. s \in Row /\ r \in Row
    BY <1>1, SourceRows
  <2>2. s.t \in RunNames /\ s.t # "runs"
    BY <1>1, <1>3, <2>1, References DEF RunNames, EvalNames
  <2>3. Key(s)[1] = s.t
    BY <2>1, References
  <2>4. r.t = "row_evidence"
    BY <2>1, <2>2, <2>3, References DEF RunNames, EvalNames
  <2>5. s.up \subseteq r.up
    BY <1>1, <2>4, SourceRows
  <2> QED
    BY <1>1, <1>3, <2>5 DEF OfRun
<1> QED
  BY <1>1, <1>2, <1>3 DEF OfRun

\* A row that refers to one of the evaluation: a comparison of one of its experiments.
LEMMA BelowTheEval ==
  ASSUME TypeOK, NEW r \in src, NEW s \in OfEval(src), Key(s) \in r.up
  PROVE  r \in OfEval(src) \cup Compared(src)
<1>1. s \in src /\ EvalKey[1] = "eval_runs"
  BY DEF OfEval, EvalKey
<1>2. CASE Key(s) = EvalKey
  BY <1>2 DEF OfEval
<1>3. CASE EvalKey \in s.up
  <2>1. s \in Row /\ r \in Row
    BY <1>1, SourceRows
  <2>2. s.t \in EvalNames \ {"eval_runs", "comparisons"}
    BY <1>1, <1>3, <2>1, References DEF RunNames, EvalNames
  <2>3. Key(s)[1] = s.t
    BY <2>1, References
  <2>4. r.t = "comparisons" /\ s.t = "experiments"
    BY <2>1, <2>2, <2>3, References DEF RunNames, EvalNames
  <2> QED
    BY <2>4 DEF Compared
<1> QED
  BY <1>2, <1>3 DEF OfEval

\* What the evidence of a run refers to.
LEMMA AboveTheRun ==
  ASSUME TypeOK, NEW r \in src, NEW s \in OfRun(src), Key(r) \in s.up
  PROVE  r \in OfRun(src)
<1>1. s \in src /\ job.mode = "run" /\ RunKey[1] = "runs"
  BY DEF OfRun, RunKey
<1>2. s \in Row /\ r \in Row
  BY <1>1, SourceRows
<1>3. RunKey \in s.up
  <2>1. Key(s) = RunKey => s.t = "runs"
    BY <1>1, <1>2, References
  <2> QED
    BY <1>2, <2>1, References DEF OfRun
<1>4. s.t \in RunNames
  BY <1>1, <1>2, <1>3, References DEF RunNames, EvalNames
<1>5. Key(r)[1] = r.t
  BY <1>2, References
<1>6. CASE s.t # "row_evidence"
  <2>1. Key(r) = RunKey
    BY <1>1, <1>3, <1>4, <1>6, SourceRows DEF RunNames
  <2> QED
    BY <1>1, <2>1 DEF OfRun
<1>7. CASE s.t = "row_evidence" /\ r.t = "runs"
  <2>1. Key(r) = RunKey
    BY <1>1, <1>3, <1>5, <1>7, SourceRows
  <2> QED
    BY <1>1, <2>1 DEF OfRun
<1>8. CASE s.t = "row_evidence" /\ r.t # "runs"
  <2>1. r.t = "evidence"
    BY <1>2, <1>5, <1>8, References
  <2>2. PICK k \in r.up : TRUE
    BY <2>1, SourceRows
  <2>3. k[1] = "runs"
    BY <1>2, <2>1, References DEF RunNames
  <2>4. k \in s.up
    BY <1>1, <1>8, SourceRows
  <2>5. k = RunKey
    BY <1>1, <1>3, <1>8, <2>3, <2>4, SourceRows
  <2> QED
    BY <1>1, <2>2, <2>5 DEF OfRun
<1> QED
  BY <1>6, <1>7, <1>8

\* What the evidence of an evaluation refers to.
LEMMA AboveTheEval ==
  ASSUME TypeOK, NEW r \in src, NEW s \in OfEval(src) \cup Compared(src), Key(r) \in s.up
  PROVE  r \in OfEval(src) \cup Named(src)
<1>1. s \in src /\ EvalKey[1] = "eval_runs"
  BY DEF OfEval, Compared, EvalKey
<1>2. s \in Row /\ r \in Row
  BY <1>1, SourceRows
<1>3. Key(r)[1] = r.t /\ Key(s)[1] = s.t
  BY <1>2, References
<1>4. CASE s \in Compared(src)
  <2>1. PICK e \in OfEval(src) : Key(e) \in s.up /\ s.t = "comparisons"
    BY <1>4 DEF Compared
  <2>2. Key(r) = Key(e)
    BY <1>1, <2>1, SourceRows
  <2>3. e \in src
    BY DEF OfEval
  <2>4. r = e
    BY <2>2, <2>3, SourceRows
  <2> QED
    BY <2>4
<1>5. CASE s \in OfEval(src)
  <2>1. EvalKey \in s.up
    <3>1. Key(s) = EvalKey => s.t = "eval_runs"
      BY <1>1, <1>3
    <3> QED
      BY <1>2, <1>5, <3>1, References DEF OfEval
  <2>2. s.t \in EvalNames \ {"eval_runs", "comparisons"}
    BY <1>1, <1>2, <2>1, References DEF RunNames, EvalNames
  <2>3. CASE s.t = "canary_runs"
    <3>1. r.t = "eval_runs"
      BY <1>2, <1>3, <2>2, References
    <3> QED
      BY <1>5, <2>3, <3>1 DEF Named
  <2>4. CASE s.t # "canary_runs"
    <3>1. Key(r) = EvalKey
      BY <1>1, <2>1, <2>2, <2>4, SourceRows DEF EvalNames
    <3> QED
      BY <3>1 DEF OfEval
  <2> QED
    BY <2>3, <2>4
<1> QED
  BY <1>4, <1>5

\* The evidence by the references is the evidence by the tables.
LEMMA EvidenceByTable ==
  ASSUME TypeOK
  PROVE  /\ Below(src, Root \cup Keys(Below(src, Root))) = OfRun(src) \cup OfEval(src) \cup Compared(src)
         /\ EvidenceOf(src) = Evidence(src)
<1> DEFINE B == Below(src, Root)
           D == Below(src, Root \cup Keys(B))
<1>1. B = OfRun(src) \cup OfEval(src)
  <2>1. job.mode \in {"run", "eval"}
    BY SourceRows
  <2>2. CASE job.mode = "run"
    <3>1. Root = {RunKey, EvalKey}
      BY <2>2 DEF Root, RunKey, EvalKey
    <3> QED
      BY <2>2, <3>1 DEF Below, OfRun, OfEval
  <2>3. CASE job.mode = "eval"
    <3>1. Root = {EvalKey}
      BY <2>3 DEF Root, EvalKey
    <3> QED
      BY <2>3, <3>1 DEF Below, OfRun, OfEval
  <2> QED
    BY <2>1, <2>2, <2>3
<1>2. B \subseteq D /\ B \subseteq src
  BY DEF Below
<1>3. Compared(src) \subseteq D
  <2> SUFFICES ASSUME NEW r \in Compared(src) PROVE r \in D
    OBVIOUS
  <2>1. PICK e \in B : Key(e) \in r.up /\ r \in src
    BY <1>1 DEF Compared
  <2>2. Key(e) \in Keys(B)
    BY <2>1 DEF Keys
  <2> QED
    BY <2>1, <2>2 DEF Below
<1>4. D \subseteq OfRun(src) \cup OfEval(src) \cup Compared(src)
  <2> SUFFICES ASSUME NEW r \in D, r \notin B PROVE r \in OfRun(src) \cup OfEval(src) \cup Compared(src)
    BY <1>1
  <2>1. r \in src /\ Key(r) \notin Root /\ r.up \cap Root = {}
    BY DEF Below
  <2>2. \/ Key(r) \in Keys(B)
        \/ \E k \in r.up : k \in Keys(B)
    BY <2>1 DEF Below
  <2>3. Key(r) \notin Keys(B)
    BY <1>2, <2>1, SourceRows DEF Keys
  <2>4. PICK s \in B : Key(s) \in r.up
    BY <2>2, <2>3 DEF Keys
  <2> QED
    BY <1>1, <2>1, <2>4, BelowTheRun, BelowTheEval
<1>5. D = OfRun(src) \cup OfEval(src) \cup Compared(src)
  BY <1>1, <1>2, <1>3, <1>4
<1>6. EvidenceOf(src) = D \cup {r \in src : \E s \in D : Key(r) \in s.up}
  BY DEF EvidenceOf
<1>7. {r \in src : \E s \in D : Key(r) \in s.up} \subseteq Evidence(src)
  BY <1>5, AboveTheRun, AboveTheEval DEF Evidence
<1>8. Named(src) \subseteq {r \in src : \E s \in D : Key(r) \in s.up}
  BY <1>5 DEF Named
<1> HIDE DEF D
<1> QED
  BY <1>5, <1>6, <1>7, <1>8 DEF Evidence, D

\* What is evidence refers to evidence.
LEMMA EvidenceIsClosed ==
  ASSUME TypeOK, SourceClosed
  PROVE  \A r \in Evidence(src) : r.up \subseteq Keys(Evidence(src))
<1> DEFINE D == Below(src, Root \cup Keys(Below(src, Root)))
<1> SUFFICES ASSUME NEW r \in Evidence(src), NEW k \in r.up PROVE k \in Keys(Evidence(src))
  OBVIOUS
<1>1. r \in src /\ r \in Row
  BY SourceRows DEF Evidence, OfRun, OfEval, Compared, Named
<1>2. r \notin Named(src)
  BY <1>1, References DEF Named
<1>3. r \in D
  BY <1>2, EvidenceByTable DEF Evidence
<1>4. PICK x \in src : k = Key(x)
  BY <1>1 DEF SourceClosed, Keys
<1>5. x \in EvidenceOf(src)
  BY <1>3, <1>4 DEF EvidenceOf
<1> QED
  BY <1>4, <1>5, EvidenceByTable DEF Keys

\* What the query of a table chooses.
LEMMA Chosen ==
  ASSUME TypeOK, NEW r \in src, NEW t \in RunNames \cup EvalNames
  PROVE  r \in Selected(src, t) <=>
           /\ r.t = t
           /\ t = "runs" => Key(r) = RunKey
           /\ t \in RunNames \ {"runs"} => RunKey \in r.up
           /\ t = "eval_runs" => Key(r) = EvalKey \/ r \in Named(src)
           /\ t = "comparisons" => r \in Compared(src)
           /\ t \in EvalNames \ {"eval_runs", "comparisons"} => EvalKey \in r.up
<1>1. r \in Row /\ Key(r)[1] = r.t /\ RunKey[1] = "runs" /\ EvalKey[1] = "eval_runs"
  BY SourceRows, References DEF RunKey, EvalKey
<1>2. CASE t = "runs"
  <2>1. r \in Selected(src, t) <=> Key(r) = RunKey
    BY <1>2 DEF Selected, RunKey
  <2> QED
    BY <1>1, <1>2, <2>1 DEF RunNames, EvalNames
<1>3. CASE t = "eval_runs"
  <2>1. r \in Selected(src, t) <=> r.t = t /\ (Key(r) = EvalKey \/ Key(r) \in Curated(src))
    BY <1>3 DEF Selected, EvalKey
  <2>2. r.t = "eval_runs" /\ Key(r) \in Curated(src) <=> r \in Named(src)
    <3>1. Key(r) \in Curated(src) <=> \E c \in src : c.t = "canary_runs" /\ EvalKey \in c.up /\ Key(r) \in c.up
      BY DEF Curated, Of, EvalKey
    <3>2. \A c \in src : c.t = "canary_runs" => Key(c) # EvalKey
      BY <1>1, SourceRows, References
    <3> QED
      BY <3>1, <3>2 DEF Named, OfEval
  <2> QED
    BY <1>3, <2>1, <2>2 DEF RunNames, EvalNames
<1>4. CASE t = "comparisons"
  <2>1. r \in Selected(src, t) <=> r.t = t /\ r.up \subseteq Keys(Of(src, "experiments", EvalKey))
    BY <1>4 DEF Selected, EvalKey
  <2>2. ASSUME r.t = t PROVE r.up \subseteq Keys(Of(src, "experiments", EvalKey)) <=> r \in Compared(src)
    <3>1. Of(src, "experiments", EvalKey) = {e \in OfEval(src) : e.t = "experiments"}
      <4>1. \A e \in src : e.t = "experiments" => Key(e) # EvalKey
        BY <1>1, SourceRows, References
      <4> QED
        BY <4>1 DEF Of, OfEval
    <3>2. PICK k \in r.up : \A l \in r.up : l = k
      BY <1>4, <2>2, SourceRows
    <3>3. r.up \subseteq Keys(Of(src, "experiments", EvalKey)) <=> k \in Keys(Of(src, "experiments", EvalKey))
      BY <3>2
    <3>4. k \in Keys(Of(src, "experiments", EvalKey)) <=> \E e \in OfEval(src) : e.t = "experiments" /\ Key(e) = k
      BY <3>1 DEF Keys
    <3>5. r \in Compared(src) <=> \E e \in OfEval(src) : e.t = "experiments" /\ Key(e) \in r.up
      BY <1>4, <2>2 DEF Compared
    <3> QED
      BY <3>2, <3>3, <3>4, <3>5
  <2> QED
    BY <1>4, <2>1, <2>2 DEF RunNames, EvalNames
<1>5. CASE t \notin {"runs", "eval_runs", "comparisons"}
  <2>1. r \in Selected(src, t) <=> r \in Of(src, t, IF t \in RunNames THEN RunKey ELSE EvalKey)
    BY <1>5, TableNames DEF Selected, RunKey, EvalKey
  <2>2. t \in RunNames => t \notin EvalNames
    BY DEF RunNames, EvalNames
  <2> QED
    BY <1>5, <2>1, <2>2 DEF Of
<1> QED
  BY <1>2, <1>3, <1>4, <1>5

\* What the queries choose is the evidence.
LEMMA QueriesFindEvidence ==
  ASSUME TypeOK, SourceClosed
  PROVE  Reads(Tables) = Evidence(src)
<1> DEFINE T == {Tables[n] : n \in DOMAIN Tables}
<1>1. /\ T = IF job.mode = "eval" THEN EvalNames ELSE IF job.ab THEN RunNames \cup EvalNames ELSE RunNames
      /\ T \subseteq RunNames \cup EvalNames
  BY ExportedNames
<1>2. \A r : r \in Reads(Tables) <=> \E t \in T : r \in Selected(src, t)
  BY DEF Reads
<1>3. Reads(Tables) \subseteq src /\ Evidence(src) \subseteq src
  BY ExportedNames DEF Reads, Evidence, OfRun, OfEval, Compared, Named
<1> SUFFICES ASSUME NEW r \in src PROVE r \in Reads(Tables) <=> r \in Evidence(src)
  BY <1>3
<1>4. r \in Reads(Tables) <=> r.t \in T /\ r \in Selected(src, r.t)
  BY <1>1, <1>2, Chosen
<1>5. r \in Row /\ r.t \in RunNames \cup EvalNames /\ Key(r)[1] = r.t
      /\ RunKey[1] = "runs" /\ EvalKey[1] = "eval_runs" /\ job.mode \in {"run", "eval"}
  BY SourceRows, References DEF RunKey, EvalKey
<1>6. RunNames \cap EvalNames = {} /\ "runs" \in RunNames /\ {"eval_runs", "comparisons"} \subseteq EvalNames
  BY DEF RunNames, EvalNames
<1>7. ASSUME r \in Reads(Tables) PROVE r \in Evidence(src)
  <2>1. r.t \in T /\ r \in Selected(src, r.t)
    BY <1>4, <1>7
  <2>2. CASE r.t \in RunNames
    <3>1. job.mode = "run"
      BY <1>1, <1>5, <1>6, <2>1, <2>2
    <3>2. Key(r) = RunKey \/ RunKey \in r.up
      BY <1>5, <2>1, <2>2, Chosen
    <3> QED
      BY <3>1, <3>2 DEF Evidence, OfRun
  <2>3. CASE r.t \in EvalNames
    <3>1. r \in Named(src) \/ r \in Compared(src) \/ Key(r) = EvalKey \/ EvalKey \in r.up
      BY <1>5, <2>1, <2>3, Chosen
    <3> QED
      BY <3>1 DEF Evidence, OfEval
  <2> QED
    BY <1>5, <2>2, <2>3
<1>8. ASSUME r \in OfRun(src) PROVE r \in Reads(Tables)
  <2>1. job.mode = "run" /\ (Key(r) = RunKey \/ RunKey \in r.up)
    BY <1>8 DEF OfRun
  <2>2. r.t \in RunNames /\ (r.t = "runs" => Key(r) = RunKey) /\ (r.t # "runs" => RunKey \in r.up)
    <3>1. CASE Key(r) = RunKey
      BY <1>5, <1>6, <3>1
    <3>2. CASE RunKey \in r.up
      BY <1>5, <3>2, References DEF RunNames, EvalNames
    <3> QED
      BY <2>1, <3>1, <3>2
  <2>3. r.t \in T
    BY <1>1, <2>1, <2>2
  <2>4. r \in Selected(src, r.t)
    BY <1>5, <1>6, <2>2, Chosen
  <2> QED
    BY <1>4, <2>3, <2>4
<1>9. ASSUME NEW e \in OfEval(src) PROVE EvalNames \subseteq T
  <2>1. EvalKey \in Keys(src)
    <3>1. CASE Key(e) = EvalKey
      BY <3>1 DEF OfEval, Keys
    <3>2. CASE EvalKey \in e.up
      BY <3>2 DEF OfEval, SourceClosed
    <3> QED
      BY <3>1, <3>2 DEF OfEval
  <2> QED
    BY <1>1, <2>1, SourceRows
<1>10. ASSUME r \in OfEval(src) \cup Compared(src) \cup Named(src) PROVE r \in Reads(Tables)
  <2>1. EvalNames \subseteq T
    BY <1>9, <1>10 DEF Compared, Named
  <2>2. CASE r \in Named(src)
    BY <1>4, <1>5, <1>6, <2>1, <2>2, Chosen DEF Named
  <2>3. CASE r \in Compared(src)
    BY <1>4, <1>5, <1>6, <2>1, <2>3, Chosen DEF Compared
  <2>4. CASE r \in OfEval(src)
    <3>1. Key(r) = EvalKey => r.t = "eval_runs"
      BY <1>5
    <3>2. EvalKey \in r.up => r.t \in EvalNames \ {"eval_runs", "comparisons"}
      BY <1>5, References DEF RunNames, EvalNames
    <3>3. Key(r) = EvalKey \/ EvalKey \in r.up
      BY <2>4 DEF OfEval
    <3>4. r.t \in EvalNames /\ r.t \notin RunNames
      BY <1>6, <3>1, <3>2, <3>3
    <3>5. r \in Selected(src, r.t)
      <4>1. CASE Key(r) = EvalKey
        BY <1>5, <1>6, <3>1, <3>4, <4>1, Chosen
      <4>2. CASE EvalKey \in r.up
        BY <1>5, <1>6, <3>2, <3>4, <4>2, Chosen
      <4> QED
        BY <3>3, <4>1, <4>2
    <3> QED
      BY <1>4, <2>1, <3>4, <3>5
  <2> QED
    BY <1>10, <2>2, <2>3, <2>4
<1> QED
  BY <1>7, <1>8, <1>10 DEF Evidence

(***************************************************************************)
(* The export, while nobody writes                                         *)
(***************************************************************************)
LEMMA InitKInv == Init => KInv
<1> SUFFICES ASSUME Init PROVE KInv
  OBVIOUS
<1>1. JInv
  BY InitJInv
<1>2. SourceClosed /\ ReadSoFar /\ Unspoilt /\ Refusals
  BY DEF Init, SourceClosed, ReadSoFar, Unspoilt, Refusals
<1> QED
  BY <1>1, <1>2 DEF KInv

LEMMA WriteKeepsRound ==
  ASSUME KInv, NEW r \in Row, Write(r)
  PROVE  (SourceClosed /\ ReadSoFar /\ Unspoilt /\ Refusals)'
<1>1. /\ src' = src \cup {r} /\ r.up \subseteq Keys(src) /\ pcx \in {"idle", "reading"}
      /\ (quiet' <=> quiet /\ pcx = "idle")
      /\ UNCHANGED <<job, exporter, bundle, host, imports, faults>>
  BY DEF Write
<1>2. Keys(src) \subseteq Keys(src')
  BY <1>1 DEF Keys
<1>3. SourceClosed'
  BY <1>1, <1>2 DEF KInv, SourceClosed
<1>4. ReadSoFar'
  <2>1. pcx' = pcx /\ got' = got /\ todo' = todo /\ job' = job
    BY <1>1 DEF exporter
  <2>2. pcx' \in {"reading", "staged", "sealed"} => ~quiet'
    BY <1>1, <2>1
  <2> QED
    BY <1>1, <1>2, <2>1, <2>2 DEF KInv, ReadSoFar
<1>5. bundle = None
  BY <1>1 DEF KInv, JInv, IInv, Sealed
<1>6. Unspoilt' /\ Refusals'
  BY <1>1, <1>5 DEF KInv, Unspoilt, Refusals, imports
<1> QED
  BY <1>3, <1>4, <1>6

LEMMA BeginKeepsRound ==
  ASSUME KInv, BeginRunExport \/ BeginEvalExport
  PROVE  (SourceClosed /\ ReadSoFar /\ Unspoilt /\ Refusals)'
<1>1. /\ UNCHANGED <<source, got, bundle, host, imports, faults>> /\ pcx = "idle" /\ todo' = Tables
      /\ pcx' \in {"reading", "failed"}
      /\ pcx' = "reading" /\ job.mode = "run" => RunKey \in Keys(src)
  BY DEF BeginRunExport, BeginEvalExport, RunKey
<1>2. SourceClosed'
  BY <1>1 DEF KInv, SourceClosed, source
<1>3. ReadSoFar'
  <2>1. got' = {}
    BY <1>1 DEF KInv, ReadSoFar
  <2>2. Tables' = Tables
    BY <1>1 DEF Tables, source
  <2>3. Reads(todo)' = Reads(Tables)'
    BY <1>1, <2>2 DEF Reads
  <2> QED
    BY <1>1, <2>1, <2>3 DEF ReadSoFar, source
<1>4. bundle = None
  BY <1>1 DEF KInv, JInv, IInv, Sealed
<1>5. Unspoilt' /\ Refusals'
  BY <1>1, <1>4 DEF KInv, Unspoilt, Refusals, imports, source
<1> QED
  BY <1>2, <1>3, <1>5

LEMMA ReadKeepsRound ==
  ASSUME KInv, ReadTable
  PROVE  (SourceClosed /\ ReadSoFar /\ Unspoilt /\ Refusals)'
<1>1. /\ UNCHANGED <<source, bundle, host, imports, faults>> /\ pcx = "reading" /\ todo # <<>>
      /\ got' = got \cup Selected(src, Head(todo)) /\ todo' = Tail(todo)
      /\ pcx' = IF Len(todo) = 1 THEN "staged" ELSE pcx
  BY DEF ReadTable
<1>2. SourceClosed'
  BY <1>1 DEF KInv, SourceClosed, source
<1>3. /\ Len(todo) \in Nat /\ Len(todo) # 0 /\ Head(todo) = todo[1] /\ Len(todo') = Len(todo) - 1
      /\ DOMAIN todo = 1 .. Len(todo) /\ DOMAIN todo' = 1 .. (Len(todo) - 1)
      /\ \A n \in 1 .. (Len(todo) - 1) : todo'[n] = todo[n + 1]
      /\ todo' \in Seq(Table)
  <2>1. todo \in Seq(Table)
    BY DEF KInv, JInv, IInv, TypeOK
  <2> QED
    BY <1>1, <2>1
<1>4. got' \cup Reads(todo)' = got \cup Reads(todo)
  <2>1. src' = src
    BY <1>1 DEF source
  <2>2. Reads(todo)' = UNION {Selected(src, todo'[n]) : n \in 1 .. (Len(todo) - 1)}
    BY <1>3, <2>1 DEF Reads, Selected, Of, Curated
  <2>3. ASSUME NEW x, NEW n \in 1 .. Len(todo), x \in Selected(src, todo[n])
        PROVE  x \in got' \/ \E m \in 1 .. (Len(todo) - 1) : x \in Selected(src, todo'[m])
    <3>1. CASE n = 1
      BY <1>1, <1>3, <2>3, <3>1
    <3>2. CASE n # 1
      <4>1. n - 1 \in 1 .. (Len(todo) - 1) /\ (n - 1) + 1 = n
        BY <1>3, <3>2
      <4> QED
        BY <1>3, <2>3, <4>1
    <3> QED
      BY <3>1, <3>2
  <2>4. ASSUME NEW x, NEW n \in 1 .. (Len(todo) - 1), x \in Selected(src, todo'[n])
        PROVE  \E m \in 1 .. Len(todo) : x \in Selected(src, todo[m])
    <3>1. n + 1 \in 1 .. Len(todo)
      BY <1>3
    <3> QED
      BY <1>3, <2>4, <3>1
  <2>5. 1 \in 1 .. Len(todo)
    BY <1>3
  <2>6. Reads(todo) = UNION {Selected(src, todo[n]) : n \in 1 .. Len(todo)}
    BY <1>3 DEF Reads
  <2>7. \A x : x \in Reads(todo)' <=> \E n \in 1 .. (Len(todo) - 1) : x \in Selected(src, todo'[n])
    BY <2>2
  <2>8. \A x : x \in Reads(todo) <=> \E n \in 1 .. Len(todo) : x \in Selected(src, todo[n])
    BY <2>6
  <2>9. \A x : x \in got' <=> x \in got \/ x \in Selected(src, todo[1])
    BY <1>1, <1>3
  <2>10. \A x : x \in got' \cup Reads(todo)' <=> x \in got \cup Reads(todo)
    BY <2>3, <2>4, <2>5, <2>7, <2>8, <2>9
  <2> QED
    BY <2>10
<1>5. Reads(Tables)' = Reads(Tables)
  BY <1>1 DEF Reads, Tables, Selected, Of, Curated, source
<1>6. Len(todo) = 1 => todo' = <<>>
  BY <1>3
<1>7. ReadSoFar'
  <2>1. job' = job /\ src' = src /\ quiet' = quiet
    BY <1>1 DEF source
  <2>2. pcx' \in {"reading", "staged"} /\ (pcx' = "staged" => todo' = <<>>)
    BY <1>1, <1>6
  <2>3. job.mode = "run" => RunKey \in Keys(src)
    BY <1>1 DEF KInv, ReadSoFar
  <2>4. quiet => got \cup Reads(todo) = Reads(Tables)
    BY <1>1 DEF KInv, ReadSoFar
  <2> QED
    BY <1>4, <1>5, <2>1, <2>2, <2>3, <2>4 DEF ReadSoFar
<1>8. bundle = None
  BY <1>1 DEF KInv, JInv, IInv, Sealed
<1>9. Unspoilt' /\ Refusals'
  BY <1>1, <1>8 DEF KInv, Unspoilt, Refusals, imports, source
<1> QED
  BY <1>2, <1>7, <1>9

LEMMA SealKeepsRound ==
  ASSUME KInv, Seal \/ ExportFails \/ Damage
  PROVE  (SourceClosed /\ ReadSoFar /\ Unspoilt /\ Refusals)'
<1>1. UNCHANGED <<source, todo, got, host, imports>>
  BY DEF Seal, ExportFails, Damage, exporter
<1>2. SourceClosed'
  BY <1>1 DEF KInv, SourceClosed, source
<1>3. Reads(todo)' = Reads(todo) /\ Reads(Tables)' = Reads(Tables)
  BY <1>1 DEF Reads, Tables, Selected, Of, Curated, source
<1>4. pcx' = pcx \/ pcx' = "failed" \/ (pcx = "staged" /\ pcx' = "sealed")
  BY DEF Seal, ExportFails, Damage, exporter
<1>5. ReadSoFar'
  BY <1>1, <1>3, <1>4 DEF KInv, ReadSoFar, source
<1>6. faults \in Nat
  BY ExchangeAssumption DEF KInv, JInv, IInv, TypeOK
<1>7. CASE faults' = faults + 1
  <2>1. faults' # 0
    BY <1>6, <1>7
  <2>2. bundle' = None => bundle = None
    <3>1. CASE Seal
      BY <3>1 DEF Seal, KInv, JInv, IInv, Sealed
    <3>2. CASE ExportFails
      BY <3>2 DEF ExportFails
    <3>3. CASE Damage
      BY <3>3, DamageKeeps DEF Damage, exporter, KInv, JInv, IInv, Sealed
    <3> QED
      BY <3>1, <3>2, <3>3
  <2> QED
    BY <1>1, <1>2, <1>5, <2>1, <2>2 DEF KInv, Unspoilt, Refusals, source, imports
<1>8. CASE ~(faults' = faults + 1)
  <2>1. bundle' = [stage |-> Staged, manifest |-> Staged] /\ bundle = None
    BY <1>8 DEF Seal, ExportFails, Damage, Fault, KInv, JInv, IInv, Sealed
  <2>2. Verified'
    BY <2>1 DEF Verified
  <2>3. \A j \in Importer : at[j] = "idle"
    BY <2>1 DEF KInv, Unspoilt
  <2>4. at' = at /\ job' = job
    BY <1>1 DEF imports, source
  <2>5. Unspoilt' /\ Refusals'
    BY <2>2, <2>3, <2>4 DEF Unspoilt, Refusals
  <2> QED
    BY <1>2, <1>5, <2>5
<1> QED
  BY <1>7, <1>8

(***************************************************************************)
(* An import of it, when nothing goes wrong                                *)
(***************************************************************************)
\* What a quiet export has sealed, and what arrives of it undamaged.
LEMMA QuietBundle ==
  ASSUME KInv, quiet, bundle # None
  PROVE  /\ bundle.manifest.rows = Evidence(src)
         /\ faults = 0 => bundle.stage.rows = Evidence(src)
         /\ job.mode = "run" => RunKey \in Keys(src)
<1>1. pcx = "sealed" /\ bundle.manifest = Staged /\ TypeOK /\ SourceClosed
  BY DEF KInv, JInv, IInv, Sealed, TypeOK
<1>2. Reads(todo) = {}
  BY <1>1 DEF KInv, ReadSoFar, Reads
<1>3. got = Reads(Tables)
  BY <1>1, <1>2 DEF KInv, ReadSoFar
<1>4. bundle.manifest.rows = Evidence(src)
  BY <1>1, <1>3, QueriesFindEvidence DEF Staged
<1>5. faults = 0 => bundle.stage.rows = bundle.manifest.rows
  BY DEF KInv, Unspoilt, Verified
<1>6. job.mode = "run" => RunKey \in Keys(src)
  BY <1>1 DEF KInv, ReadSoFar
<1> QED
  BY <1>4, <1>5, <1>6

\* The run's row is in it, and no other of its table.
LEMMA OneRunsRow ==
  ASSUME TypeOK, job.mode = "run", RunKey \in Keys(src)
  PROVE  \E x \in Evidence(src) : Key(x) = RunKey /\ x.t = "runs" /\ {r \in Evidence(src) : r.t = "runs"} = {x}
<1>1. PICK x \in src : Key(x) = RunKey
  BY DEF Keys
<1>2. x \in Evidence(src)
  BY <1>1 DEF Evidence, OfRun
<1>3. x.t = "runs"
  BY <1>1 DEF Key, RunKey
<1>4. ASSUME NEW r \in Evidence(src), r.t = "runs" PROVE r = x
  <2>1. r \in src /\ r \in Row
    BY SourceRows DEF Evidence, OfRun, OfEval, Compared, Named
  <2>2. r.up = {} /\ Key(r)[1] = "runs"
    BY <1>4, <2>1, References
  <2>3. Key(r) = RunKey
    BY <1>4, <2>2 DEF Evidence, OfRun, OfEval, Compared, Named, EvalKey
  <2> QED
    BY <1>1, <2>1, <2>3, SourceRows
<1> QED
  BY <1>1, <1>2, <1>3, <1>4

\* The transaction is refused for a key that is taken, and for nothing else.
LEMMA OnlyKeysRefuse ==
  ASSUME KInv, quiet, bundle # None, faults = 0,
         NotOneRun(bundle.stage.rows) \/ Clash(bundle.stage.rows) \/ Dangling(bundle.stage.rows)
  PROVE  Taken
<1>1. /\ bundle.stage.rows = Evidence(src) /\ bundle.manifest.rows = Evidence(src)
      /\ TypeOK /\ SourceClosed /\ (job.mode = "run" => RunKey \in Keys(src))
  BY QuietBundle DEF KInv, JInv, IInv
<1>2. ~NotOneRun(Evidence(src))
  <2> SUFFICES ASSUME job.mode = "run" PROVE Cardinality({r \in Evidence(src) : r.t = "runs"}) = 1
    BY DEF NotOneRun
  <2>1. PICK x : {r \in Evidence(src) : r.t = "runs"} = {x}
    BY <1>1, OneRunsRow
  <2> QED
    BY <2>1, FS_Singleton
<1>3. ~Dangling(Evidence(src))
  <2>1. Keys(Evidence(src)) \subseteq Keys(Holds(held) \cup Evidence(src))
    BY DEF Keys
  <2> QED
    BY <1>1, <2>1, EvidenceIsClosed DEF Dangling
<1> QED
  BY <1>1, <1>2, <1>3 DEF Clash, Taken

\* What is held stays, and so does what keeps a bundle out.
LEMMA TakenStays ==
  ASSUME Holds(held) \subseteq Holds(held'), bundle' = bundle, Taken
  PROVE  Taken'
<1>1. Keys(Holds(held)) \subseteq Keys(Holds(held'))
  BY DEF Keys
<1>2. Holds(held)' = Holds(held')
  BY DEF Holds
<1> QED
  BY <1>1, <1>2 DEF Taken

LEMMA ImportKeepsRound ==
  ASSUME KInv, NEW i \in Importer, ImportStep(i) \/ Break(i)
  PROVE  (SourceClosed /\ ReadSoFar /\ Unspoilt /\ Refusals)'
<1>1. UNCHANGED <<source, exporter, bundle>>
  BY DEF ImportStep, Extract, CheckDir, Insert, Look, MakeDir, OpenFile, FillFile, Finish, Break
<1>2. SourceClosed'
  BY <1>1 DEF KInv, SourceClosed, source
<1>3. ReadSoFar'
  <2>1. Reads(todo)' = Reads(todo) /\ Reads(Tables)' = Reads(Tables)
    BY <1>1 DEF Reads, Tables, Selected, Of, Curated, source, exporter
  <2> QED
    BY <1>1, <2>1 DEF KInv, ReadSoFar, source, exporter
<1>4. bundle # None
  BY DEF KInv, JInv, IInv, Checked, ImportStep, Extract, CheckDir, Insert, Look, MakeDir, OpenFile, FillFile, Finish, Break
<1>5. Holds(held) \subseteq Holds(held')
  <2>1. CASE Insert(i)
    <3>1. bundle.stage.rows \in SUBSET Row /\ held \in [Row -> Nat]
      BY <1>4 DEF KInv, JInv, IInv, TypeOK, Content
    <3>2. held' = held \/ held' = Inserted(bundle.stage.rows)
      BY <2>1 DEF Insert
    <3> QED
      BY <3>1, <3>2, InsertedRows
  <2>2. CASE ~Insert(i)
    <3>1. held' = held
      BY <2>2 DEF ImportStep, Extract, CheckDir, Look, MakeDir, OpenFile, FillFile, Finish, Break, host
    <3> QED
      BY <3>1
  <2> QED
    BY <2>1, <2>2
<1>6. /\ at' = [at EXCEPT ![i] = at'[i]] /\ at \in [Importer -> {"idle", "check", "insert", "look", "mkdir", "copy", "ok", "refused", "broken"}]
      /\ at'[i] = "check" => job.mode = "run"
      /\ at[i] # "refused"
  BY DEF KInv, JInv, IInv, TypeOK, ImportStep, Extract, CheckDir, Insert, Look, MakeDir, OpenFile, FillFile, Finish, Break, Goto
<1>7. faults' = faults \/ faults' # 0
  <2>1. faults \in Nat
    BY ExchangeAssumption DEF KInv, JInv, IInv, TypeOK
  <2>2. faults' = faults \/ faults' = faults + 1
    BY DEF ImportStep, Extract, CheckDir, Insert, Look, MakeDir, OpenFile, FillFile, Finish, Break, Fault
  <2> QED
    BY <2>1, <2>2
<1>8. Unspoilt'
  <2>1. Verified' = Verified /\ job' = job
    BY <1>1 DEF Verified, source
  <2>2. \A j \in Importer : j # i => at'[j] = at[j]
    BY <1>6
  <2> QED
    BY <1>1, <1>4, <1>6, <1>7, <2>1, <2>2 DEF KInv, Unspoilt
<1>9. Refusals'
  <2> SUFFICES ASSUME quiet, faults' = 0, NEW j \in Importer, at'[j] = "refused" PROVE Taken'
    BY <1>1 DEF Refusals, source
  <2>1. faults = 0
    BY <1>7
  <2>2. CASE j # i
    <3>1. at[j] = "refused"
      BY <1>6, <2>2
    <3>2. Taken
      BY <1>4, <2>1, <3>1 DEF KInv, Refusals
    <3> QED
      BY <1>1, <1>5, <3>2, TakenStays
  <2>3. CASE j = i
    <3>1. \/ Extract(i) /\ ~Verified
          \/ CheckDir(i) /\ dir # None
          \/ Insert(i) /\ (NotOneRun(bundle.stage.rows) \/ Clash(bundle.stage.rows) \/ Dangling(bundle.stage.rows))
      BY <1>6, <2>3 DEF ImportStep, Extract, CheckDir, Insert, Look, MakeDir, OpenFile, FillFile, Finish, Break, Goto
    <3>2. Verified
      BY <1>4, <2>1 DEF KInv, Unspoilt
    <3>3. ASSUME CheckDir(i), dir # None PROVE Taken
      <4>1. job.mode = "run"
        BY <3>3 DEF CheckDir, KInv, Unspoilt
      <4>2. RunKey \in Keys(Holds(held))
        BY <3>3, <4>1 DEF KInv, JInv, OneRun, RunHeld
      <4>3. bundle.manifest.rows = Evidence(src) /\ RunKey \in Keys(src) /\ TypeOK
        BY <1>4, <4>1, QuietBundle DEF KInv, JInv, IInv
      <4>4. PICK x \in bundle.manifest.rows : Key(x) = RunKey /\ x.t = "runs"
        BY <4>1, <4>3, OneRunsRow
      <4> QED
        BY <4>2, <4>4 DEF Taken, Keyed
    <3>4. Taken
      BY <1>4, <2>1, <3>1, <3>2, <3>3, OnlyKeysRefuse
    <3> QED
      BY <1>1, <1>5, <3>4, TakenStays
  <2> QED
    BY <2>2, <2>3
<1> QED
  BY <1>2, <1>3, <1>8, <1>9

LEMMA NextKInv == KInv /\ [Next]_vars => KInv'
<1> SUFFICES ASSUME KInv, [Next]_vars PROVE KInv'
  OBVIOUS
<1>1. JInv'
  BY NextJInv DEF KInv
<1>2. CASE Done \/ UNCHANGED vars
  <2>1. UNCHANGED vars
    BY <1>2 DEF Done
  <2>2. UNCHANGED <<job, src, quiet, pcx, todo, got, bundle, held, at, faults>>
    BY <2>1 DEF vars, source, exporter, host, imports
  <2>3. Reads(todo)' = Reads(todo) /\ Reads(Tables)' = Reads(Tables) /\ Verified' = Verified /\ Taken' = Taken
    BY <2>2 DEF Reads, Tables, Selected, Of, Curated, Verified, Taken, Holds
  <2> QED
    BY <1>1, <2>2, <2>3 DEF KInv, SourceClosed, ReadSoFar, Unspoilt, Refusals
<1>3. CASE Next /\ ~Done
  <2>1. (SourceClosed /\ ReadSoFar /\ Unspoilt /\ Refusals)'
    BY <1>3, WriteKeepsRound, BeginKeepsRound, ReadKeepsRound, SealKeepsRound, ImportKeepsRound DEF Next
  <2> QED
    BY <1>1, <2>1 DEF KInv
<1> QED
  BY <1>2, <1>3

\* An export beside which nobody writes has all the evidence, by the references of the
\* schema, and nothing but a key that is taken makes an import of it refuse, for any rows
\* that the schema allows, and any number of imports (export_import.go:292-391, 687-941).
THEOREM QuietExportsImport == Spec => []RoundtripWorks
<1>1. KInv => RoundtripWorks
  <2> SUFFICES ASSUME KInv, quiet, bundle # None
               PROVE  /\ bundle.manifest.rows = EvidenceOf(src)
                      /\ faults = 0 => \A i \in Importer : at[i] = "refused" => Taken
    BY DEF RoundtripWorks
  <2>1. bundle.manifest.rows = EvidenceOf(src)
    <3>1. TypeOK
      BY DEF KInv, JInv, IInv
    <3> QED
      BY <3>1, QuietBundle, EvidenceByTable
  <2> QED
    BY <2>1 DEF KInv, Refusals
<1> QED
  BY <1>1, InitKInv, NextKInv, PTL DEF Spec

=============================================================================
