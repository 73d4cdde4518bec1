------------------------- MODULE ResearchRunProofs -------------------------
(***************************************************************************)
(* Theorems about ResearchRun, for every set of tracks, every plan, any    *)
(* number of commands and of faults.                                       *)
(***************************************************************************)
EXTENDS ResearchRun, TLAPS

\* What a command's phase says about the command, its tracks and their states.
PhasesFit ==
  /\ phase \in {"scheduling", "mapping"} => cmd \in {"run", "map", "replay"}
  /\ phase = "comparing" => cmd = "replay"
  /\ phase = "reducing" => cmd \in {"run", "reduce"}
  /\ cmd = "run" => todo = Track
  /\ phase = "scheduling" => \A t \in Track : status[t] = "pending"
  /\ phase = "comparing" \/ (phase = "reducing" /\ cmd = "run")
       => \A t \in Track : status[t] \in {"done", "failed", "blocked"}

\* Mappers work for the tracks that run, and hold rows as long as they work.
MappersWork ==
  \A t \in Track :
    /\ work[t] # "none" => phase = "mapping" /\ status[t] = "running" /\ rows[t] \in Whole
    /\ work[t] = "none" => rows[t] = "none"

\* A deep track never has but fresh rows.
DeepIsFresh ==
  \A t \in Track \ Wide :
    rows[t] \in {"none", "fresh"} /\ map[t] \in {"none", "torn", "fresh"} /\ backup[t] \in {"none", "torn", "fresh"}

\* Only the tracks of the command run; what it has done is whole, and what was done before
\* it is there; what runs has its dependencies done.
StatesFitFiles ==
  phase \in {"mapping", "comparing", "reducing"} =>
    \A t \in Track :
      /\ status[t] = "done" => map[t] # "none"
      /\ status[t] = "done" /\ t \in todo => map[t] \in Whole
      /\ status[t] = "running" => t \in todo /\ \A d \in plan[t] : status[d] = "done"
      /\ status[t] = "pending" => t \in todo \/ cmd = "reduce"

\* A replay starts from empty places: a whole file of its tracks is one it wrote.
ReplayStartsEmpty ==
  cmd = "replay" /\ phase \in {"scheduling", "mapping", "comparing"} =>
    \A t \in todo : map[t] \in Whole => status[t] = "done"

\* The inductive invariant.
IInv ==
  /\ TypeOK /\ PhasesFit /\ MappersWork /\ DeepIsFresh /\ StatesFitFiles /\ ReplayStartsEmpty
  /\ AlarmsAreRight /\ ReportWaitsForMappers

(***************************************************************************)
(* The types, in parts                                                     *)
(***************************************************************************)
Phase == {"idle", "scheduling", "mapping", "comparing", "reducing"}

WordsTyped ==
  /\ cmd \in {"none", "plan", "run", "map", "replay", "reduce", "stopped"} /\ phase \in Phase
  /\ todo \subseteq Track /\ alarms \subseteq Track /\ mismatch \subseteq Track

StatesTyped == plan \in Plans /\ status \in [Track -> {"pending", "running", "done", "failed", "blocked"}]

WorkTyped == work \in [Track -> {"none", "gathered", "created"}] /\ rows \in [Track -> {"none"} \cup Whole]

FilesTyped ==
  /\ map \in [Track -> Content] /\ backup \in [Track -> Content]
  /\ cache \in [Track -> {"cold", "some", "warm"}]

ReportTyped == report \in [rows : [Track -> Content], contradictions : SUBSET Track]

CountsTyped == commands \in 0 .. MaxCommands /\ faults \in 0 .. MaxFaults

LEMMA TypeParts ==
  TypeOK <=> WordsTyped /\ StatesTyped /\ WorkTyped /\ FilesTyped /\ ReportTyped /\ CountsTyped
BY DEF TypeOK, WordsTyped, StatesTyped, WorkTyped, FilesTyped, ReportTyped, CountsTyped, Phase

LEMMA TypePartsNext ==
  TypeOK' <=> WordsTyped' /\ StatesTyped' /\ WorkTyped' /\ FilesTyped' /\ ReportTyped' /\ CountsTyped'
BY DEF TypeOK, WordsTyped, StatesTyped, WorkTyped, FilesTyped, ReportTyped, CountsTyped, Phase

\* The dependencies of a track are tracks.
LEMMA DepsAreTracks ==
  ASSUME TypeOK, NEW t \in Track
  PROVE  plan[t] \subseteq Track
BY ResearchAssumption, TypeParts DEF StatesTyped

\* What stays when the counters do, and what a fault adds to them.
LEMMA CountsStay ==
  ASSUME TypeOK, commands' = commands, faults' = faults \/ Fault
  PROVE  CountsTyped'
<1>1. commands \in 0 .. MaxCommands /\ faults \in 0 .. MaxFaults /\ MaxFaults \in Nat
  BY ResearchAssumption, TypeParts DEF CountsTyped
<1>2. Fault => faults' \in 0 .. MaxFaults
  BY <1>1 DEF Fault
<1> QED
  BY <1>1, <1>2 DEF CountsTyped

LEMMA CommandCounts ==
  ASSUME TypeOK, commands < MaxCommands, commands' = commands + 1, faults' = faults
  PROVE  CountsTyped'
<1>1. commands \in 0 .. MaxCommands /\ faults \in 0 .. MaxFaults /\ MaxCommands \in Nat
  BY ResearchAssumption, TypeParts DEF CountsTyped
<1>2. commands' \in 0 .. MaxCommands
  BY <1>1
<1> QED
  BY <1>1, <1>2 DEF CountsTyped

(***************************************************************************)
(* Commands                                                                *)
(***************************************************************************)
LEMMA InitIInv == Init => IInv
<1> SUFFICES ASSUME Init PROVE IInv
  OBVIOUS
<1> USE DEF Init, Nothing
<1>1. WordsTyped /\ WorkTyped
  BY DEF WordsTyped, WorkTyped, Phase
<1>2. StatesTyped /\ FilesTyped
  BY DEF StatesTyped, FilesTyped, Content
<1>3. ReportTyped
  BY DEF ReportTyped, Content
<1>4. CountsTyped
  BY ResearchAssumption DEF CountsTyped
<1>5. TypeOK
  BY <1>1, <1>2, <1>3, <1>4, TypeParts
<1>6. PhasesFit /\ MappersWork /\ DeepIsFresh
  BY DEF PhasesFit, MappersWork, DeepIsFresh
<1>7. StatesFitFiles /\ ReplayStartsEmpty /\ AlarmsAreRight /\ ReportWaitsForMappers
  BY DEF StatesFitFiles, ReplayStartsEmpty, AlarmsAreRight, ReportWaitsForMappers
<1> QED
  BY <1>5, <1>6, <1>7 DEF IInv

\* A command starts with idle mappers and every track pending.
LEMMA GiveKeeps ==
  ASSUME IInv, NEW c, NEW S \in SUBSET Track, NEW p, Give(c, S, p),
         \/ c = "plan" /\ p = "idle"
         \/ c = "run" /\ S = Track /\ p = "scheduling"
         \/ c = "map" /\ p = "scheduling"
         \/ c = "reduce" /\ p = "reducing"
         \/ c = "replay" /\ (p = "scheduling" \/ (p = "idle" /\ S = {})),
         FilesTyped', DeepIsFresh', c = "replay" => \A t \in S : map'[t] = "none"
  PROVE  IInv'
<1>1. /\ phase = "idle" /\ commands < MaxCommands /\ commands' = commands + 1
      /\ cmd' = c /\ todo' = S /\ phase' = p /\ status' = [t \in Track |-> "pending"] /\ alarms' = {}
      /\ UNCHANGED <<plan, work, rows, mismatch, report, faults>>
  BY DEF Give, mapper
<1>2. TypeOK'
  <2>1. WordsTyped'
    BY <1>1, TypeParts DEF IInv, WordsTyped, Phase
  <2>2. StatesTyped' /\ WorkTyped' /\ ReportTyped'
    BY <1>1, TypeParts DEF IInv, StatesTyped, WorkTyped, ReportTyped
  <2>3. CountsTyped'
    BY <1>1, CommandCounts DEF IInv
  <2> QED
    BY <2>1, <2>2, <2>3, TypePartsNext
<1>3. PhasesFit'
  BY <1>1 DEF PhasesFit
<1>4. MappersWork'
  BY <1>1 DEF IInv, MappersWork
<1>5. StatesFitFiles'
  BY <1>1 DEF StatesFitFiles
<1>6. ReplayStartsEmpty'
  BY <1>1 DEF ReplayStartsEmpty, Whole
<1>7. AlarmsAreRight' /\ ReportWaitsForMappers'
  BY <1>1 DEF AlarmsAreRight, ReportWaitsForMappers
<1> QED
  BY <1>2, <1>3, <1>4, <1>5, <1>6, <1>7 DEF IInv

\* A replay takes its tracks out of map/, and what it takes out is backed up.
LEMMA ReplayTakesOut ==
  ASSUME TypeOK, NEW S \in SUBSET Track, backup' = BackedUp(S),
         map' = [t \in Track |-> IF t \in S THEN "none" ELSE map[t]]
  PROVE  \A t \in Track :
           /\ t \in S => map'[t] = "none" /\ backup'[t] = (IF map[t] = "none" THEN backup[t] ELSE map[t])
           /\ t \notin S => map'[t] = map[t] /\ backup'[t] = backup[t]
BY DEF BackedUp

LEMMA CommandKeeps ==
  ASSUME IInv, Command
  PROVE  IInv'
<1>1. CASE UNCHANGED files
  <2>1. FilesTyped' /\ map' = map /\ backup' = backup
    BY <1>1, TypeParts DEF IInv, files, FilesTyped
  <2>2. ASSUME NEW c, NEW S, NEW p, Give(c, S, p) PROVE DeepIsFresh'
    BY <2>1, <2>2 DEF IInv, DeepIsFresh, Give, mapper
  <2>3. CASE GivePlan
    BY <2>1, <2>2, <2>3, GiveKeeps DEF GivePlan
  <2>4. CASE GiveRun
    BY <2>1, <2>2, <2>4, GiveKeeps DEF GiveRun
  <2>5. CASE GiveMap
    <3>1. PICK S \in SUBSET Track \ {{}} : Give("map", S, "scheduling")
      BY <2>5 DEF GiveMap
    <3> QED
      BY <2>1, <2>2, <3>1, GiveKeeps
  <2>6. CASE GiveReduce
    BY <2>1, <2>2, <2>6, GiveKeeps DEF GiveReduce
  <2>7. CASE GiveReplay
    <3>1. PICK S \in SUBSET Track :
            /\ Give("replay", S, IF S = {} THEN "idle" ELSE "scheduling")
            /\ map' = [t \in Track |-> IF t \in S THEN "none" ELSE map[t]]
      BY <2>7 DEF GiveReplay, Missing
    <3>2. \A t \in S : map'[t] = "none"
      BY <3>1
    <3> QED
      BY <2>1, <2>2, <3>1, <3>2, GiveKeeps
  <2> QED
    BY <2>3, <2>4, <2>5, <2>6, <2>7 DEF Command
<1>2. CASE GiveReplay
  <2>1. PICK S \in SUBSET Track :
          /\ Give("replay", S, IF S = {} THEN "idle" ELSE "scheduling")
          /\ backup' = BackedUp(S) /\ map' = [t \in Track |-> IF t \in S THEN "none" ELSE map[t]] /\ cache' = cache
    BY <1>2 DEF GiveReplay, Missing
  <2>2. \A t \in Track :
           /\ t \in S => map'[t] = "none" /\ backup'[t] = (IF map[t] = "none" THEN backup[t] ELSE map[t])
           /\ t \notin S => map'[t] = map[t] /\ backup'[t] = backup[t]
    BY <2>1, ReplayTakesOut DEF IInv
  <2>3. FilesTyped'
    BY <2>1, TypeParts DEF IInv, FilesTyped, BackedUp, Content
  <2>4. DeepIsFresh'
    BY <2>1, <2>2 DEF IInv, DeepIsFresh, Give, mapper
  <2> QED
    BY <2>1, <2>2, <2>3, <2>4, GiveKeeps
<1> QED
  BY <1>1, <1>2 DEF Command, GivePlan, GiveRun, GiveMap, GiveReduce

(***************************************************************************)
(* The scheduler and the mappers                                           *)
(***************************************************************************)
\* A step while tracks are mapped: what is done stays done, a track starts behind done ones,
\* and a running one may truncate its file, fail, or be done with a whole file.
MayBecome(t) ==
  \/ status'[t] = status[t] /\ (map'[t] = map[t] \/ (status[t] = "running" /\ map'[t] = "torn"))
  \/ /\ status[t] = "pending" /\ map'[t] = map[t]
     /\ status'[t] = "blocked" \/ (status'[t] = "running" /\ \A d \in plan[t] : status[d] = "done")
  \/ status[t] = "running" /\ status'[t] = "failed" /\ map'[t] = map[t]
  \/ status[t] = "running" /\ status'[t] = "done" /\ map'[t] \in Whole

LEMMA MappingStep ==
  ASSUME IInv, phase = "mapping", UNCHANGED <<phase, plan, cmd, todo>>, \A t \in Track : MayBecome(t)
  PROVE  PhasesFit' /\ StatesFitFiles' /\ ReplayStartsEmpty' /\ AlarmsAreRight' /\ ReportWaitsForMappers'
<1>1. PhasesFit' /\ AlarmsAreRight' /\ ReportWaitsForMappers'
  BY DEF IInv, PhasesFit, AlarmsAreRight, ReportWaitsForMappers
<1>2. \A t \in Track : status[t] = "done" => status'[t] = "done" /\ map'[t] = map[t]
  BY DEF MayBecome
<1>3. StatesFitFiles'
  <2> SUFFICES ASSUME NEW t \in Track
      PROVE  /\ status'[t] = "done" => map'[t] # "none"
             /\ status'[t] = "done" /\ t \in todo => map'[t] \in Whole
             /\ status'[t] = "running" => t \in todo /\ \A d \in plan[t] : status'[d] = "done"
             /\ status'[t] = "pending" => t \in todo \/ cmd = "reduce"
    BY DEF StatesFitFiles
  <2>1. /\ status[t] = "done" => map[t] # "none"
        /\ status[t] = "done" /\ t \in todo => map[t] \in Whole
        /\ status[t] = "running" => t \in todo /\ \A d \in plan[t] : status[d] = "done"
        /\ status[t] = "pending" => t \in todo
    BY DEF IInv, StatesFitFiles, PhasesFit
  <2>2. \A d \in plan[t] : status[d] = "done" => status'[d] = "done"
    BY <1>2, DepsAreTracks DEF IInv
  <2> QED
    BY <2>1, <2>2 DEF MayBecome, Whole
<1>4. ReplayStartsEmpty'
  <2> SUFFICES ASSUME cmd = "replay", NEW t \in todo, map'[t] \in Whole PROVE status'[t] = "done"
    BY DEF ReplayStartsEmpty
  <2>1. t \in Track /\ (map[t] \in Whole => status[t] = "done")
    BY TypeParts DEF IInv, WordsTyped, ReplayStartsEmpty
  <2> QED
    BY <1>2, <2>1 DEF MayBecome, Whole
<1> QED
  BY <1>1, <1>3, <1>4

\* A step that leaves the mappers and the files alone.
LEMMA SchedulerStep ==
  ASSUME IInv, UNCHANGED <<mapper, files, alarms, mismatch, report, commands, faults>>,
         WordsTyped', StatesTyped'
  PROVE  TypeOK' /\ DeepIsFresh'
<1>1. UNCHANGED <<work, rows, map, backup, cache>>
  BY DEF mapper, files
<1>2. WorkTyped' /\ FilesTyped' /\ ReportTyped'
  BY <1>1, TypeParts DEF IInv, WorkTyped, FilesTyped, ReportTyped
<1>3. DeepIsFresh'
  BY <1>1 DEF IInv, DeepIsFresh
<1> QED
  BY <1>2, <1>3, CountsStay, TypePartsNext DEF IInv

LEMMA SettleKeeps ==
  ASSUME IInv, Settle
  PROVE  IInv'
<1>1. /\ phase = "scheduling" /\ phase' = "mapping"
      /\ status' = [t \in Track |-> IF t \in todo THEN "pending"
                                    ELSE IF map[t] # "none" THEN "done" ELSE "blocked"]
      /\ UNCHANGED <<plan, cmd, todo, work, rows, map, backup, cache, alarms, mismatch, report, commands, faults>>
  BY DEF Settle, HasArtifact, Dag!Settle, mapper, files
<1>2. WordsTyped'
  BY <1>1, TypeParts DEF IInv, WordsTyped, Phase
<1>3. StatesTyped'
  BY <1>1, TypeParts DEF IInv, StatesTyped
<1>4. TypeOK' /\ DeepIsFresh'
  BY <1>1, <1>2, <1>3, SchedulerStep DEF mapper, files
<1>5. PhasesFit' /\ AlarmsAreRight' /\ ReportWaitsForMappers'
  BY <1>1 DEF IInv, PhasesFit, AlarmsAreRight, ReportWaitsForMappers
<1>6. MappersWork'
  BY <1>1 DEF IInv, MappersWork
<1>7. StatesFitFiles'
  BY <1>1 DEF StatesFitFiles
<1>8. ReplayStartsEmpty'
  <2>1. \A t \in todo : t \in Track /\ (cmd = "replay" => status[t] = "pending" /\ map[t] \notin Whole)
    BY <1>1, TypeParts DEF IInv, WordsTyped, PhasesFit, ReplayStartsEmpty
  <2> QED
    BY <1>1, <2>1 DEF ReplayStartsEmpty
<1> QED
  BY <1>4, <1>5, <1>6, <1>7, <1>8 DEF IInv

\* Tracks start or are given up; those that run go on.
LEMMA ScheduleKeeps ==
  ASSUME IInv, Start \/ GiveUp
  PROVE  IInv'
<1>1. /\ phase = "mapping" /\ UNCHANGED <<phase, plan, cmd, todo>>
      /\ UNCHANGED <<work, rows, map, backup, cache, alarms, mismatch, report, commands, faults>>
  BY DEF Start, GiveUp, Dag!Start, Dag!GiveUp, mapper, files
<1>2. PICK S \in SUBSET Track, s \in {"running", "blocked"} :
        /\ status' = [t \in Track |-> IF t \in S THEN s ELSE status[t]]
        /\ \A t \in S : status[t] = "pending" /\ (s = "running" => \A d \in plan[t] : status[d] = "done")
  <2>1. CASE Start
    <3>1. PICK S \in SUBSET Dag!Pending :
            /\ \A t \in S : plan[t] \subseteq Dag!Done
            /\ status' = [t \in Track |-> IF t \in S THEN "running" ELSE status[t]]
      BY <2>1 DEF Start, Dag!Start
    <3>2. S \in SUBSET Track /\ \A t \in S : status[t] = "pending" /\ \A d \in plan[t] : status[d] = "done"
      BY <3>1 DEF Dag!Pending, Dag!Done
    <3> QED
      BY <3>1, <3>2
  <2>2. CASE GiveUp
    <3>1. status' = [t \in Track |-> IF t \in Dag!Pending THEN "blocked" ELSE status[t]]
      BY <2>2 DEF GiveUp, Dag!GiveUp
    <3>2. Dag!Pending \in SUBSET Track /\ \A t \in Dag!Pending : status[t] = "pending"
      BY DEF Dag!Pending
    <3> QED
      BY <3>1, <3>2
  <2> QED
    BY <2>1, <2>2
<1>3. \A t \in Track : MayBecome(t)
  BY <1>1, <1>2 DEF MayBecome
<1>4. WordsTyped'
  BY <1>1, TypeParts DEF IInv, WordsTyped
<1>5. StatesTyped'
  BY <1>1, <1>2, TypeParts DEF IInv, StatesTyped
<1>6. TypeOK' /\ DeepIsFresh'
  BY <1>1, <1>4, <1>5, SchedulerStep DEF mapper, files
<1>7. MappersWork'
  BY <1>1, <1>2 DEF IInv, MappersWork
<1> QED
  BY <1>1, <1>3, <1>6, <1>7, MappingStep DEF IInv

\* Every track is settled, so nothing is mapped any more.
LEMMA SettledKeeps ==
  ASSUME IInv, Settled
  PROVE  IInv'
<1>1. /\ phase = "mapping" /\ cmd \in {"run", "map", "replay"}
      /\ phase' = (IF cmd = "run" THEN "reducing" ELSE IF cmd = "replay" THEN "comparing" ELSE "idle")
      /\ UNCHANGED <<plan, status, cmd, todo, work, rows, map, backup, cache, alarms, mismatch, report, commands, faults>>
  BY DEF Settled, AfterMapping, mapper, files, IInv, PhasesFit
<1>2. \A t \in Track : status[t] \in {"done", "failed", "blocked"}
  BY TypeParts DEF Settled, Quiet, Dag!Pending, Dag!Running, IInv, StatesTyped
<1>3. WordsTyped'
  BY <1>1, TypeParts DEF IInv, WordsTyped, Phase
<1>4. StatesTyped'
  BY <1>1, TypeParts DEF IInv, StatesTyped
<1>5. TypeOK' /\ DeepIsFresh'
  BY <1>1, <1>3, <1>4, SchedulerStep DEF mapper, files
<1>6. PhasesFit' /\ AlarmsAreRight' /\ ReportWaitsForMappers'
  BY <1>1, <1>2 DEF IInv, PhasesFit, AlarmsAreRight, ReportWaitsForMappers
<1>7. MappersWork'
  <2>1. \A t \in Track : work[t] = "none"
    BY <1>2 DEF IInv, MappersWork
  <2> QED
    BY <1>1, <2>1 DEF IInv, MappersWork
<1>8. StatesFitFiles'
  BY <1>1 DEF IInv, StatesFitFiles
<1>9. ReplayStartsEmpty'
  BY <1>1 DEF IInv, ReplayStartsEmpty
<1> QED
  BY <1>5, <1>6, <1>7, <1>8, <1>9 DEF IInv

\* The rows a mapper gathers are whole, and fresh for a deep track.
LEMMA GatheredIsWhole ==
  ASSUME NEW t
  PROVE  GatheredRows(t) \in Whole /\ (t \notin Wide => GatheredRows(t) = "fresh")
BY DEF GatheredRows, Whole

\* A mapper gathers, truncates and writes for a track that runs.
LEMMA MapperKeeps ==
  ASSUME IInv, NEW t \in Track, Mapper(t)
  PROVE  IInv'
<1>1. /\ phase = "mapping" /\ status[t] = "running"
      /\ UNCHANGED <<phase, plan, cmd, todo, backup, alarms, mismatch, report, commands, faults>>
  BY DEF Mapper, Gather, Create, Write, Mapping, Dag!Running, Dag!Finish
<1>2. WordsTyped' /\ ReportTyped' /\ CountsTyped'
  BY <1>1, TypeParts, CountsStay DEF IInv, WordsTyped, ReportTyped
<1>3. /\ work \in [Track -> {"none", "gathered", "created"}] /\ rows \in [Track -> {"none"} \cup Whole]
      /\ map \in [Track -> Content] /\ backup \in [Track -> Content] /\ cache \in [Track -> {"cold", "some", "warm"}]
      /\ plan \in Plans /\ status \in [Track -> {"pending", "running", "done", "failed", "blocked"}]
  BY TypeParts DEF IInv, WorkTyped, FilesTyped, StatesTyped
<1>4. CASE Gather(t)
  <2>1. /\ rows' = [rows EXCEPT ![t] = GatheredRows(t)] /\ work' = [work EXCEPT ![t] = "gathered"]
        /\ cache' = cache \/ cache' = [cache EXCEPT ![t] = "warm"]
        /\ UNCHANGED <<status, map>>
    BY <1>4 DEF Gather
  <2>2. WorkTyped' /\ FilesTyped' /\ StatesTyped'
    BY <1>1, <1>3, <2>1, GatheredIsWhole DEF WorkTyped, FilesTyped, StatesTyped
  <2>3. MappersWork' /\ DeepIsFresh'
    BY <1>1, <1>3, <2>1, GatheredIsWhole DEF IInv, MappersWork, DeepIsFresh
  <2>4. \A x \in Track : MayBecome(x)
    BY <2>1 DEF MayBecome
  <2> QED
    BY <1>1, <1>2, <2>2, <2>3, <2>4, MappingStep, TypePartsNext DEF IInv
<1>5. CASE Create(t)
  <2>1. /\ map' = [map EXCEPT ![t] = "torn"] /\ work' = [work EXCEPT ![t] = "created"] /\ work[t] = "gathered"
        /\ UNCHANGED <<status, rows, cache>>
    BY <1>5 DEF Create
  <2>2. WorkTyped' /\ FilesTyped' /\ StatesTyped'
    BY <1>1, <1>3, <2>1 DEF WorkTyped, FilesTyped, StatesTyped, Content
  <2>3. MappersWork' /\ DeepIsFresh'
    BY <1>1, <1>3, <2>1 DEF IInv, MappersWork, DeepIsFresh
  <2>4. \A x \in Track : MayBecome(x)
    BY <1>1, <1>3, <2>1 DEF MayBecome
  <2> QED
    BY <1>1, <1>2, <2>2, <2>3, <2>4, MappingStep, TypePartsNext DEF IInv
<1>6. CASE Write(t)
  <2>1. /\ map' = [map EXCEPT ![t] = rows[t]] /\ work' = [work EXCEPT ![t] = "none"] /\ work[t] = "created"
        /\ rows' = [rows EXCEPT ![t] = "none"] /\ status' = [status EXCEPT ![t] = "done"] /\ cache' = cache
    BY <1>6 DEF Write, Stopped, Dag!Finish
  <2>2. rows[t] \in Whole
    BY <2>1 DEF IInv, MappersWork
  <2>3. WorkTyped' /\ FilesTyped' /\ StatesTyped'
    BY <1>1, <1>3, <2>1, <2>2 DEF WorkTyped, FilesTyped, StatesTyped, Content
  <2>4. MappersWork'
    BY <1>1, <1>3, <2>1 DEF IInv, MappersWork
  <2>5. DeepIsFresh'
    BY <1>1, <1>3, <2>1 DEF IInv, DeepIsFresh
  <2>6. \A x \in Track : MayBecome(x)
    BY <1>1, <1>3, <2>1, <2>2 DEF MayBecome
  <2> QED
    BY <1>1, <1>2, <2>3, <2>4, <2>5, <2>6, MappingStep, TypePartsNext DEF IInv
<1> QED
  BY <1>4, <1>5, <1>6 DEF Mapper

\* A mapper fails, and blocks pending tracks only.
LEMMA MapFailsKeeps ==
  ASSUME IInv, NEW t \in Track, MapFails(t)
  PROVE  IInv'
<1>1. /\ phase = "mapping" /\ status[t] = "running" /\ Fault
      /\ work' = [work EXCEPT ![t] = "none"] /\ rows' = [rows EXCEPT ![t] = "none"]
      /\ UNCHANGED <<phase, plan, cmd, todo, map, backup, cache, alarms, mismatch, report, commands>>
  BY DEF MapFails, Mapping, Stopped, Dag!Running, Dag!Fail, files
<1>2. PICK B \in SUBSET Dag!Pending :
        status' = [x \in Track |-> IF x = t THEN "failed" ELSE IF x \in B THEN "blocked" ELSE status[x]]
  <2>1. Dag!Downstream(t) \in SUBSET Dag!Pending /\ {} \in SUBSET Dag!Pending
    BY DEF Dag!Downstream
  <2> QED
    BY <2>1 DEF MapFails, Dag!Fail
<1>3. \A x \in Track : x # t => status'[x] = status[x] \/ (status[x] = "pending" /\ status'[x] = "blocked")
  BY <1>2 DEF Dag!Pending
<1>4. \A x \in Track : MayBecome(x)
  <2>1. status'[t] = "failed"
    BY <1>2
  <2> QED
    BY <1>1, <1>3, <2>1 DEF MayBecome
<1>5. WordsTyped' /\ ReportTyped' /\ FilesTyped'
  BY <1>1, TypeParts DEF IInv, WordsTyped, ReportTyped, FilesTyped
<1>6. WorkTyped'
  BY <1>1, TypeParts DEF IInv, WorkTyped
<1>7. StatesTyped'
  BY <1>1, <1>2, TypeParts DEF IInv, StatesTyped
<1>8. TypeOK'
  BY <1>1, <1>5, <1>6, <1>7, CountsStay, TypePartsNext DEF IInv
<1>9. MappersWork'
  BY <1>1, <1>3, TypeParts DEF IInv, MappersWork, WorkTyped
<1>10. DeepIsFresh'
  BY <1>1, TypeParts DEF IInv, DeepIsFresh, WorkTyped
<1> QED
  BY <1>1, <1>4, <1>8, <1>9, <1>10, MappingStep DEF IInv

(***************************************************************************)
(* The end of a command                                                    *)
(***************************************************************************)
\* A replay over is one that told: what is not done has no whole file left to match, and
\* what a deep track wrote is what it had written.
LEMMA CompareKeeps ==
  ASSUME IInv, Compare
  PROVE  IInv'
<1>1. /\ phase = "comparing" /\ phase' = "idle" /\ cmd = "replay" /\ alarms' \in SUBSET Compared
      /\ \A t \in alarms' : MayDiffer(backup[t], map[t])
      /\ \A t \in Compared \ alarms' : MayMatch(backup[t], map[t])
      /\ mismatch' = IF alarms' = {} THEN mismatch ELSE alarms'
      /\ UNCHANGED <<plan, status, cmd, todo, work, rows, map, backup, cache, report, commands, faults>>
  BY DEF Compare, mapper, files, IInv, PhasesFit
<1>2. todo \subseteq Track
  BY TypeParts DEF IInv, WordsTyped
<1>3. WordsTyped'
  <2>1. alarms' \subseteq Track
    BY <1>1, <1>2 DEF Compared
  <2> QED
    BY <1>1, <2>1, TypeParts DEF IInv, WordsTyped, Phase
<1>4. StatesTyped' /\ WorkTyped' /\ FilesTyped' /\ ReportTyped'
  BY <1>1, TypeParts DEF IInv, StatesTyped, WorkTyped, FilesTyped, ReportTyped
<1>5. TypeOK'
  BY <1>1, <1>3, <1>4, CountsStay, TypePartsNext DEF IInv
<1>6. PhasesFit' /\ MappersWork' /\ DeepIsFresh'
  BY <1>1 DEF IInv, PhasesFit, MappersWork, DeepIsFresh
<1>7. StatesFitFiles' /\ ReplayStartsEmpty' /\ ReportWaitsForMappers'
  BY <1>1 DEF StatesFitFiles, ReplayStartsEmpty, ReportWaitsForMappers
<1>8. AlarmsAreRight'
  <2> SUFFICES ASSUME NEW t \in todo \ NonDet, backup[t] \in Whole
      PROVE  /\ status[t] # "done" => t \in alarms'
             /\ status[t] = "done" /\ t \notin Wide => t \notin alarms'
    BY <1>1 DEF AlarmsAreRight
  <2>1. t \in Compared /\ t \in Track
    BY <1>2 DEF Compared, Whole
  <2>2. ASSUME status[t] # "done" PROVE t \in alarms'
    <3>1. map[t] \notin Whole
      BY <1>1, <2>2 DEF IInv, ReplayStartsEmpty
    <3>2. ~MayMatch(backup[t], map[t])
      BY <3>1 DEF MayMatch, Whole
    <3> QED
      BY <1>1, <2>1, <3>2
  <2>3. ASSUME status[t] = "done", t \notin Wide PROVE t \notin alarms'
    <3>1. map[t] \in Whole
      BY <1>1, <2>1, <2>3 DEF IInv, StatesFitFiles
    <3>2. map[t] = "fresh" /\ backup[t] = "fresh"
      BY <2>1, <2>3, <3>1 DEF IInv, DeepIsFresh, Whole
    <3>3. ~MayDiffer(backup[t], map[t])
      BY <3>2 DEF MayDiffer
    <3> QED
      BY <1>1, <3>3
  <2> QED
    BY <2>2, <2>3
<1> QED
  BY <1>5, <1>6, <1>7, <1>8 DEF IInv

LEMMA ReduceKeeps ==
  ASSUME IInv, Reduce \/ ReduceFails
  PROVE  IInv'
<1>1. /\ phase = "reducing" /\ phase' = "idle" /\ cmd' \in {cmd, "stopped"}
      /\ report' = report \/ report' = [rows |-> map, contradictions |-> mismatch]
      /\ cmd' = cmd => report'.rows = map
      /\ UNCHANGED <<plan, status, todo, work, rows, map, backup, cache, alarms, mismatch, commands, faults>>
  BY DEF Reduce, ReduceFails, mapper, files, IInv, PhasesFit
<1>2. cmd \in {"run", "reduce"}
  BY <1>1 DEF IInv, PhasesFit
<1>3. WordsTyped' /\ StatesTyped' /\ WorkTyped' /\ FilesTyped'
  BY <1>1, TypeParts DEF IInv, WordsTyped, StatesTyped, WorkTyped, FilesTyped, Phase
<1>4. ReportTyped'
  BY <1>1, TypeParts DEF IInv, ReportTyped, FilesTyped, WordsTyped
<1>5. TypeOK'
  BY <1>1, <1>3, <1>4, CountsStay, TypePartsNext DEF IInv
<1>6. PhasesFit' /\ MappersWork' /\ DeepIsFresh'
  BY <1>1, <1>2 DEF IInv, PhasesFit, MappersWork, DeepIsFresh
<1>7. StatesFitFiles' /\ ReplayStartsEmpty' /\ AlarmsAreRight'
  BY <1>1, <1>2 DEF StatesFitFiles, ReplayStartsEmpty, AlarmsAreRight
<1>8. ReportWaitsForMappers'
  <2> SUFFICES ASSUME cmd' = "run", NEW t \in Track PROVE status[t] \in {"failed", "blocked"} \/ map[t] \in Whole
    BY <1>1, <1>2 DEF ReportWaitsForMappers
  <2>1. cmd = "run" /\ todo = Track /\ status[t] \in {"done", "failed", "blocked"}
    BY <1>1, <1>2 DEF IInv, PhasesFit
  <2> QED
    BY <1>1, <2>1 DEF IInv, StatesFitFiles
<1> QED
  BY <1>5, <1>6, <1>7, <1>8 DEF IInv

\* A command that stops half way leaves files torn, and promises nothing of them.
LEMMA StopKeeps ==
  ASSUME IInv, Stop
  PROVE  IInv'
<1>1. /\ phase' = "idle" /\ cmd' = "stopped" /\ Fault /\ work' = Nothing /\ rows' = Nothing
      /\ cache' = cache \/ \E t \in Wide : cache' = [cache EXCEPT ![t] = "some"]
      /\ UNCHANGED <<plan, status, todo, map, backup, alarms, mismatch, report, commands>>
  BY DEF Stop
<1>2. WordsTyped' /\ StatesTyped' /\ ReportTyped'
  BY <1>1, TypeParts DEF IInv, WordsTyped, StatesTyped, ReportTyped, Phase
<1>3. WorkTyped'
  BY <1>1 DEF WorkTyped, Nothing
<1>4. FilesTyped'
  BY <1>1, TypeParts DEF IInv, FilesTyped
<1>5. TypeOK'
  BY <1>1, <1>2, <1>3, <1>4, CountsStay, TypePartsNext DEF IInv
<1>6. PhasesFit' /\ MappersWork' /\ DeepIsFresh'
  BY <1>1 DEF IInv, PhasesFit, MappersWork, DeepIsFresh, Nothing
<1>7. StatesFitFiles' /\ ReplayStartsEmpty' /\ AlarmsAreRight' /\ ReportWaitsForMappers'
  BY <1>1 DEF StatesFitFiles, ReplayStartsEmpty, AlarmsAreRight, ReportWaitsForMappers
<1> QED
  BY <1>5, <1>6, <1>7 DEF IInv

\* A step that changes nothing.
LEMMA StutterKeeps ==
  ASSUME IInv, UNCHANGED vars
  PROVE  IInv'
<1>1. UNCHANGED <<plan, status, cmd, phase, todo, work, rows, map, backup, cache, alarms, mismatch, report, commands, faults>>
  BY DEF vars, mapper, files
<1>2. TypeOK'
  BY <1>1 DEF IInv, TypeOK
<1> QED
  BY <1>1, <1>2 DEF IInv, PhasesFit, MappersWork, DeepIsFresh, StatesFitFiles, ReplayStartsEmpty,
     AlarmsAreRight, ReportWaitsForMappers

LEMMA NextIInv == IInv /\ [Next]_vars => IInv'
BY CommandKeeps, SettleKeeps, ScheduleKeeps, SettledKeeps, MapperKeeps, MapFailsKeeps, CompareKeeps, ReduceKeeps,
   StopKeeps, StutterKeeps DEF Next, Step

THEOREM SpecIInv == Spec => []IInv
BY InitIInv, NextIInv, PTL DEF Spec

(***************************************************************************)
(* The theorems                                                            *)
(***************************************************************************)
\* The types, for any plan and any number of commands and faults.
THEOREM TypeCorrect == Spec => []TypeOK
<1>1. IInv => TypeOK
  BY DEF IInv
<1> QED
  BY <1>1, SpecIInv, PTL

\* A track that runs finds the files of its dependencies and a done track has one, whichever
\* command wrote them (researchTrackArtifactProbe, scheduler.go:61-75).
THEOREM FilesAreThere == Spec => []DependenciesAreOnDisk
<1>1. IInv => DependenciesAreOnDisk
  <2> SUFFICES ASSUME IInv, phase \in {"mapping", "comparing", "reducing"}, NEW t \in Track
      PROVE  /\ status[t] = "done" => map[t] # "none"
             /\ status[t] = "running" => \A d \in plan[t] : map[d] # "none"
    BY DEF DependenciesAreOnDisk
  <2>1. plan[t] \subseteq Track
    BY DepsAreTracks DEF IInv
  <2> QED
    BY <2>1 DEF IInv, StatesFitFiles
<1> QED
  BY <1>1, SpecIInv, PTL

\* A replay reports what it could not reproduce, and no deep track that it could
\* (replay.go:101-123).
THEOREM ReplayTellsTheTruth == Spec => []AlarmsAreRight
<1>1. IInv => AlarmsAreRight
  BY DEF IInv
<1> QED
  BY <1>1, SpecIInv, PTL

\* The report of a run holds the whole result of every track that was not lost
\* (cmdResearchRun, reducer.go:21-44).
THEOREM ReportIsComplete == Spec => []ReportWaitsForMappers
<1>1. IInv => ReportWaitsForMappers
  BY DEF IInv
<1> QED
  BY <1>1, SpecIInv, PTL

\* What a replay takes away is backed up, and the other tracks' files are not touched
\* (replay.go:76-86).
THEOREM OldIsKept == Spec => ReplayKeepsTheOld
<1>1. ASSUME IInv, [Next]_vars, cmd' = "replay", NEW t \in Track
      PROVE  \/ UNCHANGED vars
             \/ /\ map[t] \in Whole => map'[t] \in Whole \/ backup'[t] = map[t]
                /\ t \notin todo' => map'[t] = map[t] /\ backup'[t] = backup[t]
  <2>1. CASE Command
    <3>1. GiveReplay
      BY <1>1, <2>1 DEF Command, GivePlan, GiveRun, GiveMap, GiveReduce, Give
    <3>2. PICK S \in SUBSET Track :
            /\ backup' = BackedUp(S) /\ map' = [x \in Track |-> IF x \in S THEN "none" ELSE map[x]] /\ todo' = S
      BY <3>1 DEF GiveReplay, Missing, Give
    <3> QED
      BY <1>1, <3>2, ReplayTakesOut DEF IInv, Whole
  <2>2. CASE UNCHANGED <<map, backup, todo>>
    BY <2>2
  <2>3. ASSUME NEW x \in Track, Create(x) \/ Write(x)
        PROVE  /\ map[t] \in Whole => map'[t] \in Whole \/ backup'[t] = map[t]
               /\ t \notin todo' => map'[t] = map[t] /\ backup'[t] = backup[t]
    <3>1. /\ phase = "mapping" /\ status[x] = "running" /\ UNCHANGED <<cmd, todo, backup>>
      BY <2>3 DEF Create, Write, Mapping, Dag!Running
    <3>2. x \in todo /\ cmd = "replay"
      BY <1>1, <3>1 DEF IInv, StatesFitFiles
    <3>3. map[x] \notin Whole
      BY <1>1, <3>1, <3>2 DEF IInv, ReplayStartsEmpty
    <3>4. \A y \in Track : y # x => map'[y] = map[y]
      BY <2>3, TypeParts, <1>1 DEF Create, Write, IInv, FilesTyped
    <3> QED
      BY <2>3, <3>2, <3>3, <3>4 DEF Create, Write
  <2>4. CASE \/ Settle \/ Start \/ GiveUp \/ Settled \/ Compare \/ Reduce \/ ReduceFails \/ Stop \/ UNCHANGED vars
             \/ \E x \in Track : Gather(x) \/ MapFails(x)
    BY <2>2, <2>4 DEF Settle, Start, GiveUp, Settled, Compare, Reduce, ReduceFails, Stop, Gather, MapFails, files, vars
  <2> QED
    BY <1>1, <2>1, <2>3, <2>4 DEF Next, Step, Mapper
<1>2. IInv /\ [Next]_vars =>
        [cmd' = "replay" =>
           \A t \in Track :
             /\ map[t] \in Whole => map'[t] \in Whole \/ backup'[t] = map[t]
             /\ t \notin todo' => map'[t] = map[t] /\ backup'[t] = backup[t]]_vars
  BY <1>1
<1> QED
  BY <1>2, SpecIInv, PTL DEF Spec, ReplayKeepsTheOld
=============================================================================
