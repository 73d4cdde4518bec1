---------------------------- MODULE ResearchRun ----------------------------
(***************************************************************************)
(* The files of one research run across the commands an operator gives on  *)
(* it: research run, map, replay and reduce of                             *)
(* src/cmd/virmux/research.go, with the mapper, the replayer and the       *)
(* reducer of src/internal/skill/research.  The scheduler between them is  *)
(* TrackDag, which Scheduler implements.                                   *)
(*                                                                         *)
(* What a file says is abstracted to what a replay compares.  The rows of  *)
(* a wide track are "fresh", "hit" (every cell came from the cache, which  *)
(* rewrites the row and drops its evidence) or "mixed"; the rows of a deep *)
(* track are always "fresh".  A "torn" file lacks some rows.               *)
(*                                                                         *)
(* Commands on a run are given one after the other.  A fault is an error   *)
(* of the file system or a crash of the command.                           *)
(***************************************************************************)
EXTENDS Naturals, FiniteSets

CONSTANTS
  Track,        \* the tracks of the plan
  Wide,         \* those of kind "wide"
  NonDet,       \* those with `deterministic: false`
  Plans,        \* the dependencies under study
  MaxCommands,  \* commands given (a bound)
  MaxFaults     \* faults (a bound)

ASSUME ResearchAssumption ==
  /\ IsFiniteSet(Track)
  /\ Wide \subseteq Track /\ NonDet \subseteq Track
  /\ Plans \subseteq [Track -> SUBSET Track]
  /\ MaxCommands \in Nat /\ MaxFaults \in Nat

VARIABLES
  plan,      \* plan.yaml: the dependencies.  Never changes
  status,    \* the scheduler's states in the current or last command
  cmd,       \* the current or last command: "none", "plan", "run", "map", "replay",
             \* "reduce", or "stopped" if it did not end well
  phase,     \* where it is; "idle" when it is over
  todo,      \* rerunIDs, or the `only` of map; every track in a run
  work,      \* what each mapper has done: "none", "gathered" or "created"
  rows,      \* the rows each mapper has gathered
  map,       \* map/<track>.jsonl
  backup,    \* map_backup/<track>.jsonl
  cache,     \* how many of a track's cells are cached: "cold", "some" or "warm"
  alarms,    \* tracks the current or last command emitted research.replay.mismatch for
  mismatch,  \* mismatch.json, {} if there is none
  report,    \* reduce/: the map files and mismatches it was made from
  commands,  \* commands given
  faults     \* faults so far

mapper == <<work, rows>>
files  == <<map, backup, cache>>
vars == <<plan, status, cmd, phase, todo, mapper, files, alarms, mismatch, report, commands, faults>>

Dag == INSTANCE TrackDag WITH OtherId <- {}

Whole == {"fresh", "mixed", "hit"}
Content == {"none", "torn"} \cup Whole

Nothing == [t \in Track |-> "none"]

Init ==
  /\ plan \in Plans
  /\ status = [t \in Track |-> "pending"]
  /\ cmd = "none" /\ phase = "idle" /\ todo = {}
  /\ work = Nothing /\ rows = Nothing
  /\ map = Nothing /\ backup = Nothing
  /\ cache = [t \in Track |-> "cold"]
  /\ alarms = {} /\ mismatch = {}
  /\ report = [rows |-> Nothing, contradictions |-> {}]
  /\ commands = 0 /\ faults = 0

(***************************************************************************)
(* Commands                                                                *)
(***************************************************************************)

\* A command starts at phase p, about the tracks S.
Give(c, S, p) ==
  /\ phase = "idle"
  /\ commands < MaxCommands
  /\ commands' = commands + 1
  /\ cmd' = c /\ todo' = S /\ phase' = p
  /\ status' = [t \in Track |-> "pending"]
  /\ alarms' = {}
  /\ UNCHANGED <<plan, mapper, mismatch, report, faults>>

\* research plan or research run makes the plan, so it comes first.
GivePlan == cmd = "none" /\ Give("plan", {}, "idle") /\ UNCHANGED files
GiveRun == cmd = "none" /\ Give("run", Track, "scheduling") /\ UNCHANGED files

\* No `--only` is every track, none of which is then probed.
GiveMap ==
  /\ cmd # "none"
  /\ \E S \in SUBSET Track \ {{}} : Give("map", S, "scheduling")
  /\ UNCHANGED files

\* findFailedTracks: the tracks that have no file.
Missing == {t \in Track : map[t] = "none"}

\* Replay backs up what it is about to map again.
KeepTheOldBackup(S) == [t \in Track |-> IF t \in S /\ backup[t] = "none" THEN map[t] ELSE backup[t]]
BackedUp(S) == [t \in Track |-> IF t \in S /\ map[t] # "none" THEN map[t] ELSE backup[t]]

GiveReplay ==
  /\ cmd # "none"
  /\ \E S \in (SUBSET Track \ {{}}) \cup {Missing} :
       /\ Give("replay", S, IF S = {} THEN "idle" ELSE "scheduling")
       /\ backup' = BackedUp(S)
       /\ map' = [t \in Track |-> IF t \in S THEN "none" ELSE map[t]]
  /\ UNCHANGED cache

GiveReduce == cmd # "none" /\ Give("reduce", {}, "reducing") /\ UNCHANGED files

(***************************************************************************)
(* DefaultScheduler.Run                                                    *)
(***************************************************************************)

\* Tracks outside the selection are done if they have a file (researchTrackArtifactProbe).
AnyTrack(t) == TRUE
HasArtifact(t) == map[t] # "none"

Settle ==
  /\ phase = "scheduling"
  /\ status' = [t \in Track |-> IF t \in todo THEN "pending"
                                ELSE IF HasArtifact(t) THEN "done" ELSE "blocked"]
  /\ Dag!Settle
  /\ phase' = "mapping"
  /\ UNCHANGED <<cmd, todo, mapper, files, alarms, mismatch, report, commands, faults>>

Start ==
  /\ phase = "mapping"
  /\ Dag!Start
  /\ UNCHANGED <<cmd, phase, todo, mapper, files, alarms, mismatch, report, commands, faults>>

GiveUp ==
  /\ phase = "mapping"
  /\ Dag!GiveUp
  /\ UNCHANGED <<cmd, phase, todo, mapper, files, alarms, mismatch, report, commands, faults>>

\* Every track is settled: what the command does next.  No command looks at the states.
StopOnFailure == IF \E t \in Track : status[t] = "failed" THEN "failed" ELSE "reducing"
AfterMapping == CASE cmd = "run" -> "reducing" [] cmd = "replay" -> "comparing" [] OTHER -> "idle"

NothingPending == Dag!Pending = {}
AllDone == Dag!Done = Track
Quiet == Dag!Pending = {} /\ Dag!Running = {}

Settled ==
  /\ phase = "mapping"
  /\ Quiet
  /\ phase' = AfterMapping
  /\ UNCHANGED <<plan, status, cmd, todo, mapper, files, alarms, mismatch, report, commands, faults>>

(***************************************************************************)
(* DefaultMapper.Run for track t                                           *)
(***************************************************************************)

\* runWideTrack: a cached cell is a hit, any other is retrieved and cached.
GatheredRows(t) ==
  IF t \notin Wide THEN "fresh"
  ELSE CASE cache[t] = "cold" -> "fresh" [] cache[t] = "some" -> "mixed" [] OTHER -> "hit"

Mapping(t) == phase = "mapping" /\ t \in Dag!Running

Gather(t) ==
  /\ Mapping(t) /\ work[t] = "none"
  /\ rows' = [rows EXCEPT ![t] = GatheredRows(t)]
  /\ cache' = IF t \in Wide THEN [cache EXCEPT ![t] = "warm"] ELSE cache
  /\ work' = [work EXCEPT ![t] = "gathered"]
  /\ UNCHANGED <<plan, status, cmd, phase, todo, map, backup, alarms, mismatch, report, commands, faults>>

\* os.Create truncates what was there.
Create(t) ==
  /\ Mapping(t) /\ work[t] = "gathered"
  /\ map' = [map EXCEPT ![t] = "torn"]
  /\ work' = [work EXCEPT ![t] = "created"]
  /\ UNCHANGED <<plan, status, cmd, phase, todo, rows, backup, cache, alarms, mismatch, report, commands, faults>>

\* The rows are written and the track is done.
Stopped(t) == work' = [work EXCEPT ![t] = "none"] /\ rows' = [rows EXCEPT ![t] = "none"]

Write(t) ==
  /\ Mapping(t) /\ work[t] = "created"
  /\ map' = [map EXCEPT ![t] = rows[t]]
  /\ Stopped(t)
  /\ Dag!Finish(t)
  /\ UNCHANGED <<cmd, phase, todo, backup, cache, alarms, mismatch, report, commands, faults>>

\* The plan cannot be read, the file not created or not written: the track has failed.
Fault == faults < MaxFaults /\ faults' = faults + 1

MapFails(t) ==
  /\ Mapping(t)
  /\ Fault
  /\ Stopped(t)
  /\ Dag!Fail(t)
  /\ \A x \in Dag!Downstream(t) : status'[x] = "blocked"
  /\ UNCHANGED <<cmd, phase, todo, files, alarms, mismatch, report, commands>>

(***************************************************************************)
(* DefaultReplay.Run, after the scheduler                                  *)
(***************************************************************************)

\* compareFiles cannot read the lines of a missing file; how many a torn one holds is
\* anybody's guess, none of them included.
MayMatch(o, n) == o = n \/ (o = "torn" /\ n = "none")
MayDiffer(o, n) == o # n \/ o = "torn"

\* The tracks parity is about: all but those `deterministic: false`.
ComparedIfMapped == {t \in todo \ NonDet : backup[t] # "none" /\ map[t] # "none"}
Compared == {t \in todo \ NonDet : backup[t] # "none"}

Compare ==
  /\ phase = "comparing"
  /\ alarms' \in {A \in SUBSET Compared :
                    /\ \A t \in A : MayDiffer(backup[t], map[t])
                    /\ \A t \in Compared \ A : MayMatch(backup[t], map[t])}
  /\ mismatch' = IF alarms' = {} THEN mismatch ELSE alarms'
  /\ phase' = "idle"
  /\ UNCHANGED <<plan, status, cmd, todo, mapper, files, report, commands, faults>>

(***************************************************************************)
(* DefaultReducer.Run                                                      *)
(***************************************************************************)
AnyFile == \E t \in Track : map[t] # "none" \/ backup[t] # "none"

Reduce ==
  /\ phase = "reducing"
  /\ AnyFile
  /\ report' = [rows |-> map, contradictions |-> mismatch]
  /\ phase' = "idle"
  /\ UNCHANGED <<plan, status, cmd, todo, mapper, files, alarms, mismatch, commands, faults>>

\* Without map/ there is nothing to read.
ReduceFails ==
  /\ phase = "reducing"
  /\ ~AnyFile
  /\ phase' = "idle" /\ cmd' = "stopped"
  /\ UNCHANGED <<plan, status, todo, mapper, files, alarms, mismatch, report, commands, faults>>

(***************************************************************************)
(* A command stops half way: the probe or the reducer fails, or it crashes *)
(* and leaves the cache of a wide track half filled.                       *)
(***************************************************************************)
Stop ==
  /\ phase # "idle"
  /\ Fault
  /\ phase' = "idle"
  /\ cmd' = "stopped"
  /\ work' = Nothing /\ rows' = Nothing
  /\ \/ UNCHANGED cache
     \/ \E t \in Wide : /\ Mapping(t) /\ work[t] = "none" /\ cache[t] = "cold"
                        /\ cache' = [cache EXCEPT ![t] = "some"]
  /\ UNCHANGED <<plan, status, todo, map, backup, alarms, mismatch, report, commands>>

-----------------------------------------------------------------------------
Command == GivePlan \/ GiveRun \/ GiveMap \/ GiveReplay \/ GiveReduce

Mapper(t) == Gather(t) \/ Create(t) \/ Write(t)

Step == Settle \/ Start \/ GiveUp \/ Settled \/ Compare \/ Reduce \/ ReduceFails \/ \E t \in Track : Mapper(t)

Next == Command \/ Step \/ Stop \/ \E t \in Track : MapFails(t)

Spec == Init /\ [][Next]_vars

\* A command that was given goes on.  Nobody owes a command.
FairSpec == Spec /\ WF_vars(Step)
-----------------------------------------------------------------------------
(***************************************************************************)
(* What the files promise                                                  *)
(***************************************************************************)

\* Every variable has its type.
TypeOK ==
  /\ plan \in Plans
  /\ status \in [Track -> {"pending", "running", "done", "failed", "blocked"}]
  /\ cmd \in {"none", "plan", "run", "map", "replay", "reduce", "stopped"}
  /\ phase \in {"idle", "scheduling", "mapping", "comparing", "reducing"}
  /\ todo \subseteq Track /\ alarms \subseteq Track /\ mismatch \subseteq Track
  /\ work \in [Track -> {"none", "gathered", "created"}]
  /\ rows \in [Track -> {"none"} \cup Whole]
  /\ map \in [Track -> Content] /\ backup \in [Track -> Content]
  /\ cache \in [Track -> {"cold", "some", "warm"}]
  /\ report \in [rows : [Track -> Content], contradictions : SUBSET Track]
  /\ commands \in 0..MaxCommands /\ faults \in 0..MaxFaults

\* A track that runs finds the files of all its dependencies, and a track the scheduler
\* calls done has one, whether it was mapped in this command or an earlier one (the
\* probe of research.go and the scheduler's pre-marking).
DependenciesAreOnDisk ==
  phase \in {"mapping", "comparing", "reducing"} =>
    \A t \in Track :
      /\ status[t] = "done" => map[t] # "none"
      /\ status[t] = "running" => \A d \in plan[t] : map[d] # "none"

\* A replay changes the files of its own tracks only, and what it takes out of map/ is
\* in map_backup/ until the next replay of that track (replay.go:76-86).
ReplayKeepsTheOld ==
  [][cmd' = "replay" =>
       \A t \in Track :
         /\ map[t] \in Whole => map'[t] \in Whole \/ backup'[t] = map[t]
         /\ t \notin todo' => map'[t] = map[t] /\ backup'[t] = backup[t]]_vars

\* A replay that is over has told what it could not reproduce: a track that failed or
\* was blocked and had a whole result is reported, and a deep track that was mapped
\* again over a whole result never is (replay.go:101-123).
AlarmsAreRight ==
  phase = "idle" /\ cmd = "replay" =>
    \A t \in todo \ NonDet :
      backup[t] \in Whole =>
        /\ status[t] # "done" => t \in alarms
        /\ status[t] = "done" /\ t \notin Wide => t \notin alarms

\* The report of a run has the whole result of every track that is neither failed nor
\* blocked: nothing is reduced while a mapper still writes (scheduler.go's g.Wait,
\* cmdResearchRun, reducer.go:21-44).
ReportWaitsForMappers ==
  phase = "idle" /\ cmd = "run" =>
    \A t \in Track : status[t] \in {"failed", "blocked"} \/ report.rows[t] \in Whole

\* Every command ends, in every order of its mappers and with every fault
\* (cmdResearchRun, cmdResearchMap, cmdResearchReplay, cmdResearchReduce).
EveryCommandEnds == (phase # "idle") ~> (phase = "idle")

\* A deterministic track that was mapped again over a whole result is never a mismatch.
\* It is violated: what the cache returns is not what it was given (mapper.go:190-228).
DeterministicTracksMatch ==
  phase = "idle" /\ cmd = "replay" =>
    \A t \in todo \ NonDet : backup[t] \in Whole /\ status[t] = "done" => t \notin alarms
=============================================================================
