----------------------------- MODULE Scheduler -----------------------------
(***************************************************************************)
(* The research plane's track scheduler: DefaultScheduler.runConcurrent in *)
(* src/internal/skill/research/scheduler.go.  One goroutine (the caller of *)
(* Run) hands the tracks of a plan to worker goroutines in dependency      *)
(* order, bounded by a weighted semaphore; the workers report back under a *)
(* mutex and wake the caller through a condition variable.                 *)
(*                                                                         *)
(* Grain of atomicity: one action per critical section of `mu`, one per    *)
(* semaphore operation, and one per step between two of them that another  *)
(* goroutine can observe.  The caller unlocks between collecting the ready *)
(* tracks (Collect) and looking at them again (Recheck, Wait), so these    *)
(* are different actions and a worker may report in between.               *)
(***************************************************************************)
EXTENDS Integers, FiniteSets

CONSTANTS
  Track,           \* the distinct track ids of a plan
  OtherId,         \* ids that name no track: unknown dependencies, unknown selectors
  Repeats,         \* ids that two entries of plan.Tracks carry, their deps disjoint (none,
                   \* if the ids are distinct)
  Plans,           \* the plans under study, as functions from a track to its deps
  Selections,      \* the values of the `only` argument under study
  MaxConcurrency,  \* the weight of the semaphore
  CanCancel        \* whether the caller's context may be cancelled

ASSUME SchedulerAssumption ==
  /\ IsFiniteSet(Track) /\ Track # {}
  /\ IsFiniteSet(OtherId) /\ OtherId \cap Track = {}
  /\ Repeats \subseteq Track
  /\ Plans \subseteq [Track -> SUBSET (Track \cup OtherId)]
  /\ Selections \subseteq SUBSET (Track \cup OtherId)
  /\ MaxConcurrency \in Nat \ {0}
  /\ CanCancel \in BOOLEAN

VARIABLES
  plan,       \* the dependencies of every track; never changes
  only,       \* the rerun selection, {} for a full run; never changes
  status,     \* states[id].Status
  inDegree,   \* inDegree[id]
  completed,  \* completedCount
  running,    \* runningCount
  main,       \* where the caller of Run is
  worker,     \* where the goroutine of each track is
  permits,    \* free weight of the semaphore
  cancelled,  \* the context handed to the workers is done
  groupErr,   \* the errgroup has recorded an error
  verdict     \* what Run returned

input  == <<plan, only>>
shared == <<status, inDegree, completed, running>>
vars   == <<plan, only, status, inDegree, completed, running, main, worker,
            permits, cancelled, groupErr, verdict>>

Statuses == {"pending", "running", "done", "failed", "blocked"}
Terminal == {"done", "failed", "blocked"}

With(s)    == {t \in Track : status[t] = s}
Holders    == {t \in Track : worker[t] \in {"mapping", "retrying", "releasing"}}
Finished   == {t \in Track : status[t] \in Terminal}

\* What looping over plan.Tracks counts for the ids in S: a repeated id is met twice.
Entries(S) == Cardinality(S) + Cardinality(S \cap Repeats)

TotalTracks == Entries(Track)

\* Tracks the next pass of the loop may start.
ReadyOnceADepIsDone ==
  {t \in With("pending") : inDegree[t] < Cardinality(plan[t]) \/ plan[t] = {}}
Ready == {t \in With("pending") : inDegree[t] = 0}

\* The pending tracks that `cascade` reaches from t through pending tracks.
CascadeToChildren(t) == {x \in With("pending") : t \in plan[x]}
CascadeUnchecked(t) == {x \in Track : t \in plan[x]}
Cascade(t) ==
  LET pending   == With("pending")
      Closed(S) == \A x \in pending : plan[x] \cap (S \cup {t}) # {} => x \in S
  IN  {x \in pending : \A S \in SUBSET pending : Closed(S) => x \in S}

\* cond.Broadcast: the caller, if it waits, goes around its loop again.
NobodyWoken == main
Woken == IF main = "waiting" THEN "collect" ELSE main
-----------------------------------------------------------------------------
Init ==
  /\ plan \in Plans
  /\ only \in Selections
  /\ status = [t \in Track |-> "pending"]
  /\ inDegree = [t \in Track |-> Cardinality(plan[t])]
  /\ completed = 0
  /\ running = 0
  /\ main = "preparing"
  /\ worker = [t \in Track |-> "none"]
  /\ permits = MaxConcurrency
  /\ cancelled = FALSE
  /\ groupErr = FALSE
  /\ verdict = "none"

(***************************************************************************)
(* The caller, before any goroutine exists.                                *)
(***************************************************************************)

Return(v) == main' = "returned" /\ verdict' = v

\* A selected id that is not in the plan: RERUN_SELECTOR_INVALID.
RejectSelector ==
  /\ main = "preparing"
  /\ ~(only \subseteq Track)
  /\ Return("selector")
  /\ UNCHANGED <<input, shared, worker, permits, cancelled, groupErr>>

\* TrackArtifactExists fails for a track outside the selection.
ProbeFails ==
  /\ main = "preparing"
  /\ only \subseteq Track /\ only # {} /\ only # Track
  /\ Return("probe")
  /\ UNCHANGED <<input, shared, worker, permits, cancelled, groupErr>>

\* A subset run settles every other track by whether its artifact `found` exists.
PremarkForgetsDependents(found) == inDegree
PremarkedDegrees(found) ==
  [t \in Track |-> inDegree[t] - Entries(plan[t] \cap found)]

Prepare ==
  /\ main = "preparing"
  /\ only \subseteq Track
  /\ LET outside == IF only = {} THEN {} ELSE Track \ only
     IN \E found \in SUBSET outside :
          /\ status' = [t \in Track |->
                          IF t \in found THEN "done"
                          ELSE IF t \in outside THEN "blocked" ELSE status[t]]
          /\ inDegree' = PremarkedDegrees(found)
          /\ completed' = completed + Entries(outside)
  /\ main' = "collect"
  /\ UNCHANGED <<input, running, worker, permits, cancelled, groupErr, verdict>>

(***************************************************************************)
(* The caller's loop.                                                      *)
(***************************************************************************)

\* First critical section: claim every ready track, then start its goroutine.
NoneClaimed == running
Claimed == running + Cardinality(Ready)

Collect ==
  /\ main = "collect"
  /\ completed # TotalTracks
  /\ Ready # {}
  /\ status' = [t \in Track |-> IF t \in Ready THEN "running" ELSE status[t]]
  /\ running' = Claimed
  /\ worker' = [t \in Track |-> IF t \in Ready THEN "acquiring" ELSE worker[t]]
  /\ UNCHANGED <<input, inDegree, completed, main, permits, cancelled, groupErr, verdict>>

\* The same critical section when nothing is ready: the mutex is released.
CollectNothing ==
  /\ main = "collect"
  /\ completed # TotalTracks
  /\ Ready = {}
  /\ main' = "rechecking"
  /\ UNCHANGED <<input, shared, worker, permits, cancelled, groupErr, verdict>>

\* Second critical section, no track running: every pending track is blocked.
BlockWhileRunning == main = "rechecking" /\ completed < TotalTracks
MayBlockTheRest == main = "rechecking" /\ completed < TotalTracks /\ running = 0

RestWithUnknownDeps == {t \in With("pending") : ~(plan[t] \subseteq Track)}
Rest == With("pending")

BlockTheRest ==
  /\ MayBlockTheRest
  /\ status' = [t \in Track |-> IF t \in Rest THEN "blocked" ELSE status[t]]
  /\ completed' = completed + Cardinality(Rest)
  /\ main' = "collect"
  /\ UNCHANGED <<input, inDegree, running, worker, permits, cancelled, groupErr, verdict>>

\* Second critical section, some track running: cond.Wait.
Wait ==
  /\ main = "rechecking"
  /\ completed < TotalTracks
  /\ running # 0
  /\ main' = "waiting"
  /\ UNCHANGED <<input, shared, worker, permits, cancelled, groupErr, verdict>>

\* Either critical section finds every track completed: leave the loop for g.Wait.
LeaveLoop ==
  /\ \/ main = "collect" /\ completed = TotalTracks
     \/ main = "rechecking" /\ ~(completed < TotalTracks)
  /\ main' = "joining"
  /\ UNCHANGED <<input, shared, worker, permits, cancelled, groupErr, verdict>>

\* g.Wait returns once every goroutine has; its error hides the states.
Join ==
  /\ main = "joining"
  /\ \A t \in Track : worker[t] \in {"none", "exited"}
  /\ Return(IF groupErr THEN "infra" ELSE "states")
  /\ UNCHANGED <<input, shared, worker, permits, cancelled, groupErr>>

(***************************************************************************)
(* The goroutine of track t.                                               *)
(***************************************************************************)

Acquire(t) ==
  /\ worker[t] = "acquiring"
  /\ ~cancelled
  /\ permits > 0
  /\ permits' = permits - 1
  /\ worker' = [worker EXCEPT ![t] = "mapping"]
  /\ UNCHANGED <<input, shared, main, cancelled, groupErr, verdict>>

\* sem.Acquire on a done context.  Dependents are not cascaded to here.
AcquireFails(t) ==
  /\ worker[t] = "acquiring"
  /\ cancelled
  /\ status' = [status EXCEPT ![t] = IF @ = "running" THEN "failed" ELSE @]
  /\ completed' = IF status[t] = "running" THEN completed + 1 ELSE completed
  /\ running' = running - 1
  /\ main' = Woken
  /\ worker' = [worker EXCEPT ![t] = "exited"]
  /\ groupErr' = TRUE
  /\ UNCHANGED <<input, inDegree, permits, cancelled, verdict>>

\* The first Mapper.Run says Retryable, with or without an error: run it once more.
Retry(t) ==
  /\ worker[t] = "mapping"
  /\ worker' = [worker EXCEPT ![t] = "retrying"]
  /\ UNCHANGED <<input, shared, main, permits, cancelled, groupErr, verdict>>

\* The last Mapper.Run has returned; both reports end in the same way.
Report(t) ==
  /\ worker[t] \in {"mapping", "retrying"}
  /\ running' = running - 1
  /\ main' = Woken
  /\ worker' = [worker EXCEPT ![t] = "releasing"]
  /\ UNCHANGED <<input, permits, cancelled, groupErr, verdict>>

ReportDone(t) ==
  /\ Report(t)
  /\ status' = [status EXCEPT ![t] = "done"]
  /\ inDegree' = [x \in Track |-> IF t \in plan[x] THEN inDegree[x] - 1 ELSE inDegree[x]]
  /\ completed' = completed + 1

ReportFailed(t) ==
  /\ Report(t)
  /\ status' = [x \in Track |-> IF x = t THEN "failed"
                                ELSE IF x \in Cascade(t) THEN "blocked" ELSE status[x]]
  /\ completed' = completed + Cardinality(Cascade(t)) + 1
  /\ UNCHANGED inDegree

\* The deferred sem.Release runs after the deferred mu.Unlock.
LeakPermit == permits
FreedPermits == permits + 1

Release(t) ==
  /\ worker[t] = "releasing"
  /\ permits' = FreedPermits
  /\ worker' = [worker EXCEPT ![t] = "exited"]
  /\ UNCHANGED <<input, shared, main, cancelled, groupErr, verdict>>

\* The environment cancels the caller's context.
Cancel ==
  /\ CanCancel /\ ~cancelled
  /\ main # "returned"
  /\ cancelled' = TRUE
  /\ UNCHANGED <<input, shared, main, worker, permits, groupErr, verdict>>

\* Run has returned: nothing is left to do, and a state like this is no deadlock.
Returned == main = "returned" /\ UNCHANGED vars
-----------------------------------------------------------------------------
Caller ==
  \/ RejectSelector \/ ProbeFails \/ Prepare
  \/ Collect \/ CollectNothing \/ BlockTheRest \/ Wait \/ LeaveLoop \/ Join

Worker(t) ==
  \/ Acquire(t) \/ AcquireFails(t) \/ Retry(t)
  \/ ReportDone(t) \/ ReportFailed(t) \/ Release(t)

Next == Caller \/ (\E t \in Track : Worker(t)) \/ Cancel \/ Returned

Spec == Init /\ [][Next]_vars

\* The Go runtime runs every goroutine that can run, and every Mapper.Run
\* returns.  Nobody owes a cancellation.
Fairness == WF_vars(Caller) /\ \A t \in Track : WF_vars(Worker(t))

FairSpec == Spec /\ Fairness
-----------------------------------------------------------------------------
TypeOK ==
  /\ plan \in [Track -> SUBSET (Track \cup OtherId)]
  /\ only \in SUBSET (Track \cup OtherId)
  /\ status \in [Track -> Statuses]
  /\ inDegree \in [Track -> Int]
  /\ completed \in Nat
  /\ running \in Nat
  /\ main \in {"preparing", "collect", "rechecking", "waiting", "joining", "returned"}
  /\ worker \in [Track -> {"none", "acquiring", "mapping", "retrying", "releasing", "exited"}]
  /\ permits \in 0 .. MaxConcurrency
  /\ cancelled \in BOOLEAN
  /\ groupErr \in BOOLEAN
  /\ verdict \in {"none", "selector", "probe", "infra", "states"}

\* runningCount and completedCount (scheduler.go:87,115) are what the two loops decide
\* on: each always equals the number of tracks in the states it stands for, in every
\* order of reports, failed acquisitions and cascades.
CountersAreExact ==
  /\ running = Cardinality(With("running"))
  /\ completed = Cardinality(Finished)

\* inDegree (scheduler.go:61,99,212) always counts the dependencies that are not done,
\* dependencies on unknown ids included.
DegreesAreExact ==
  \A t \in Track : inDegree[t] = Cardinality(plan[t] \ With("done"))

\* A goroutine is started for a track only when every dependency of the track is done,
\* and stays so (scheduler.go:124-133).
RunsAfterItsDeps ==
  \A t \in Track : worker[t] # "none" => plan[t] \subseteq With("done")

\* When the caller sleeps in cond.Wait (scheduler.go:153), a goroutine that has yet to
\* broadcast exists: no wakeup is lost, whatever happened between the two locks.
SleeperHasAWaker ==
  main = "waiting" =>
    \E t \in Track : worker[t] \in {"acquiring", "mapping", "retrying"}

\* The semaphore's weight is conserved: at most MaxConcurrency mappers run, and a failed
\* acquisition frees nothing it did not hold (scheduler.go:163-174).
PermitsAreConserved == permits + Cardinality(Holders) = MaxConcurrency

\* The three tallies that decide whether the loop ends, what is ready and who may map are
\* exact together at every step of every goroutine, although the code updates them apart:
\* the counters under mu, the permits after it, the degrees in another's cascade
\* (scheduler.go:119-133, 174-176, 203-224).
BookkeepingIsExact == CountersAreExact /\ DegreesAreExact /\ PermitsAreConserved

\* In a full run without infrastructure errors, a track behind a failed or blocked one
\* is never left pending, however deep it lies (scheduler.go:203-215).
FailureReachesDescendants ==
  only = {} /\ ~groupErr =>
    \A t \in With("pending") : plan[t] \cap (With("failed") \cup With("blocked")) = {}

\* Run returns states, or its infrastructure error, only when every track has a terminal
\* status and every goroutine has returned its permit (scheduler.go:231-240).
ReturnsOnlyWhenSettled ==
  verdict \in {"states", "infra"} =>
    /\ Finished = Track
    /\ \A t \in Track : worker[t] \in {"none", "exited"}
    /\ permits = MaxConcurrency

\* A worker's report, a cascade and the blocking of the rest never overwrite a terminal
\* status that another of them wrote (scheduler.go:141-149,165-170,199-228).
TerminalIsFinal ==
  [][\A t \in Track : status[t] \in Terminal => status'[t] = status[t]]_vars

\* The scheduler implements the abstract promise of TrackDag.
Dag == INSTANCE TrackDag
ImplementsTrackDag == Dag!Spec

\* Run returns, on every plan with distinct ids: cyclic plans, unknown dependencies,
\* failures and cancellation included (scheduler.go:117-159).
Terminates == <>(main = "returned")

\* A track that was to run and was blocked has a dependency that is not done
\* (what the message "unsatisfied dependencies" of scheduler.go:145 says).
BlockedHasUnmetDep ==
  \A t \in With("blocked") : t \in only \/ only = {} => ~(plan[t] \subseteq With("done"))
=============================================================================
