-------------------------- MODULE SchedulerProofs --------------------------
(***************************************************************************)
(* Theorems about Scheduler, for every set of tracks, every plan, every    *)
(* selection and every semaphore weight.                                   *)
(***************************************************************************)
EXTENDS Scheduler, FiniteSetTheorems, TLAPS

Active  == {"acquiring", "mapping", "retrying"}

\* A goroutine is active exactly while its track runs.
WorkersMatchStatus ==
  \A t \in Track :
    /\ worker[t] \in Active <=> status[t] = "running"
    /\ worker[t] \in {"releasing", "exited"} => status[t] \in {"done", "failed"}

NothingYet ==
  main = "preparing" => \A t \in Track : status[t] = "pending" /\ worker[t] = "none"

RunningIsExact == running = Cardinality(With("running"))

SleepsOnlyWhileRunning == main = "waiting" => running # 0

\* The inductive invariant that needs nothing of the ids.
IInv ==
  /\ TypeOK
  /\ WorkersMatchStatus
  /\ NothingYet
  /\ RunningIsExact
  /\ PermitsAreConserved
  /\ SleepsOnlyWhileRunning
-----------------------------------------------------------------------------
\* Sets of tracks are finite and their sizes are natural numbers.
LEMMA TrackSetsAreFinite ==
  ASSUME NEW S \in SUBSET Track
  PROVE  IsFiniteSet(S) /\ Cardinality(S) \in Nat
BY SchedulerAssumption, FS_Subset, FS_CardinalityType

\* A track leaving a set of tracks takes one from its size.
LEMMA OneTrackLess ==
  ASSUME NEW S \in SUBSET Track, NEW t \in S
  PROVE  Cardinality(S \ {t}) = Cardinality(S) - 1 /\ Cardinality(S) \in Nat \ {0}
<1>1. IsFiniteSet(S) /\ Cardinality(S) \in Nat
  BY TrackSetsAreFinite
<1>2. Cardinality(S \ {t}) = Cardinality(S) - 1
  BY <1>1, FS_RemoveElement
<1>3. S # {}
  OBVIOUS
<1>4. Cardinality(S) # 0
  BY <1>1, <1>3, FS_EmptySet
<1> QED
  BY <1>1, <1>2, <1>4

\* A track entering a set of tracks adds one to its size.
LEMMA OneTrackMore ==
  ASSUME NEW S \in SUBSET Track, NEW t \in Track, t \notin S
  PROVE  Cardinality(S \cup {t}) = Cardinality(S) + 1
BY TrackSetsAreFinite, FS_AddElement

\* The sizes of disjoint sets of tracks add up.
LEMMA DisjointTracks ==
  ASSUME NEW S \in SUBSET Track, NEW T \in SUBSET Track, S \cap T = {}
  PROVE  Cardinality(S \cup T) = Cardinality(S) + Cardinality(T)
<1>1. Cardinality(S \cup T) = Cardinality(S) + Cardinality(T) - Cardinality(S \cap T)
  BY TrackSetsAreFinite, FS_Union
<1>2. Cardinality(S \cap T) = 0
  BY FS_EmptySet
<1> QED
  BY <1>1, <1>2, TrackSetsAreFinite

\* What a loop over plan.Tracks counts is a natural number, and with distinct ids the
\* number of tracks.
LEMMA EntriesIsNat ==
  ASSUME NEW S \in SUBSET Track
  PROVE  Entries(S) \in Nat
<1>1. S \cap Repeats \in SUBSET Track
  OBVIOUS
<1> QED
  BY <1>1, TrackSetsAreFinite DEF Entries
-----------------------------------------------------------------------------
\* The initial states satisfy the invariant.
LEMMA InitIInv == Init => IInv
<1> SUFFICES ASSUME Init PROVE IInv
  OBVIOUS
<1> USE DEF Init
<1>1. TypeOK
  <2>1. plan \in [Track -> SUBSET (Track \cup OtherId)]
    BY SchedulerAssumption
  <2>2. \A t \in Track : Cardinality(plan[t]) \in Nat
    <3>1. IsFiniteSet(Track \cup OtherId)
      BY SchedulerAssumption, FS_Union
    <3> QED
      BY <2>1, <3>1, FS_Subset, FS_CardinalityType
  <2>3. status \in [Track -> Statuses] /\ inDegree \in [Track -> Int]
    BY <2>2 DEF Statuses
  <2>4. permits \in 0 .. MaxConcurrency
    BY SchedulerAssumption
  <2>5. only \in SUBSET (Track \cup OtherId)
    BY SchedulerAssumption
  <2> QED
    BY <2>1, <2>3, <2>4, <2>5 DEF TypeOK
<1>2. With("running") = {} /\ Holders = {}
  BY DEF With, Holders
<1>3. RunningIsExact /\ PermitsAreConserved
  <2>1. Cardinality({}) = 0
    BY FS_EmptySet
  <2>2. RunningIsExact
    BY <1>2, <2>1 DEF RunningIsExact
  <2>3. permits + 0 = MaxConcurrency
    BY SchedulerAssumption
  <2> QED
    BY <1>2, <2>1, <2>2, <2>3 DEF PermitsAreConserved
<1>4. WorkersMatchStatus /\ NothingYet /\ SleepsOnlyWhileRunning
  BY DEF WorkersMatchStatus, NothingYet, SleepsOnlyWhileRunning, Active
<1> QED
  BY <1>1, <1>3, <1>4 DEF IInv

\* A step that leaves the goroutines, the statuses and the counters alone keeps the
\* parts of the invariant that speak of them.
LEMMA QuietStep ==
  ASSUME IInv, UNCHANGED <<status, running, worker, permits>>
  PROVE  (WorkersMatchStatus /\ RunningIsExact /\ PermitsAreConserved)'
BY DEF IInv, WorkersMatchStatus, RunningIsExact, PermitsAreConserved, With, Holders

\* The caller's steps that touch neither tracks nor permits.
LEMMA CallerQuiet ==
  ASSUME IInv,
         \/ RejectSelector \/ ProbeFails \/ CollectNothing
         \/ Wait \/ LeaveLoop \/ Join \/ Cancel \/ UNCHANGED vars
  PROVE  IInv'
<1>1. TypeOK'
  BY DEF IInv, TypeOK, RejectSelector, ProbeFails, CollectNothing, Wait, LeaveLoop, Join,
         Cancel, Return, input, shared, vars
<1>2. UNCHANGED <<status, running, worker, permits>>
  BY DEF RejectSelector, ProbeFails, CollectNothing, Wait, LeaveLoop, Join, Cancel, Return,
         input, shared, vars
<1>3. NothingYet'
  BY <1>2 DEF IInv, NothingYet, RejectSelector, ProbeFails, CollectNothing, Wait, LeaveLoop, Join,
         Cancel, Return, input, shared, vars
<1>4. SleepsOnlyWhileRunning'
  BY DEF IInv, SleepsOnlyWhileRunning, RejectSelector, ProbeFails, CollectNothing, Wait,
         LeaveLoop, Join, Cancel, Return, input, shared, vars
<1> QED
  BY <1>1, <1>2, <1>3, <1>4, QuietStep DEF IInv

\* Settling the tracks outside a selection keeps the invariant: nothing runs yet.
LEMMA PrepareIInv ==
  ASSUME IInv, Prepare
  PROVE  IInv'
<1>1. PICK found \in SUBSET (IF only = {} THEN {} ELSE Track \ only) :
        /\ status' = [t \in Track |->
                        IF t \in found THEN "done"
                        ELSE IF t \in (IF only = {} THEN {} ELSE Track \ only)
                             THEN "blocked" ELSE status[t]]
        /\ inDegree' = PremarkedDegrees(found)
        /\ completed' = completed + Entries(IF only = {} THEN {} ELSE Track \ only)
  BY DEF Prepare
<1>2. \A t \in Track : status'[t] \in {"pending", "done", "blocked"}
  BY <1>1 DEF IInv, NothingYet, Prepare
<1>3. \A t \in Track : worker'[t] = "none"
  BY DEF IInv, NothingYet, Prepare
<1>4. With("running")' = {} /\ With("running") = {}
  BY <1>2 DEF With, IInv, NothingYet, Prepare
<1>5. Holders' = Holders
  BY DEF Holders, Prepare
<1>6. completed' \in Nat
  <2>1. Entries(IF only = {} THEN {} ELSE Track \ only) \in Nat
    BY EntriesIsNat
  <2> QED
    BY <1>1, <2>1 DEF IInv, TypeOK
<1>7. inDegree' \in [Track -> Int]
  <2>1. \A t \in Track : Entries(plan[t] \cap found) \in Nat
    BY EntriesIsNat
  <2> QED
    BY <1>1, <2>1 DEF IInv, TypeOK, PremarkedDegrees
<1>8. status' \in [Track -> Statuses]
  BY <1>1, <1>2 DEF Statuses
<1>9. TypeOK'
  BY <1>6, <1>7, <1>8 DEF IInv, TypeOK, Prepare, input
<1>10. WorkersMatchStatus'
  BY <1>2, <1>3 DEF WorkersMatchStatus, Active
<1>11. RunningIsExact'
  BY <1>4 DEF IInv, RunningIsExact, Prepare
<1>12. PermitsAreConserved'
  BY <1>5 DEF IInv, PermitsAreConserved, Prepare
<1>13. NothingYet' /\ SleepsOnlyWhileRunning'
  BY DEF NothingYet, SleepsOnlyWhileRunning, Prepare
<1> QED
  BY <1>9, <1>10, <1>11, <1>12, <1>13 DEF IInv

\* Claiming the ready tracks adds to runningCount what it adds to the running set.
LEMMA CollectIInv ==
  ASSUME IInv, Collect
  PROVE  IInv'
<1>1. Ready \in SUBSET Track /\ \A t \in Ready : status[t] = "pending"
  BY DEF Ready, With
<1>2. With("running")' = With("running") \cup Ready
  BY <1>1 DEF With, Collect
<1>3. With("running") \cap Ready = {} /\ With("running") \in SUBSET Track
  BY <1>1 DEF With
<1>4. Cardinality(With("running")') = Cardinality(With("running")) + Cardinality(Ready)
  BY <1>1, <1>2, <1>3, DisjointTracks
<1>5. RunningIsExact'
  BY <1>4 DEF IInv, RunningIsExact, Collect, Claimed
<1>6. Holders' = Holders
  BY <1>1 DEF Holders, Collect, IInv, WorkersMatchStatus, Active
<1>7. PermitsAreConserved'
  BY <1>6 DEF IInv, PermitsAreConserved, Collect
<1>8. WorkersMatchStatus'
  BY <1>1 DEF IInv, WorkersMatchStatus, Active, Collect, TypeOK
<1>9. TypeOK'
  <2>1. running' \in Nat
    BY <1>1, TrackSetsAreFinite DEF IInv, TypeOK, Collect, Claimed
  <2>2. status' \in [Track -> Statuses]
    BY DEF IInv, TypeOK, Collect, Statuses
  <2> QED
    BY <2>1, <2>2 DEF IInv, TypeOK, Collect, input
<1>10. NothingYet' /\ SleepsOnlyWhileRunning'
  BY DEF NothingYet, SleepsOnlyWhileRunning, Collect
<1> QED
  BY <1>5, <1>7, <1>8, <1>9, <1>10 DEF IInv

\* Blocking the rest touches pending tracks only.
LEMMA BlockTheRestIInv ==
  ASSUME IInv, BlockTheRest
  PROVE  IInv'
<1> USE DEF BlockTheRest, MayBlockTheRest, Rest
<1>1. With("running")' = With("running") /\ Holders' = Holders
  BY DEF With, Holders
<1>2. TypeOK'
  <2>1. Cardinality(With("pending")) \in Nat
    BY TrackSetsAreFinite DEF With
  <2>2. status' \in [Track -> Statuses]
    BY DEF IInv, TypeOK, Statuses
  <2> QED
    BY <2>1, <2>2 DEF IInv, TypeOK, input
<1>3. WorkersMatchStatus'
  BY DEF With, IInv, WorkersMatchStatus, Active
<1>4. RunningIsExact' /\ PermitsAreConserved'
  BY <1>1 DEF IInv, RunningIsExact, PermitsAreConserved
<1>5. NothingYet' /\ SleepsOnlyWhileRunning'
  BY DEF NothingYet, SleepsOnlyWhileRunning
<1> QED
  BY <1>2, <1>3, <1>4, <1>5 DEF IInv

\* A permit taken is a permit held.
LEMMA AcquireIInv ==
  ASSUME IInv, NEW t \in Track, Acquire(t)
  PROVE  IInv'
<1> USE DEF Acquire
<1>1. Holders' = Holders \cup {t} /\ t \notin Holders /\ Holders \in SUBSET Track
  BY DEF IInv, TypeOK, Holders
<1>2. Cardinality(Holders') = Cardinality(Holders) + 1
  BY <1>1, OneTrackMore
<1>3. Cardinality(Holders) \in Nat
  BY <1>1, TrackSetsAreFinite
<1>4. PermitsAreConserved'
  BY <1>2, <1>3, SchedulerAssumption DEF IInv, TypeOK, PermitsAreConserved
<1>5. TypeOK'
  BY SchedulerAssumption DEF IInv, TypeOK, input, shared
<1>6. WorkersMatchStatus'
  BY DEF IInv, TypeOK, WorkersMatchStatus, Active, shared
<1>7. With("running")' = With("running")
  BY DEF With, shared
<1>8. RunningIsExact'
  BY <1>7 DEF IInv, RunningIsExact, shared
<1>9. NothingYet' /\ SleepsOnlyWhileRunning'
  BY DEF IInv, NothingYet, SleepsOnlyWhileRunning, shared
<1> QED
  BY <1>4, <1>5, <1>6, <1>8, <1>9 DEF IInv

\* A second attempt keeps the permit of the first.
LEMMA RetryIInv ==
  ASSUME IInv, NEW t \in Track, Retry(t)
  PROVE  IInv'
<1> USE DEF Retry
<1>1. Holders' = Holders
  BY DEF IInv, TypeOK, Holders
<1>2. With("running")' = With("running")
  BY DEF With, shared
<1>3. RunningIsExact' /\ PermitsAreConserved'
  BY <1>1, <1>2 DEF IInv, RunningIsExact, PermitsAreConserved, shared
<1>4. TypeOK'
  BY DEF IInv, TypeOK, input, shared
<1>5. WorkersMatchStatus'
  BY DEF IInv, TypeOK, WorkersMatchStatus, Active, shared
<1>6. NothingYet' /\ SleepsOnlyWhileRunning'
  BY DEF IInv, NothingYet, SleepsOnlyWhileRunning, shared
<1> QED
  BY <1>3, <1>4, <1>5, <1>6 DEF IInv

\* A permit given back is no longer held.
LEMMA ReleaseIInv ==
  ASSUME IInv, NEW t \in Track, Release(t)
  PROVE  IInv'
<1> USE DEF Release, FreedPermits
<1>1. Holders' = Holders \ {t} /\ t \in Holders /\ Holders \in SUBSET Track
  BY DEF IInv, TypeOK, Holders
<1>2. Cardinality(Holders') = Cardinality(Holders) - 1 /\ Cardinality(Holders) \in Nat \ {0}
  BY <1>1, OneTrackLess
<1>3. permits + Cardinality(Holders) = MaxConcurrency /\ permits \in Nat
  BY SchedulerAssumption DEF IInv, TypeOK, PermitsAreConserved
<1>4. PermitsAreConserved' /\ permits' \in 0 .. MaxConcurrency
  <2> DEFINE h == Cardinality(Holders)
  <2>1. h \in Nat \ {0} /\ permits + h = MaxConcurrency /\ permits' = permits + 1
    BY <1>2, <1>3
  <2>2. permits' + (h - 1) = MaxConcurrency /\ permits' \in 0 .. MaxConcurrency
    BY <1>3, <2>1, SchedulerAssumption
  <2> QED
    BY <1>2, <2>2 DEF PermitsAreConserved
<1>5. TypeOK'
  BY <1>4 DEF IInv, TypeOK, input, shared
<1>6. WorkersMatchStatus'
  BY DEF IInv, TypeOK, WorkersMatchStatus, Active, shared
<1>7. With("running")' = With("running")
  BY DEF With, shared
<1>8. RunningIsExact'
  BY <1>7 DEF IInv, RunningIsExact, shared
<1>9. NothingYet' /\ SleepsOnlyWhileRunning'
  BY DEF IInv, NothingYet, SleepsOnlyWhileRunning, shared
<1> QED
  BY <1>4, <1>5, <1>6, <1>8, <1>9 DEF IInv

\* A running track leaves the running set, and the count with it.
LEMMA StopsRunning ==
  ASSUME IInv, NEW t \in Track, status[t] = "running",
         With("running")' = With("running") \ {t}, running' = running - 1
  PROVE  RunningIsExact' /\ running' \in Nat
<1>1. With("running") \in SUBSET Track /\ t \in With("running")
  BY DEF With
<1>2. Cardinality(With("running")') = Cardinality(With("running")) - 1
      /\ Cardinality(With("running")) \in Nat \ {0}
  BY <1>1, OneTrackLess
<1> QED
  BY <1>2 DEF IInv, RunningIsExact

\* A goroutine that gets no permit ends its track and frees nothing.
LEMMA AcquireFailsIInv ==
  ASSUME IInv, NEW t \in Track, AcquireFails(t)
  PROVE  IInv'
<1> USE DEF AcquireFails
<1>1. status[t] = "running"
  BY DEF IInv, WorkersMatchStatus, Active
<1>2. status' = [status EXCEPT ![t] = "failed"] /\ completed' = completed + 1
  BY <1>1
<1>3. With("running")' = With("running") \ {t}
  BY <1>2 DEF With, IInv, TypeOK
<1>4. RunningIsExact' /\ running' \in Nat
  BY <1>1, <1>3, StopsRunning
<1>5. Holders' = Holders
  BY DEF Holders, IInv, TypeOK
<1>6. PermitsAreConserved'
  BY <1>5 DEF IInv, PermitsAreConserved
<1>7. TypeOK'
  <2>1. status' \in [Track -> Statuses]
    BY <1>2 DEF IInv, TypeOK, Statuses
  <2>2. main' \in {"preparing", "collect", "rechecking", "waiting", "joining", "returned"}
    BY DEF IInv, TypeOK, Woken
  <2>3. completed' \in Nat
    BY <1>2 DEF IInv, TypeOK
  <2> QED
    BY <1>4, <2>1, <2>2, <2>3 DEF IInv, TypeOK, input
<1>8. WorkersMatchStatus'
  BY <1>2 DEF IInv, TypeOK, WorkersMatchStatus, Active
<1>9. NothingYet' /\ SleepsOnlyWhileRunning'
  BY DEF IInv, NothingYet, SleepsOnlyWhileRunning, Woken
<1> QED
  BY <1>4, <1>6, <1>7, <1>8, <1>9 DEF IInv

\* What the two reports share, given what they do to the statuses.
LEMMA ReportIInv ==
  ASSUME IInv, NEW t \in Track, Report(t),
         status' \in [Track -> Statuses], inDegree' \in [Track -> Int], completed' \in Nat,
         status'[t] \in {"done", "failed"},
         \A x \in Track \ {t} : status'[x] # status[x] =>
                                status[x] = "pending" /\ status'[x] = "blocked"
  PROVE  IInv'
<1> USE DEF Report
<1>1. status[t] = "running"
  BY DEF IInv, WorkersMatchStatus, Active
<1>2. With("running")' = With("running") \ {t}
  BY DEF With
<1>3. RunningIsExact' /\ running' \in Nat
  BY <1>1, <1>2, StopsRunning
<1>4. Holders' = Holders
  BY DEF Holders, IInv, TypeOK
<1>5. PermitsAreConserved'
  BY <1>4 DEF IInv, PermitsAreConserved
<1>6. main' \in {"preparing", "collect", "rechecking", "waiting", "joining", "returned"}
  BY DEF IInv, TypeOK, Woken
<1>7. TypeOK'
  BY <1>3, <1>6 DEF IInv, TypeOK, input
<1>8. WorkersMatchStatus'
  BY DEF IInv, TypeOK, WorkersMatchStatus, Active
<1>9. NothingYet' /\ SleepsOnlyWhileRunning'
  BY DEF IInv, NothingYet, SleepsOnlyWhileRunning, Woken
<1> QED
  BY <1>3, <1>5, <1>7, <1>8, <1>9 DEF IInv

\* A success is a report that touches no other track.
LEMMA ReportDoneIInv ==
  ASSUME IInv, NEW t \in Track, ReportDone(t)
  PROVE  IInv'
<1>1. status' \in [Track -> Statuses] /\ inDegree' \in [Track -> Int] /\ completed' \in Nat
  BY DEF ReportDone, IInv, TypeOK, Statuses
<1>2. status'[t] = "done" /\ \A x \in Track \ {t} : status'[x] = status[x]
  BY DEF ReportDone, IInv, TypeOK
<1> QED
  BY <1>1, <1>2, ReportIInv DEF ReportDone

\* A cascade reaches pending tracks only.
LEMMA CascadeIsPending ==
  ASSUME NEW t \in Track
  PROVE  Cascade(t) \in SUBSET With("pending") /\ Cascade(t) \in SUBSET Track
BY DEF Cascade, With

\* A failure is a report that blocks pending tracks only.
LEMMA ReportFailedIInv ==
  ASSUME IInv, NEW t \in Track, ReportFailed(t)
  PROVE  IInv'
<1>1. Cascade(t) \in SUBSET With("pending") /\ Cascade(t) \in SUBSET Track
  BY CascadeIsPending
<1>2. status' \in [Track -> Statuses] /\ inDegree' \in [Track -> Int]
  BY DEF ReportFailed, IInv, TypeOK, Statuses
<1>3. completed' \in Nat
  <2>1. Cardinality(Cascade(t)) \in Nat
    BY <1>1, TrackSetsAreFinite
  <2> QED
    BY <2>1 DEF ReportFailed, IInv, TypeOK
<1>4. status'[t] = "failed" /\ \A x \in Track \ {t} : status'[x] # status[x] =>
                                status[x] = "pending" /\ status'[x] = "blocked"
  BY <1>1 DEF ReportFailed, With
<1> QED
  BY <1>2, <1>3, <1>4, ReportIInv DEF ReportFailed

\* Every step keeps the invariant, one case per action.
LEMMA NextIInv == IInv /\ [Next]_vars => IInv'
<1> SUFFICES ASSUME IInv, [Next]_vars PROVE IInv'
  OBVIOUS
<1>1. CASE \/ RejectSelector \/ ProbeFails \/ CollectNothing
           \/ Wait \/ LeaveLoop \/ Join \/ Cancel \/ UNCHANGED vars
  BY <1>1, CallerQuiet
<1>2. CASE Prepare
  BY <1>2, PrepareIInv
<1>3. CASE Collect
  BY <1>3, CollectIInv
<1>4. CASE BlockTheRest
  BY <1>4, BlockTheRestIInv
<1>5. CASE \E t \in Track : Worker(t)
  BY <1>5, AcquireIInv, AcquireFailsIInv, RetryIInv, ReportDoneIInv, ReportFailedIInv,
     ReleaseIInv DEF Worker
<1>6. CASE Returned
  BY <1>6, CallerQuiet DEF Returned
<1> QED
  BY <1>1, <1>2, <1>3, <1>4, <1>5, <1>6 DEF Next, Caller

\* The inductive invariant holds for every plan, distinct ids or not.
THEOREM SpecIInv == Spec => []IInv
BY InitIInv, NextIInv, PTL DEF Spec

\* Every variable keeps its type; in particular the semaphore never exceeds its weight
\* and runningCount never goes below zero (scheduler.go:164,174,224).
THEOREM TypeCorrect == Spec => []TypeOK
<1>1. IInv => TypeOK
  BY DEF IInv
<1> QED
  BY <1>1, SpecIInv, PTL

\* Permits are conserved: no path through a goroutine loses or duplicates one.
THEOREM PermitSafety == Spec => []PermitsAreConserved
<1>1. IInv => PermitsAreConserved
  BY DEF IInv
<1> QED
  BY <1>1, SpecIInv, PTL

\* No wakeup is lost: the caller sleeps in cond.Wait only while some goroutine has yet
\* to broadcast, for any number of tracks and any order of reports.
THEOREM NoLostWakeup == Spec => []SleeperHasAWaker
<1>1. ASSUME IInv PROVE SleeperHasAWaker
  <2>1. SUFFICES ASSUME main = "waiting"
                 PROVE  \E t \in Track : worker[t] \in Active
    BY <2>1 DEF SleeperHasAWaker, Active
  <2>2. Cardinality(With("running")) # 0
    BY <1>1, <2>1 DEF IInv, SleepsOnlyWhileRunning, RunningIsExact
  <2>3. With("running") # {}
    BY <2>2, FS_EmptySet
  <2>4. PICK t \in Track : status[t] = "running"
    BY <2>3 DEF With
  <2> QED
    BY <1>1, <2>4 DEF IInv, WorkersMatchStatus
<1> QED
  BY <1>1, SpecIInv, PTL

\* No step from a state of the invariant changes a terminal status.
LEMMA TerminalStays ==
  ASSUME IInv, [Next]_vars
  PROVE  \A t \in Track : status[t] \in Terminal => status'[t] = status[t]
<1> SUFFICES ASSUME NEW x \in Track, status[x] \in Terminal
             PROVE  status'[x] = status[x]
  OBVIOUS
<1> USE DEF Terminal
<1>1. CASE UNCHANGED status
  BY <1>1
<1>2. CASE Prepare
  BY <1>2 DEF Prepare, IInv, NothingYet
<1>3. CASE Collect
  BY <1>3 DEF Collect, Ready, With
<1>4. CASE BlockTheRest
  BY <1>4 DEF BlockTheRest, Rest, With
<1>5. ASSUME NEW t \in Track, AcquireFails(t) PROVE status'[x] = status[x]
  BY <1>5 DEF AcquireFails, IInv, TypeOK
<1>6. ASSUME NEW t \in Track, ReportDone(t) PROVE status'[x] = status[x]
  BY <1>6 DEF ReportDone, Report, IInv, TypeOK, WorkersMatchStatus, Active
<1>7. ASSUME NEW t \in Track, ReportFailed(t) PROVE status'[x] = status[x]
  <2>1. Cascade(t) \in SUBSET With("pending")
    BY CascadeIsPending
  <2> QED
    BY <1>7, <2>1 DEF ReportFailed, Report, IInv, TypeOK, WorkersMatchStatus, Active, With
<1>8. CASE \/ RejectSelector \/ ProbeFails \/ CollectNothing \/ Wait \/ LeaveLoop \/ Join
           \/ Cancel \/ Returned \/ UNCHANGED vars
           \/ \E t \in Track : Acquire(t) \/ Retry(t) \/ Release(t)
  <2>1. UNCHANGED status
    BY <1>8 DEF RejectSelector, ProbeFails, CollectNothing, Wait, LeaveLoop, Join, Cancel,
                Returned, Return, Acquire, Retry, Release, shared, vars
  <2> QED
    BY <2>1
<1> QED
  BY <1>2, <1>3, <1>4, <1>5, <1>6, <1>7, <1>8 DEF Next, Caller, Worker

\* No step overwrites a terminal status, whatever the order of reports, cascades and
\* blockings.
THEOREM TerminalStatusIsFinal == Spec => TerminalIsFinal
<1>1. IInv /\ [Next]_vars
      => [\A t \in Track : status[t] \in Terminal => status'[t] = status[t]]_vars
  BY TerminalStays
<1> QED
  BY <1>1, SpecIInv, PTL DEF Spec, TerminalIsFinal

\* A cascade stops nowhere: a pending track behind the failed one or behind a track the
\* cascade blocks is reached too.
LEMMA CascadeIsClosed ==
  ASSUME NEW t \in Track, NEW x \in With("pending"), plan[x] \cap (Cascade(t) \cup {t}) # {}
  PROVE  x \in Cascade(t)
<1>1. PICK d \in plan[x] : d \in Cascade(t) \cup {t}
  OBVIOUS
<1>2. SUFFICES ASSUME NEW S \in SUBSET With("pending"),
                      \A y \in With("pending") : plan[y] \cap (S \cup {t}) # {} => y \in S
               PROVE  x \in S
  BY DEF Cascade
<1>3. d \in S \cup {t}
  BY <1>1, <1>2 DEF Cascade
<1> QED
  BY <1>1, <1>2, <1>3

\* A failure and its cascade are one step, and they leave no pending track behind them.
LEMMA FailureCascades ==
  ASSUME IInv, FailureReachesDescendants, NEW t \in Track, ReportFailed(t)
  PROVE  FailureReachesDescendants'
<1>1. /\ plan' = plan /\ only' = only /\ groupErr' = groupErr
      /\ status' = [x \in Track |-> IF x = t THEN "failed"
                                    ELSE IF x \in Cascade(t) THEN "blocked" ELSE status[x]]
  BY DEF ReportFailed, Report, input
<1>2. With("pending")' = With("pending") \ Cascade(t)
  <2>1. status[t] = "running"
    BY DEF ReportFailed, Report, IInv, WorkersMatchStatus, Active
  <2> QED
    BY <1>1, <2>1 DEF With
<1>3. (With("failed") \cup With("blocked"))' \subseteq With("failed") \cup With("blocked") \cup Cascade(t) \cup {t}
  BY <1>1 DEF With
<1> SUFFICES ASSUME only = {}, ~groupErr, NEW x \in With("pending")'
             PROVE  plan[x] \cap (With("failed") \cup With("blocked"))' = {}
  BY <1>1 DEF FailureReachesDescendants
<1>4. x \in With("pending") /\ x \notin Cascade(t)
  BY <1>2
<1>5. plan[x] \cap (Cascade(t) \cup {t}) = {}
  BY <1>4, CascadeIsClosed
<1>6. plan[x] \cap (With("failed") \cup With("blocked")) = {}
  BY <1>4 DEF FailureReachesDescendants
<1> QED
  BY <1>3, <1>5, <1>6

\* The other steps make no track pending, and none failed or blocked that a pending one
\* could wait for, but for a failed acquisition, which is an infrastructure error.
LEMMA NextReachesDescendants ==
  ASSUME IInv, FailureReachesDescendants, [Next]_vars
  PROVE  FailureReachesDescendants'
<1>1. ASSUME NEW t \in Track, ReportFailed(t) PROVE FailureReachesDescendants'
  BY <1>1, FailureCascades
<1>2. ASSUME NEW t \in Track, AcquireFails(t) PROVE FailureReachesDescendants'
  BY <1>2 DEF AcquireFails, FailureReachesDescendants
<1>3. CASE /\ plan' = plan /\ only' = only /\ groupErr' = groupErr
           /\ only = {} => /\ With("pending")' \subseteq With("pending")
                           /\ \/ With("pending")' = {}
                              \/ With("failed")' = With("failed") /\ With("blocked")' = With("blocked")
  BY <1>3 DEF FailureReachesDescendants
<1>4. CASE \/ RejectSelector \/ ProbeFails \/ CollectNothing \/ Wait \/ LeaveLoop \/ Join \/ Cancel
           \/ Returned \/ UNCHANGED vars \/ \E t \in Track : Acquire(t) \/ Retry(t) \/ Release(t)
  <2>1. UNCHANGED <<plan, only, status, groupErr>>
    BY <1>4 DEF RejectSelector, ProbeFails, CollectNothing, Wait, LeaveLoop, Join, Cancel, Returned, Return,
                Acquire, Retry, Release, input, shared, vars
  <2> QED
    BY <1>3, <2>1 DEF With
<1>5. CASE Prepare
  <2>1. plan' = plan /\ only' = only /\ groupErr' = groupErr
    BY <1>5 DEF Prepare, input
  <2>2. only = {} => status' = status
    BY <1>5 DEF Prepare, IInv, TypeOK
  <2> QED
    BY <1>3, <2>1, <2>2 DEF With
<1>6. CASE Collect
  <2>1. \A t \in Ready : status[t] = "pending"
    BY DEF Ready, With
  <2> QED
    BY <1>3, <1>6, <2>1 DEF Collect, With, input
<1>7. CASE BlockTheRest
  BY <1>3, <1>7 DEF BlockTheRest, Rest, With, input
<1>8. ASSUME NEW t \in Track, ReportDone(t) PROVE FailureReachesDescendants'
  <2>1. status[t] = "running" /\ status' = [status EXCEPT ![t] = "done"] /\ UNCHANGED <<plan, only, groupErr>>
    BY <1>8 DEF ReportDone, Report, IInv, WorkersMatchStatus, Active, input
  <2>2. /\ With("pending")' = With("pending")
        /\ With("failed")' = With("failed") /\ With("blocked")' = With("blocked")
    BY <2>1 DEF With, IInv, TypeOK
  <2> QED
    BY <1>3, <2>1, <2>2
<1> QED
  BY <1>1, <1>2, <1>4, <1>5, <1>6, <1>7, <1>8 DEF Next, Caller, Worker

\* No track is left pending behind a failed or blocked one, at any depth of any plan, cyclic
\* plans and repeated ids included (scheduler.go:203-215).
THEOREM FailureIsFollowed == Spec => []FailureReachesDescendants
<1>1. Init => FailureReachesDescendants
  BY DEF Init, With, FailureReachesDescendants
<1>2. IInv /\ FailureReachesDescendants /\ [Next]_vars => FailureReachesDescendants'
  BY NextReachesDescendants
<1> QED
  BY <1>1, <1>2, SpecIInv, PTL DEF Spec
-----------------------------------------------------------------------------
(***************************************************************************)
(* With distinct ids the counters the two loops decide on are exact.       *)
(***************************************************************************)

\* Run leaves its loop, and then returns, only with every track settled.
JoinsWhenFinished == main = "joining" => Finished = Track

VerdictMeansReturned == verdict # "none" <=> main = "returned"

CInv ==
  /\ IInv
  /\ completed = Cardinality(Finished)
  /\ DegreesAreExact
  /\ RunsAfterItsDeps
  /\ JoinsWhenFinished
  /\ VerdictMeansReturned
  /\ ReturnsOnlyWhenSettled

\* With distinct ids, looping over plan.Tracks counts each track once.
LEMMA EntriesAreTracks ==
  ASSUME Repeats = {}, NEW S \in SUBSET Track
  PROVE  Entries(S) = Cardinality(S) /\ Cardinality(S) \in Nat
<1>1. S \cap Repeats = {} /\ Cardinality({}) = 0
  BY FS_EmptySet
<1> QED
  BY <1>1, TrackSetsAreFinite DEF Entries

\* The dependencies of a track are finitely many.
LEMMA DepsAreFinite ==
  ASSUME TypeOK, NEW t \in Track
  PROVE  /\ IsFiniteSet(plan[t]) /\ Cardinality(plan[t]) \in Nat
         /\ \A S : IsFiniteSet(plan[t] \ S) /\ Cardinality(plan[t] \ S) \in Nat
<1>1. IsFiniteSet(Track \cup OtherId)
  BY SchedulerAssumption, FS_Union
<1>2. plan[t] \in SUBSET (Track \cup OtherId)
  BY DEF TypeOK
<1>3. \A S : plan[t] \ S \in SUBSET (Track \cup OtherId)
  BY <1>2
<1> QED
  BY <1>1, <1>2, <1>3, FS_Subset, FS_CardinalityType

\* If as many tracks are finished as there are, all are.
LEMMA AllFinished ==
  ASSUME Repeats = {}, completed = Cardinality(Finished), completed >= TotalTracks
  PROVE  Finished = Track
<1>1. Finished \in SUBSET Track /\ Track \in SUBSET Track
  BY DEF Finished
<1>2. TotalTracks = Cardinality(Track) /\ Cardinality(Track) \in Nat
  BY <1>1, EntriesAreTracks DEF TotalTracks
<1>3. Cardinality(Finished) \in Nat /\ Cardinality(Finished) <= Cardinality(Track)
  BY <1>1, TrackSetsAreFinite, FS_Subset
<1>4. Cardinality(Finished) = Cardinality(Track)
  BY <1>2, <1>3
<1> QED
  BY <1>1, <1>4, TrackSetsAreFinite, FS_Subset

\* The counters are exact initially.
LEMMA InitCInv == Repeats = {} /\ Init => CInv
<1> SUFFICES ASSUME Repeats = {}, Init PROVE CInv
  OBVIOUS
<1>1. IInv
  BY InitIInv
<1>2. completed = Cardinality(Finished)
  <2>1. Finished = {} /\ Cardinality({}) = 0
    BY FS_EmptySet DEF Init, Finished, Terminal
  <2> QED
    BY <2>1 DEF Init
<1>3. DegreesAreExact
  <2>1. With("done") = {}
    BY DEF Init, With
  <2>2. \A t \in Track : plan[t] \ With("done") = plan[t]
    BY <2>1
  <2> QED
    BY <2>2 DEF Init, DegreesAreExact
<1>4. RunsAfterItsDeps /\ JoinsWhenFinished /\ VerdictMeansReturned /\ ReturnsOnlyWhenSettled
  BY DEF Init, RunsAfterItsDeps, JoinsWhenFinished, VerdictMeansReturned, ReturnsOnlyWhenSettled
<1> QED
  BY <1>1, <1>2, <1>3, <1>4 DEF CInv

\* The count of completed tracks, action by action.
LEMMA CompletedStaysExact ==
  ASSUME Repeats = {}, CInv, [Next]_vars
  PROVE  completed' = Cardinality(Finished')
<1>1. CASE Prepare
  <2> DEFINE outside == IF only = {} THEN {} ELSE Track \ only
  <2>1. Finished = {} /\ completed = 0
    <3>1. Finished = {}
      BY <1>1 DEF Prepare, CInv, IInv, NothingYet, Finished, Terminal
    <3> QED
      BY <3>1, FS_EmptySet DEF CInv
  <2>2. outside \in SUBSET Track /\ completed' = completed + Entries(outside)
    BY <1>1 DEF Prepare
  <2>3. Entries(outside) = Cardinality(outside) /\ Cardinality(outside) \in Nat
    BY <2>2, EntriesAreTracks
  <2>4. Finished' = outside
    BY <1>1 DEF Prepare, CInv, IInv, NothingYet, Finished, Terminal
  <2> QED
    BY <2>1, <2>2, <2>3, <2>4
<1>2. CASE BlockTheRest
  <2>1. Finished' = Finished \cup With("pending") /\ Finished \cap With("pending") = {}
    BY <1>2 DEF BlockTheRest, Rest, Finished, With, Terminal
  <2>2. Cardinality(Finished') = Cardinality(Finished) + Cardinality(With("pending"))
    <3>1. Finished \in SUBSET Track /\ With("pending") \in SUBSET Track
      BY DEF Finished, With
    <3> QED
      BY <2>1, <3>1, DisjointTracks
  <2> QED
    BY <1>2, <2>2 DEF BlockTheRest, Rest, CInv
<1>3. ASSUME NEW t \in Track, AcquireFails(t) PROVE completed' = Cardinality(Finished')
  <2>1. status[t] = "running"
    BY <1>3 DEF AcquireFails, CInv, IInv, WorkersMatchStatus, Active
  <2>2. Finished' = Finished \cup {t} /\ t \notin Finished /\ Finished \in SUBSET Track
    BY <1>3, <2>1 DEF AcquireFails, CInv, IInv, TypeOK, Finished, Terminal
  <2> QED
    BY <1>3, <2>1, <2>2, OneTrackMore DEF AcquireFails, CInv
<1>4. ASSUME NEW t \in Track, ReportDone(t) PROVE completed' = Cardinality(Finished')
  <2>1. status[t] = "running"
    BY <1>4 DEF ReportDone, Report, CInv, IInv, WorkersMatchStatus, Active
  <2>2. Finished' = Finished \cup {t} /\ t \notin Finished /\ Finished \in SUBSET Track
    BY <1>4, <2>1 DEF ReportDone, CInv, IInv, TypeOK, Finished, Terminal
  <2> QED
    BY <1>4, <2>2, OneTrackMore DEF ReportDone, CInv
<1>5. ASSUME NEW t \in Track, ReportFailed(t) PROVE completed' = Cardinality(Finished')
  <2>1. status[t] = "running"
    BY <1>5 DEF ReportFailed, Report, CInv, IInv, WorkersMatchStatus, Active
  <2>2. Cascade(t) \in SUBSET With("pending") /\ Cascade(t) \in SUBSET Track
    BY CascadeIsPending
  <2>3. Finished' = (Finished \cup Cascade(t)) \cup {t}
    BY <1>5, <2>2 DEF ReportFailed, Finished, Terminal
  <2>4. /\ Finished \cap Cascade(t) = {} /\ t \notin Finished \cup Cascade(t)
        /\ Finished \in SUBSET Track /\ Finished \cup Cascade(t) \in SUBSET Track
    BY <2>1, <2>2 DEF Finished, Terminal, With
  <2>5. Cardinality(Finished \cup Cascade(t)) = Cardinality(Finished) + Cardinality(Cascade(t))
    BY <2>2, <2>4, DisjointTracks
  <2>6. Cardinality(Finished') = Cardinality(Finished \cup Cascade(t)) + 1
    BY <2>3, <2>4, OneTrackMore
  <2> QED
    BY <1>5, <2>5, <2>6 DEF ReportFailed, CInv
<1>6. CASE Collect
  <2>1. Finished' = Finished
    BY <1>6 DEF Collect, Ready, Finished, Terminal, With
  <2> QED
    BY <1>6, <2>1 DEF Collect, CInv
<1>7. CASE UNCHANGED <<status, completed>>
  <2>1. Finished' = Finished
    BY <1>7 DEF Finished
  <2> QED
    BY <1>7, <2>1 DEF CInv
<1>8. CASE \/ RejectSelector \/ ProbeFails \/ CollectNothing \/ Wait \/ LeaveLoop \/ Join
           \/ Cancel \/ Returned \/ UNCHANGED vars
           \/ \E t \in Track : Acquire(t) \/ Retry(t) \/ Release(t)
  <2>1. UNCHANGED <<status, completed>>
    BY <1>8 DEF RejectSelector, ProbeFails, CollectNothing, Wait, LeaveLoop, Join, Cancel,
                Returned, Return, Acquire, Retry, Release, shared, vars
  <2> QED
    BY <1>7, <2>1
<1> QED
  BY <1>1, <1>2, <1>3, <1>4, <1>5, <1>6, <1>8 DEF Next, Caller, Worker

\* The dependency counts, action by action.
LEMMA DegreesStayExact ==
  ASSUME Repeats = {}, CInv, [Next]_vars
  PROVE  DegreesAreExact'
<1> SUFFICES ASSUME NEW x \in Track
             PROVE  inDegree'[x] = Cardinality(plan'[x] \ With("done")')
  BY DEF DegreesAreExact
<1>1. plan' = plan /\ TypeOK
  BY DEF Next, Caller, Worker, RejectSelector, ProbeFails, Prepare, Collect, CollectNothing,
         BlockTheRest, Wait, LeaveLoop, Join, Acquire, AcquireFails, Retry, ReportDone,
         ReportFailed, Report, Release, Cancel, Returned, input, vars, CInv, IInv
<1>2. inDegree[x] = Cardinality(plan[x] \ With("done")) /\ inDegree[x] \in Nat
  BY <1>1, DepsAreFinite DEF CInv, DegreesAreExact
<1>3. CASE Prepare
  <2>1. PICK found \in SUBSET (IF only = {} THEN {} ELSE Track \ only) :
          /\ status' = [t \in Track |->
                          IF t \in found THEN "done"
                          ELSE IF t \in (IF only = {} THEN {} ELSE Track \ only)
                               THEN "blocked" ELSE status[t]]
          /\ inDegree' = PremarkedDegrees(found)
    BY <1>3 DEF Prepare
  <2>2. With("done") = {} /\ With("done")' = found
    BY <1>3, <2>1 DEF With, Prepare, CInv, IInv, NothingYet
  <2>3. plan[x] \ With("done") = plan[x]
    BY <2>2
  <2>4. inDegree[x] = Cardinality(plan[x])
    BY <1>2, <2>3
  <2>5. plan[x] \cap found \in SUBSET Track
    OBVIOUS
  <2>6. Entries(plan[x] \cap found) = Cardinality(plan[x] \cap found)
    BY <2>5, EntriesAreTracks
  <2>7. Cardinality(plan[x] \ found) = Cardinality(plan[x]) - Cardinality(plan[x] \cap found)
    BY <1>1, DepsAreFinite, FS_Difference
  <2>8. inDegree'[x] = inDegree[x] - Entries(plan[x] \cap found)
    BY <2>1 DEF PremarkedDegrees
  <2> QED
    BY <1>1, <2>2, <2>4, <2>6, <2>7, <2>8
<1>4. ASSUME NEW t \in Track, ReportDone(t)
      PROVE  inDegree'[x] = Cardinality(plan'[x] \ With("done")')
  <2>1. status[t] = "running"
    BY <1>4 DEF ReportDone, Report, CInv, IInv, WorkersMatchStatus, Active
  <2>2. With("done")' = With("done") \cup {t} /\ t \notin With("done")
    BY <1>4, <2>1 DEF ReportDone, With, CInv, IInv, TypeOK
  <2>3. CASE t \in plan[x]
    <3>1. plan[x] \ With("done")' = (plan[x] \ With("done")) \ {t}
          /\ t \in plan[x] \ With("done")
      BY <2>2, <2>3
    <3>2. Cardinality((plan[x] \ With("done")) \ {t}) = Cardinality(plan[x] \ With("done")) - 1
      BY <1>1, <3>1, DepsAreFinite, FS_RemoveElement
    <3>3. inDegree'[x] = inDegree[x] - 1
      BY <1>4, <2>3 DEF ReportDone
    <3> QED
      BY <1>1, <1>2, <3>1, <3>2, <3>3
  <2>4. CASE t \notin plan[x]
    <3>1. plan[x] \ With("done")' = plan[x] \ With("done")
      BY <2>2, <2>4
    <3>2. inDegree'[x] = inDegree[x]
      BY <1>4, <2>4 DEF ReportDone
    <3> QED
      BY <1>1, <1>2, <3>1, <3>2
  <2> QED
    BY <2>3, <2>4
<1>5. CASE With("done")' = With("done") /\ inDegree' = inDegree
  BY <1>1, <1>2, <1>5
<1>6. CASE Collect
  BY <1>5, <1>6 DEF Collect, Ready, With
<1>7. CASE BlockTheRest
  BY <1>5, <1>7 DEF BlockTheRest, Rest, With
<1>8. ASSUME NEW t \in Track, AcquireFails(t) PROVE With("done")' = With("done") /\ inDegree' = inDegree
  BY <1>1, <1>8 DEF AcquireFails, With, TypeOK
<1>9. ASSUME NEW t \in Track, ReportFailed(t) PROVE With("done")' = With("done") /\ inDegree' = inDegree
  <2>1. Cascade(t) \in SUBSET With("pending")
    BY CascadeIsPending
  <2>2. status[t] = "running"
    BY <1>9 DEF ReportFailed, Report, CInv, IInv, WorkersMatchStatus, Active
  <2> QED
    BY <1>9, <2>1, <2>2 DEF ReportFailed, With
<1>10. CASE \/ RejectSelector \/ ProbeFails \/ CollectNothing \/ Wait \/ LeaveLoop \/ Join
            \/ Cancel \/ Returned \/ UNCHANGED vars
            \/ \E t \in Track : Acquire(t) \/ Retry(t) \/ Release(t)
  <2>1. UNCHANGED <<status, inDegree>>
    BY <1>10 DEF RejectSelector, ProbeFails, CollectNothing, Wait, LeaveLoop, Join, Cancel,
                 Returned, Return, Acquire, Retry, Release, shared, vars
  <2>2. With("done")' = With("done")
    BY <2>1 DEF With
  <2> QED
    BY <1>5, <2>1, <2>2
<1> QED
  BY <1>3, <1>4, <1>5, <1>6, <1>7, <1>8, <1>9, <1>10 DEF Next, Caller, Worker

\* A track whose count is zero has every dependency done.
LEMMA ReadyHasItsDeps ==
  ASSUME CInv
  PROVE  \A t \in Ready : plan[t] \subseteq With("done")
<1> SUFFICES ASSUME NEW t \in Ready PROVE plan[t] \subseteq With("done")
  OBVIOUS
<1>1. t \in Track /\ Cardinality(plan[t] \ With("done")) = 0
  BY DEF Ready, With, CInv, DegreesAreExact
<1>2. plan[t] \ With("done") = {}
  BY <1>1, DepsAreFinite, FS_EmptySet DEF CInv, IInv
<1> QED
  BY <1>2
\* New goroutines are those of ready tracks, and done dependencies stay done.
LEMMA RunsAfterItsDepsStays ==
  ASSUME CInv, [Next]_vars
  PROVE  RunsAfterItsDeps'
<1>1. plan' = plan
  BY DEF Next, Caller, Worker, RejectSelector, ProbeFails, Prepare, Collect, CollectNothing,
         BlockTheRest, Wait, LeaveLoop, Join, Acquire, AcquireFails, Retry, ReportDone,
         ReportFailed, Report, Release, Cancel, Returned, input, vars
<1>2. With("done") \subseteq With("done")'
  BY TerminalStays DEF CInv, With, Terminal
<1>3. CASE Collect
  <2>1. \A t \in Track : worker'[t] # "none" => t \in Ready \/ worker[t] # "none"
    BY <1>3 DEF Collect
  <2> QED
    BY <1>1, <1>2, <2>1, ReadyHasItsDeps DEF CInv, RunsAfterItsDeps
<1>4. CASE ~Collect
  <2>1. \A t \in Track : worker[t] = "none" => worker'[t] = "none"
    BY <1>4 DEF Next, Caller, Worker, RejectSelector, ProbeFails, Prepare, CollectNothing,
           BlockTheRest, Wait, LeaveLoop, Join, Acquire, AcquireFails, Retry, ReportDone,
           ReportFailed, Report, Release, Cancel, Returned, vars, CInv, IInv, TypeOK
  <2> QED
    BY <1>1, <1>2, <2>1 DEF CInv, RunsAfterItsDeps
<1> QED
  BY <1>3, <1>4

\* What Run knows when it leaves its loop and returns stays true.
LEMMA VerdictStays ==
  ASSUME Repeats = {}, CInv, [Next]_vars
  PROVE  (JoinsWhenFinished /\ VerdictMeansReturned /\ ReturnsOnlyWhenSettled)'
<1>1. Finished \subseteq Finished'
  BY TerminalStays DEF CInv, Finished
<1>2. Finished \subseteq Track /\ Finished' \subseteq Track
  BY DEF Finished
<1>3. JoinsWhenFinished'
  <2>1. SUFFICES ASSUME main' = "joining" PROVE Finished' = Track
    BY DEF JoinsWhenFinished
  <2>2. CASE LeaveLoop
    <3>1. completed = Cardinality(Finished) /\ completed \in Nat /\ TotalTracks \in Nat
      BY EntriesIsNat DEF CInv, IInv, TypeOK, TotalTracks
    <3>2. completed >= TotalTracks
      BY <2>2, <3>1 DEF LeaveLoop
    <3> QED
      BY <1>1, <1>2, <3>1, <3>2, AllFinished
  <2>3. CASE main = "joining"
    BY <1>1, <1>2, <2>3 DEF CInv, JoinsWhenFinished
  <2>4. ~LeaveLoop => main = "joining"
    BY <2>1 DEF Next, Caller, Worker, RejectSelector, ProbeFails, Prepare, Collect,
           CollectNothing, BlockTheRest, Wait, Join, Acquire, AcquireFails, Retry, ReportDone,
           ReportFailed, Report, Release, Cancel, Returned, Return, Woken, vars
  <2> QED
    BY <2>2, <2>3, <2>4
<1>4. VerdictMeansReturned'
  <2>1. CASE Caller \/ Cancel \/ Returned \/ UNCHANGED vars
    BY <2>1 DEF CInv, VerdictMeansReturned, Caller, RejectSelector, ProbeFails, Prepare, Collect,
           CollectNothing, BlockTheRest, MayBlockTheRest, Wait, LeaveLoop, Join, Cancel, Returned,
           Return, vars
  <2>2. CASE \E t \in Track : Worker(t)
    <3>1. verdict' = verdict /\ main' \in {main, Woken}
      BY <2>2 DEF Worker, Acquire, AcquireFails, Retry, ReportDone, ReportFailed, Report, Release
    <3> QED
      BY <3>1 DEF CInv, VerdictMeansReturned, Woken
  <2> QED
    BY <2>1, <2>2 DEF Next
<1>5. ReturnsOnlyWhenSettled'
  <2>1. SUFFICES ASSUME verdict' \in {"states", "infra"}
                 PROVE  /\ Finished' = Track
                        /\ \A t \in Track : worker'[t] \in {"none", "exited"}
                        /\ permits' = MaxConcurrency
    BY DEF ReturnsOnlyWhenSettled
  <2>2. CASE Join
    <3>1. Finished = Track /\ \A t \in Track : worker[t] \in {"none", "exited"}
      BY <2>2 DEF Join, CInv, JoinsWhenFinished
    <3>2. Holders = {}
      BY <3>1 DEF Holders
    <3>3. Cardinality(Holders) = 0 /\ permits \in Nat
      BY <3>2, FS_EmptySet, SchedulerAssumption DEF CInv, IInv, TypeOK
    <3>4. permits = MaxConcurrency
      BY <3>3, SchedulerAssumption DEF CInv, IInv, PermitsAreConserved
    <3> QED
      BY <1>1, <1>2, <2>2, <3>1, <3>4 DEF Join
  <2>3. CASE verdict \in {"states", "infra"}
    <3>1. main = "returned"
      BY <2>3 DEF CInv, VerdictMeansReturned
    <3>2. /\ Finished = Track /\ permits = MaxConcurrency
          /\ \A t \in Track : worker[t] \in {"none", "exited"}
      BY <2>3 DEF CInv, ReturnsOnlyWhenSettled
    <3>3. UNCHANGED <<worker, permits>>
      BY <3>1, <3>2 DEF Next, Caller, Worker, RejectSelector, ProbeFails, Prepare,
         Collect, CollectNothing, BlockTheRest, MayBlockTheRest, Wait, LeaveLoop, Join, Acquire,
         AcquireFails, Retry, ReportDone, ReportFailed, Report, Release, Cancel, Returned, vars
    <3> QED
      BY <1>1, <1>2, <3>2, <3>3
  <2>4. ~Join => verdict \in {"states", "infra"}
    BY <2>1 DEF Next, Caller, Worker, RejectSelector, ProbeFails, Prepare, Collect,
           CollectNothing, BlockTheRest, Wait, LeaveLoop, Acquire, AcquireFails, Retry,
           ReportDone, ReportFailed, Report, Release, Cancel, Returned, Return, vars
  <2> QED
    BY <2>2, <2>3, <2>4
<1> QED
  BY <1>3, <1>4, <1>5

\* Every step keeps the counters exact.
LEMMA NextCInv == Repeats = {} /\ CInv /\ [Next]_vars => CInv'
<1> SUFFICES ASSUME Repeats = {}, CInv, [Next]_vars PROVE CInv'
  OBVIOUS
<1>1. IInv'
  BY NextIInv DEF CInv
<1> QED
  BY <1>1, CompletedStaysExact, DegreesStayExact, RunsAfterItsDepsStays, VerdictStays DEF CInv

\* With distinct ids the invariant of the counters holds.
THEOREM SpecCInv == ASSUME Repeats = {} PROVE Spec => []CInv
BY InitCInv, NextCInv, PTL DEF Spec

\* runningCount and completedCount are exact for every plan with distinct ids, so the
\* loop ends neither early nor late and blocks the rest only when nothing runs.
THEOREM CounterSafety == ASSUME Repeats = {} PROVE Spec => []CountersAreExact
<1>1. CInv => CountersAreExact
  BY DEF CInv, IInv, RunningIsExact, CountersAreExact
<1> QED
  BY <1>1, SpecCInv, PTL

\* Every track's count of unmet dependencies is exact, unknown ids included.
THEOREM DegreeSafety == ASSUME Repeats = {} PROVE Spec => []DegreesAreExact
<1>1. CInv => DegreesAreExact
  BY DEF CInv
<1> QED
  BY <1>1, SpecCInv, PTL

\* Counters, degrees and permits are exact at once, for every plan with distinct ids: the
\* scheduler never counts a track twice, frees a permit nobody held, or forgets a dependent.
THEOREM BookkeepingSafety == ASSUME Repeats = {} PROVE Spec => []BookkeepingIsExact
BY CounterSafety, DegreeSafety, PermitSafety, PTL DEF BookkeepingIsExact

\* No goroutine starts before the dependencies of its track are done, on any plan with
\* distinct ids: cyclic ones, unknown dependencies, subset runs and cancellation included.
THEOREM DependencySafety == ASSUME Repeats = {} PROVE Spec => []RunsAfterItsDeps
<1>1. CInv => RunsAfterItsDeps
  BY DEF CInv
<1> QED
  BY <1>1, SpecCInv, PTL

\* Run returns its states only when every track is settled, every goroutine has exited
\* and the semaphore has its whole weight back.
THEOREM ReturnSafety == ASSUME Repeats = {} PROVE Spec => []ReturnsOnlyWhenSettled
<1>1. CInv => ReturnsOnlyWhenSettled
  BY DEF CInv
<1> QED
  BY <1>1, SpecCInv, PTL
-----------------------------------------------------------------------------
(***************************************************************************)
(* The scheduler implements TrackDag.                                      *)
(***************************************************************************)

\* The two modules name the same sets of tracks.
LEMMA DagSets ==
  /\ Dag!Pending = With("pending")
  /\ Dag!Running = With("running")
  /\ Dag!Done = With("done")
  /\ \A t : Dag!Downstream(t) = Cascade(t)
BY DEF Dag!Pending, Dag!Running, Dag!Done, Dag!Downstream, With, Cascade

\* Initial states map to initial states.
LEMMA InitIsDagInit == Init => Dag!Init
BY SchedulerAssumption DEF Init, Dag!Init

\* Every step is one of the abstract module or changes neither plan nor statuses.
LEMMA NextIsDagNext ==
  ASSUME CInv, [Next]_vars
  PROVE  [Dag!Next]_(Dag!dagVars)
<1> USE DEF Dag!dagVars
<1>1. CASE UNCHANGED <<plan, status>>
  BY <1>1
<1>2. CASE Prepare
  <2>1. With("pending") = Track
    BY <1>2 DEF Prepare, CInv, IInv, NothingYet, With
  <2>2. PICK found \in SUBSET (IF only = {} THEN {} ELSE Track \ only) :
          status' = [t \in Track |->
                          IF t \in found THEN "done"
                          ELSE IF t \in (IF only = {} THEN {} ELSE Track \ only)
                               THEN "blocked" ELSE status[t]]
    BY <1>2 DEF Prepare
  <2> DEFINE missing == (IF only = {} THEN {} ELSE Track \ only) \ found
  <2>3. found \in SUBSET Track /\ missing \in SUBSET Track /\ found \cap missing = {}
    OBVIOUS
  <2>4. status' = [t \in Track |-> IF t \in found THEN "done"
                                   ELSE IF t \in missing THEN "blocked" ELSE "pending"]
    BY <2>1, <2>2 DEF With
  <2>5. Dag!Settle
    <3>1. Dag!Pending = Track /\ plan' = plan
      BY <1>2, <2>1, DagSets DEF Prepare, input
    <3>2. \E f, m \in SUBSET Track :
            /\ f \cap m = {}
            /\ status' = [t \in Track |-> IF t \in f THEN "done"
                                          ELSE IF t \in m THEN "blocked" ELSE "pending"]
      BY <2>3, <2>4
    <3> QED
      BY <3>1, <3>2 DEF Dag!Settle
  <2> QED
    BY <2>5 DEF Dag!Next
<1>3. CASE Collect
  <2>1. Ready \in SUBSET With("pending") /\ \A t \in Ready : plan[t] \subseteq With("done")
    BY ReadyHasItsDeps DEF Ready
  <2>2. Dag!Start
    BY <1>3, <2>1, DagSets DEF Dag!Start, Collect, input
  <2> QED
    BY <2>2 DEF Dag!Next
<1>4. CASE BlockTheRest
  <2>1. With("running") = {}
    <3>1. Cardinality(With("running")) = 0
      BY <1>4 DEF BlockTheRest, MayBlockTheRest, CInv, IInv, RunningIsExact
    <3>2. IsFiniteSet(With("running"))
      BY TrackSetsAreFinite DEF With
    <3> QED
      BY <3>1, <3>2, FS_EmptySet
  <2>2. status' = [t \in Track |-> IF t \in With("pending") THEN "blocked" ELSE status[t]]
    BY <1>4 DEF BlockTheRest, Rest, With
  <2>3. plan' = plan
    BY <1>4 DEF BlockTheRest, input
  <2>4. CASE With("pending") # {}
    BY <2>1, <2>2, <2>3, <2>4, DagSets DEF Dag!GiveUp, Dag!Next
  <2>5. CASE With("pending") = {}
    BY <2>2, <2>3, <2>5 DEF CInv, IInv, TypeOK
  <2> QED
    BY <2>4, <2>5
<1>5. ASSUME NEW t \in Track, AcquireFails(t) PROVE Dag!Fail(t)
  <2>1. status[t] = "running"
    BY <1>5 DEF AcquireFails, CInv, IInv, WorkersMatchStatus, Active
  <2>2. t \in Dag!Running /\ plan' = plan
    BY <1>5, <2>1, DagSets DEF With, AcquireFails, input
  <2>3. status' = [x \in Track |-> IF x = t THEN "failed"
                                   ELSE IF x \in {} THEN "blocked" ELSE status[x]]
    BY <1>5, <2>1 DEF AcquireFails, CInv, IInv, TypeOK
  <2> QED
    BY <2>2, <2>3 DEF Dag!Fail
<1>6. ASSUME NEW t \in Track, ReportDone(t) PROVE Dag!Finish(t)
  <2>1. status[t] = "running"
    BY <1>6 DEF ReportDone, Report, CInv, IInv, WorkersMatchStatus, Active
  <2> QED
    BY <1>6, <2>1, DagSets DEF Dag!Finish, With, ReportDone, Report, input
<1>7. ASSUME NEW t \in Track, ReportFailed(t) PROVE Dag!Fail(t)
  <2>1. status[t] = "running"
    BY <1>7 DEF ReportFailed, Report, CInv, IInv, WorkersMatchStatus, Active
  <2> QED
    BY <1>7, <2>1, DagSets DEF Dag!Fail, With, ReportFailed, Report, input
<1>8. CASE \/ RejectSelector \/ ProbeFails \/ CollectNothing \/ Wait \/ LeaveLoop \/ Join
           \/ Cancel \/ Returned \/ UNCHANGED vars
           \/ \E t \in Track : Acquire(t) \/ Retry(t) \/ Release(t)
  <2>1. UNCHANGED <<plan, status>>
    BY <1>8 DEF RejectSelector, ProbeFails, CollectNothing, Wait, LeaveLoop, Join, Cancel,
                Returned, Return, Acquire, Retry, Release, input, shared, vars
  <2> QED
    BY <1>1, <2>1
<1>9. CASE \E t \in Track : AcquireFails(t) \/ ReportDone(t) \/ ReportFailed(t)
  BY <1>5, <1>6, <1>7, <1>9 DEF Dag!Next
<1> QED
  BY <1>2, <1>3, <1>4, <1>8, <1>9 DEF Next, Caller, Worker

\* On every plan with distinct ids the goroutines, counters and locks of the scheduler
\* do what TrackDag promises, under cancellation too.
THEOREM Refinement == ASSUME Repeats = {} PROVE Spec => ImplementsTrackDag
BY InitIsDagInit, NextIsDagNext, SpecCInv, PTL DEF Spec, Dag!Spec, ImplementsTrackDag
=============================================================================
