------------------------------ MODULE TrackDag ------------------------------
(***************************************************************************)
(* What the research scheduler promises a caller of                        *)
(* DefaultScheduler.Run, without goroutines, counters or locks             *)
(* (src/internal/skill/research/scheduler.go and the contract in           *)
(* src/docs/adr/006-research-plane-superagent-wedge.md, section 3.2): a    *)
(* track runs once, only when all its dependencies are done; a failure may *)
(* block what lies downstream of it and nothing else; and the tracks that  *)
(* never ran are blocked together, when no track runs.                     *)
(***************************************************************************)
EXTENDS FiniteSets

CONSTANTS Track, OtherId

VARIABLES plan, status

dagVars == <<plan, status>>

Pending == {t \in Track : status[t] = "pending"}
Running == {t \in Track : status[t] = "running"}
Done    == {t \in Track : status[t] = "done"}

\* The pending tracks every downstream-closed set of pending tracks holds: those with
\* a path of pending tracks back to t.
Downstream(t) ==
  LET Closed(S) == \A x \in Pending : plan[x] \cap (S \cup {t}) # {} => x \in S
  IN  {x \in Pending : \A S \in SUBSET Pending : Closed(S) => x \in S}

Init ==
  /\ plan \in [Track -> SUBSET (Track \cup OtherId)]
  /\ status = [t \in Track |-> "pending"]

\* Before anything runs, a subset run settles the tracks outside its selection.
Settle ==
  /\ Pending = Track
  /\ \E found, missing \in SUBSET Track :
       /\ found \cap missing = {}
       /\ status' = [t \in Track |-> IF t \in found THEN "done"
                                     ELSE IF t \in missing THEN "blocked" ELSE "pending"]
  /\ UNCHANGED plan

\* Several tracks may start at once, each with every dependency done.
Start ==
  /\ \E S \in SUBSET Pending :
       /\ S # {}
       /\ \A t \in S : plan[t] \subseteq Done
       /\ status' = [t \in Track |-> IF t \in S THEN "running" ELSE status[t]]
  /\ UNCHANGED plan

Finish(t) ==
  /\ t \in Running
  /\ status' = [status EXCEPT ![t] = "done"]
  /\ UNCHANGED plan

\* A failed track blocks all its pending descendants, or, when the scheduler is being
\* cancelled, leaves them to GiveUp.
Fail(t) ==
  /\ t \in Running
  /\ \E B \in {{}, Downstream(t)} :
       status' = [x \in Track |-> IF x = t THEN "failed"
                                  ELSE IF x \in B THEN "blocked" ELSE status[x]]
  /\ UNCHANGED plan

\* No track runs and some are left: all of them are blocked, those too that could start (the
\* scheduler does that when a report falls between its two critical sections).
GiveUp ==
  /\ Running = {}
  /\ Pending # {}
  /\ status' = [t \in Track |-> IF t \in Pending THEN "blocked" ELSE status[t]]
  /\ UNCHANGED plan

Next ==
  \/ Settle \/ Start \/ GiveUp
  \/ \E t \in Track : Finish(t) \/ Fail(t)

Spec == Init /\ [][Next]_dagVars
=============================================================================
