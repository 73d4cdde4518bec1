---------------------------- MODULE MCScheduler ----------------------------
(***************************************************************************)
(* Instances of Scheduler for TLC: the plans and selections of the runs.   *)
(***************************************************************************)
EXTENDS Scheduler

CONSTANTS a, b, c, ghost

Deps(ofA, ofB, ofC) == [t \in Track |-> IF t = a THEN ofA ELSE IF t = b THEN ofB ELSE ofC]

\* Up to names, three tracks with nothing between them, every acyclic plan that connects them, a
\* cycle, a track that depends on itself, and a dependency that names no track.
Shapes ==
  {Deps({}, {}, {}), Deps({}, {a}, {a}), Deps({}, {}, {a, b}), Deps({}, {a}, {b}), Deps({}, {a}, {a, b}),
   Deps({}, {a}, {}),
   Deps({}, {a, c}, {b}), Deps({}, {b}, {a}), Deps({}, {ghost}, {a, b})}

\* Every selection, with an id that is not in the plan and without.
AllSelections == SUBSET (Track \cup OtherId)

\* A chain, whole runs only: for the race of the caller's two locks.
Chain == {Deps({}, {a}, {b})}
NoSelection == {{}}
=============================================================================
