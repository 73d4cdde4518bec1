-------------------------- MODULE MCResearchRun --------------------------
(***************************************************************************)
(* The plan of the repository's planner, less one of its two deep leads: a *)
(* deep track that a wide one and a synthesis depend on; and a chain.      *)
(***************************************************************************)
EXTENDS ResearchRun

CONSTANTS lead, wide, synth

MCTrack == {lead, wide, synth}
MCWide == {wide}
MCNonDet == {synth}
MCPlans ==
  {[t \in MCTrack |-> IF t = lead THEN {} ELSE {lead}],
   [t \in MCTrack |-> CASE t = lead -> {} [] t = wide -> {lead} [] t = synth -> {wide}]}
=============================================================================
