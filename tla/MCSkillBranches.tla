-------------------------- MODULE MCSkillBranches --------------------------
(***************************************************************************)
(* A small instance of SkillBranches for TLC: two runs to learn from, and  *)
(* five scored runs of which four make two motifs and one is alone.        *)
(***************************************************************************)
EXTENDS SkillBranches, TLC

Row(calls, pass, score, cost) ==
  [calls |-> calls, files |-> "out", prompt |-> "p", base |-> "b", pass |-> pass, score |-> score, cost |-> cost]

MCEvidence == <<Row("ls", TRUE, 9, 0), Row("cat", TRUE, 8, 1), Row("ls", FALSE, 8, 0), Row("cat", TRUE, 9, 0),
                Row("ls", TRUE, 9, 1), Row("wc", TRUE, 9, 0)>>
MCEvals == [own : BOOLEAN, pass : BOOLEAN, fresh : BOOLEAN]

\* The runs are interchangeable, and no property is about liveness.
Runs == Permutations(Lesson)
=============================================================================
