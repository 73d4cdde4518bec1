--------------------------- MODULE MCSkillRecords ---------------------------
(***************************************************************************)
(* Instances of SkillRecords for TLC.                                      *)
(***************************************************************************)
EXTENDS SkillRecords, TLC

CONSTANTS r1, r2, j1, j2

Setup(det, expect, schema, allowed, budget) ==
  [det |-> det, expect |-> expect, schema |-> schema, allowed |-> allowed, budget |-> budget]
\* One call, none, any number; a tool that is denied; a rule that no run can pass.
SetupSet ==
  {Setup(TRUE, "stream", FALSE, TRUE, 1), Setup(TRUE, "file", FALSE, TRUE, 0),
   Setup(TRUE, "none", TRUE, TRUE, -1), Setup(FALSE, "none", FALSE, FALSE, 1)}
OneSetup == {Setup(TRUE, "stream", FALSE, TRUE, 1)}

OfR1 == [j \in Judge |-> r1]

\* Fine; fine, but it names no streams; not fine.
Fine == [ok |-> TRUE, refs |-> TRUE]
AnswerSet == {Fine, [ok |-> TRUE, refs |-> FALSE], [ok |-> FALSE, refs |-> TRUE]}
OneAnswer == {Fine}

Rubric(f, c, a, must, p) ==
  [w |-> [format |-> f, completeness |-> c, actionability |-> a],
   must |-> [x \in Criterion |-> x \in must], pass |-> p]
\* All criteria, format a must; and completeness alone.
Two == [j \in Judge |-> IF j = j1 THEN Rubric(3, 4, 3, {"format"}, 7) ELSE Rubric(0, 10, 0, {}, 5)]
=============================================================================
