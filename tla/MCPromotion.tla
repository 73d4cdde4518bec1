---------------------------- MODULE MCPromotion ----------------------------
(***************************************************************************)
(* Instances of Promotion for TLC.                                         *)
(***************************************************************************)
EXTENDS Promotion, TLC

CONSTANTS c0, c1, c2, a1, o1, o2, f1, f2, dd, ee

Operators == Permutations(Operator)

Refs == [r \in Ref |-> IF r = BaseRef THEN c0 ELSE c1]
OnePush == <<c2>>
\* The push drops a fixture: it may come between the prompt and the fixtures.
Suites == [c \in Commit |-> IF c = c2 THEN {f1} ELSE {f1, f2}]
OfDd == [a \in Evaluation |-> dd]

\* A strict run, and one that tolerates a failure more and a lower score.
SettingSet ==
  {[score |-> 0, fail |-> 0, pairwise |-> FALSE, antiTie |-> FALSE],
   [score |-> -1, fail |-> 1, pairwise |-> TRUE, antiTie |-> TRUE]}

\* Nothing; a full answer; one that lacks f1 and scores f2 lower.  Between them: equal
\* scores with one pass and with none, a higher score on one fixture, a failure more.
Good == [score |-> 1, pass |-> TRUE]
Poor == [score |-> 0, pass |-> TRUE]
AnswerSet == {Empty, [f \in {f1, f2} |-> IF f = f1 THEN Poor ELSE Good], [f \in {f2} |-> Poor]}

Ask1(op, skill, eval, ref, dry) == [op |-> op, skill |-> skill, eval |-> eval, to |-> ref, dry |-> dry]
RequestSet ==
  {Ask1("promote", dd, a1, HeadRef, FALSE), Ask1("promote", dd, a1, HeadRef, TRUE), Ask1("promote", ee, a1, HeadRef, FALSE),
   Ask1("rollback", dd, None, c0, FALSE), Ask1("rollback", dd, a1, BaseRef, TRUE), Ask1("rollback", dd, a1, c1, FALSE)}
=============================================================================
