----------------------------- MODULE MCExchange -----------------------------
(***************************************************************************)
(* Instances of Exchange for TLC.                                          *)
(***************************************************************************)
EXTENDS Exchange

CONSTANTS f1, f2, i1, i2

R(t, id, up) == [t |-> t, id |-> id, up |-> up]

Run == R("runs", "x", {})
OfRun == {<<"runs", "x">>}
OfEval == {<<"eval_runs", "x">>}

\* A research run, with the row of a reducer and the evidence it cites.
Evidence == R("evidence", "1", OfRun)
Research == {Run, R("events", "1", OfRun), Evidence, R("row_evidence", "1", OfRun \cup {Key(Evidence)})}

\* An A/B run with one comparison, and what came after it: a promotion, a canary with the
\* evaluation of its curated fixtures, and one case of that.
Eval == R("eval_runs", "x", {})
Experiment == R("experiments", "e", OfEval)
CuratedEval == R("eval_runs", "y", {})
Versus == {Eval, R("eval_cases", "1", OfEval), Experiment, R("comparisons", "1", {Key(Experiment)})}
After == {R("promotions", "p", OfEval), CuratedEval, R("eval_cases", "2", {Key(CuratedEval)}),
          R("canary_runs", "c", OfEval \cup {Key(CuratedEval)})}

JobSet ==
  {[mode |-> "run", ab |-> FALSE, rows |-> Research, files |-> {f1, f2}],
   [mode |-> "run", ab |-> TRUE, rows |-> {Run} \cup Versus, files |-> {f1}],
   [mode |-> "eval", ab |-> TRUE, rows |-> Versus \cup After, files |-> {f1}],
   [mode |-> "eval", ab |-> TRUE, rows |-> {Eval, CuratedEval} \cup After, files |-> None]}

\* A host's own evidence has the ids that SQLite gave it; the evaluation may be there, and
\* its case.
OwnRows == {R("evidence", "1", {<<"runs", "own">>}), R("runs", "own", {}), Eval, R("eval_cases", "1", OfEval)}
=============================================================================
