----------------------------- MODULE MCDecision -----------------------------
(***************************************************************************)
(* Inputs for TLC: estimates on both sides of every cut-off and margin,    *)
(* scores on both sides of the thresholds and NaN, birth dates around the  *)
(* month, the day and the leap day.                                        *)
(***************************************************************************)
EXTENDS DecisionProps

MCEstimates == {0, 11, 12, 15, 16, 17, 18, 20, 21, 24, 40} \union {NaN}
MCScores == {0, 79, 80, 95} \union {NaN}
MCBirthDates ==
  {2006, 2008, 2010, 2014} \X {2, 3, 4} \X {1, 15, 28, 29, 30}
MCToday == <<2026, 3, 15>>
MCRequiredAges == {12, 16, 18, 21}
=============================================================================
