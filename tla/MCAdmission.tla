---------------------------- MODULE MCAdmission -----------------------------
(* Three minutes, each of a day of its own; the last is in another month.  *)
EXTENDS Admission, TLC

DayOf(t) == t
MonthOf(t) == t \div 2

Symmetry == Permutations(Requests)
=============================================================================
