-------------------------- MODULE MCShiftPlanning --------------------------
(* One plan, one job, two shifts, one helper, two requests at a time.  *)
EXTENDS ShiftPlanning

CONSTANTS w1, w2, early, late, bar, anna

MCWorkers == {w1, w2}
MCShifts == {early, late}
=============================================================================
