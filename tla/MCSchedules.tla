---------------------------- MODULE MCSchedules ----------------------------
EXTENDS Schedules, TLC
CONSTANTS a, b
Periods == (a :> 2) @@ (b :> 3)
=============================================================================
