------------------------- MODULE MCShiftAssignments ------------------------
(* ShiftAssignments on small sets of shifts, users, days and times.         *)
EXTENDS ShiftAssignments, TLC

CONSTANTS i1, i2, u1, u2, t1, t2, d1, d2, c1, c2

\* A type with a night shift of eight hours, and one of eight hours too that
\* starts at 08:20; a type without a schedule.
NightAndTwenty ==
    t1 :> {[startTime |-> 1320, endTime |-> 360],
           [startTime |-> 500, endTime |-> 980]}
    @@ t2 :> {}

\* Values of one kind are interchangeable: the handlers only compare them.
Symmetry ==
    Permutations({i1, i2}) \cup Permutations({u1, u2})
    \cup Permutations({c1, c2})
    \cup Permutations({d1, d2})

=============================================================================
