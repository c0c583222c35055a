---------------------------- MODULE MCVacations ----------------------------
(* Values of the constants of Vacations for TLC. *)
EXTENDS VacationsLedger, TLC

CONSTANTS r1, r2, b1, b2, b3, b4, c1, c2

\* Three days in each of two years.
MCYearOf == [d \in 0..5 |-> d \div 3]

\* A span across the year end and a day in the second year.
RaceSpans == {<<1, 3>>, <<5, 5>>}

\* A day in each year, a span across the year end, and one with its dates
\* inverted.
SerialSpans == {<<0, 0>>, <<1, 3>>, <<5, 5>>, <<3, 1>>}

Symmetry == Permutations({r1, r2}) \cup Permutations({b1, b2, b3, b4})
              \cup Permutations({c1, c2})

=============================================================================
