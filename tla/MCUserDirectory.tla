--------------------------- MODULE MCUserDirectory --------------------------
(* UserDirectory on small sets of users, addresses, passwords and fields.   *)
EXTENDS UserDirectory, TLC

CONSTANTS u1, u2, e1, e2, p1, p2, a1, a2, c1, c2

\* Values of one kind are interchangeable: the handlers only compare them.
Symmetry ==
    Permutations({u1, u2}) \cup Permutations({p1, p2})
    \cup Permutations({a1, a2}) \cup Permutations({c1, c2})

=============================================================================
