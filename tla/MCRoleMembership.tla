-------------------------- MODULE MCRoleMembership -------------------------
(* RoleMembership on a global and a local role.                             *)
EXTENDS RoleMembership

CONSTANTS r1, r2, r3, n1, n2, n3, u1, u2, a1

SeededRoles ==
    [r \in {r1, r2} |->
        IF r = r1 THEN [name |-> n1, scope |-> "GLOBAL"]
        ELSE [name |-> n2, scope |-> "LOCAL"]]

OfferedIn == {<<r2, a1>>}

Keep == [name |-> Unset, scope |-> Unset, areas |-> Unset]

\* An update without a scope may take all areas away.
SomeUpdates ==
    {[Keep EXCEPT !.name = n3], [Keep EXCEPT !.areas = {}],
     [Keep EXCEPT !.scope = "LOCAL", !.areas = {a1}]}

SomeWanted == {{<<r1, None>>, <<r2, a1>>}}

=============================================================================
