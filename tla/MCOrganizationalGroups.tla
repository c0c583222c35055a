----------------------- MODULE MCOrganizationalGroups ----------------------
(* OrganizationalGroups on two groups, one or two names and two levels.     *)
EXTENDS OrganizationalGroups

CONSTANTS g1, g2, n1, n2, a1

Nothing == [name |-> Unset, level |-> Unset, parent |-> Unset,
            container |-> Unset, area |-> Unset, type |-> Unset]

\* Roots, with and without an area, and children on two levels; a child may
\* be in a container.
SomeCreates ==
    {[Nothing EXCEPT !.name = n1, !.level = 0, !.parent = None, !.area = a,
                     !.container = None, !.type = "CONTAINER"] : a \in {a1, None}}
    \cup {[Nothing EXCEPT !.name = n1, !.level = l, !.parent = p, !.area = None,
                     !.container = None, !.type = "LEADERSHIP"] :
            l \in {0, 1}, p \in Ids}

\* A field at a time, and a group moved and given a level at once.
SomeUpdates ==
    {[Nothing EXCEPT !.level = 1]}
    \cup {[Nothing EXCEPT !.parent = p, !.level = l] :
            p \in Ids \cup {None}, l \in {0, Unset}}
    \cup {[Nothing EXCEPT !.container = g1]}
    \cup {[Nothing EXCEPT !.name = n2]}

=============================================================================
