------------------------------ MODULE MCRecords -----------------------------
(* The services of the records, each on tables of its own, so that one of   *)
(* them at a time is run: salaries, holidays, rosters, technical levels,    *)
(* the permissions of a request and the seed.                               *)
EXTENDS SalaryHistory, Holidays, ShiftRosters, UserTechnicalLevels,
        RequestPermissions, Seed, TLC

CONSTANTS
    u1, u2, s1, s2, s3, w1, w2,
    e1, e2, h1, h2, h3, h4, c1, c2,
    r1, r2, t1, t2, q1, q2,
    l1, l2, k1, k2,
    full, all, area, rival, odd, other, system, userRead, areaRead,
    devs, technical, operations, consultant, coordinator, admin

VARIABLE focus \* the service that is run

SomeEnds == {NoEnd, 3, 5}

\* Two events that end on the same day, and one on the last day of a year.
SomeFeriados ==
    [y \in {0, 1} |-> IF y = 0 THEN {<<e1, 0>>, <<e1, 1>>, <<e2, 1>>}
                      ELSE {<<e2, 5>>}]

SomeEntries == {[start |-> 53, end |-> 80]}

SomeEdits == {[start |-> 77, end |-> NoDate], [start |-> NoDate, end |-> 72]}

SomeBodies ==
    {[users |-> {u1}, types |-> {t1}], [users |-> {u1, u2}, types |-> NotGiven],
     [users |-> NotGiven, types |-> {}], [users |-> {}, types |-> {}]}

SomeGroups ==
    full :> system @@ all :> userRead @@ area :> userRead
    @@ rival :> userRead @@ odd :> userRead @@ other :> areaRead

SomePriorities ==
    full :> 1 @@ all :> 2 @@ area :> 3 @@ rival :> 3 @@ odd :> NoPriority
    @@ other :> NoPriority

SomeLists ==
    "area" :> {technical} @@ "permission" :> {full, all} @@ "role" :> {devs}
    @@ "department" :> {operations}
    @@ "position" :> {consultant, coordinator} @@ "technicalLevel" :> {l1}

Init ==
    /\ SalaryInit /\ HolidayInit /\ RosterInit /\ LevelInit
    /\ PermissionInit /\ SeedInit
    /\ focus \in {"salaries", "holidays", "rosters", "levels", "permissions",
                  "seed"}

Others(running) ==
    /\ focus = running
    /\ UNCHANGED focus
    /\ running # "salaries" => UNCHANGED salaryVars
    /\ running # "holidays" => UNCHANGED holidayVars
    /\ running # "rosters" => UNCHANGED rosterVars
    /\ running # "levels" => UNCHANGED levelVars
    /\ running # "permissions" => UNCHANGED permissionVars
    /\ running # "seed" => UNCHANGED seedVars

Next ==
    \/ Others("salaries") /\ SalaryNext
    \/ Others("holidays") /\ HolidayNext
    \/ Others("rosters") /\ RosterNext
    \/ Others("levels") /\ LevelNext
    \/ Others("permissions") /\ PermissionNext
    \/ Others("seed") /\ SeedNext

Spec == Init /\ [][Next]_<<salaryVars, holidayVars, rosterVars, levelVars,
                           permissionVars, seedVars, focus>>
=============================================================================
