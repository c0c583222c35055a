-------------------------------- MODULE Seed --------------------------------
(***************************************************************************)
(* The seed of the database, src/prisma/seed.ts: upserts of the lists of   *)
(* areas, permissions, roles, departments, positions and technical levels, *)
(* then of the administrator, the role DEVS and its full access.  It has   *)
(* no transaction, may be cut short at any statement and is run again over *)
(* what is there, while clients edit and remove rows.                      *)
(*                                                                         *)
(* A row is known by its table and its unique name.  Of what it holds only *)
(* the origin of what the seed may write again is kept: the group and the  *)
(* priority of a permission.                                               *)
(***************************************************************************)
EXTENDS Naturals, Sequences

CONSTANTS
    Listed,        \* the names in the lists of the seed, by table
    Devs,          \* the role DEVS
    Full,          \* the permission system.full_access
    Admin,         \* the administrator
    MaxClientSteps,\* bound on what clients do
    MaxSeedCuts    \* bound on the runs cut short

\* The order of the loops.
Tables == <<"area", "permission", "role", "department", "position",
            "technicalLevel">>

TableNames == {Tables[i] : i \in 1 .. Len(Tables)}

ASSUME SeedAssumption ==
    /\ DOMAIN Listed = TableNames
    /\ \A t \in TableNames : Listed[t] # {}
    /\ Devs \in Listed["role"]
    /\ Full \in Listed["permission"]
    /\ MaxClientSteps \in Nat
    /\ MaxSeedCuts \in Nat

ListedRows == UNION {{<<t, n>> : n \in Listed[t]} : t \in TableNames}

DevsRow == <<"role", Devs>>
FullRow == <<"permission", Full>>
AdminRow == <<"user", Admin>>

VARIABLES
    seedPoint,   \* where the run is
    todoNames,   \* names of the list of that loop not upserted yet
    tables,      \* the rows, by table and name: "seed" or "client"
    links,       \* role_permission and user_role, as pairs of rows
    calm,        \* history: clients have done nothing since the run began
    clientSteps, \* history: the number of steps of clients so far
    seedCuts     \* history: the number of runs cut short so far

seedVars ==
    <<seedPoint, todoNames, tables, links, calm, clientSteps, seedCuts>>

SeedInit ==
    /\ seedPoint = "idle"
    /\ todoNames = {}
    /\ tables = [r \in {} |-> {}]
    /\ links = {}
    /\ calm = TRUE
    /\ clientSteps = 0
    /\ seedCuts = 0

Exists(r) == r \in DOMAIN tables

-----------------------------------------------------------------------------

\* The list after that of a table, if there is one.
EnterList(t) ==
    /\ seedPoint' = t
    /\ todoNames' = Listed[t]

AfterList(t) ==
    IF t = "technicalLevel"
    THEN seedPoint' = "find" /\ todoNames' = {}
    ELSE EnterList(Tables[1 + CHOOSE i \in 1 .. Len(Tables) - 1 : Tables[i] = t])

StartSeed ==
    /\ seedPoint \in {"idle", "done"}
    /\ EnterList("area")
    /\ calm' = TRUE
    /\ UNCHANGED <<tables, links, clientSteps, seedCuts>>

SeedRow == "seed"

\* Mutant: a table with rows is taken for seeded.
UpsertIntoEmpty(r) ==
    IF \E q \in DOMAIN tables : q[1] = r[1] THEN tables
    ELSE [q \in DOMAIN tables \cup {r} |-> IF q = r THEN SeedRow ELSE tables[q]]

\* A row that is there is left alone, but for group and priority of a
\* permission.
Upserted(r) ==
    [q \in DOMAIN tables \cup {r} |->
        IF q # r THEN tables[q]
        ELSE IF ~ Exists(r) THEN SeedRow
        ELSE IF r[1] = "permission" THEN SeedRow
        ELSE tables[r]]

UpsertListed(n) ==
    /\ seedPoint \in TableNames
    /\ n \in todoNames
    /\ tables' = Upserted(<<seedPoint, n>>)
    /\ IF todoNames = {n}
       THEN AfterList(seedPoint)
       ELSE todoNames' = todoNames \ {n} /\ UNCHANGED seedPoint
    /\ UNCHANGED <<links, calm, clientSteps, seedCuts>>

\* The role and the permission are read; without them the run is over.
FindDevs ==
    /\ seedPoint = "find"
    /\ seedPoint' = IF Exists(DevsRow) /\ Exists(FullRow) THEN "grant"
                    ELSE "done"
    /\ UNCHANGED <<todoNames, tables, links, calm, clientSteps, seedCuts>>

\* A foreign key that is not there ends the run.
Link(a, b, next) ==
    /\ IF Exists(a) /\ Exists(b)
       THEN links' = links \cup {<<a, b>>} /\ seedPoint' = next
       ELSE UNCHANGED links /\ seedPoint' = "idle"
    /\ UNCHANGED <<todoNames, tables, calm, clientSteps, seedCuts>>

GrantFullAccess == seedPoint = "grant" /\ Link(DevsRow, FullRow, "first")

\* The administrator is given the first department and position there are.
FindFirst ==
    /\ seedPoint = "first"
    /\ seedPoint' = IF /\ \E r \in DOMAIN tables : r[1] = "department"
                       /\ \E r \in DOMAIN tables : r[1] = "position"
                    THEN "admin" ELSE "done"
    /\ UNCHANGED <<todoNames, tables, links, calm, clientSteps, seedCuts>>

UpsertAdmin ==
    /\ seedPoint = "admin"
    /\ tables' = Upserted(AdminRow)
    /\ seedPoint' = "assign"
    /\ UNCHANGED <<todoNames, links, calm, clientSteps, seedCuts>>

AssignDevs == seedPoint = "assign" /\ Link(AdminRow, DevsRow, "done")

\* A fault: a statement fails or the script is stopped.
CutSeed ==
    /\ seedPoint \notin {"idle", "done"}
    /\ seedCuts < MaxSeedCuts
    /\ seedPoint' = "idle"
    /\ todoNames' = {}
    /\ seedCuts' = seedCuts + 1
    /\ UNCHANGED <<tables, links, calm, clientSteps>>

-----------------------------------------------------------------------------
(* What clients do by way of the services: rows of users are never deleted, *)
(* departments and positions not once there are users.                      *)

ClientStep ==
    /\ clientSteps < MaxClientSteps
    /\ clientSteps' = clientSteps + 1
    /\ calm' = FALSE
    /\ UNCHANGED <<seedPoint, todoNames, seedCuts>>

EditRow(r) ==
    /\ ClientStep
    /\ Exists(r)
    /\ tables' = [tables EXCEPT ![r] = "client"]
    /\ UNCHANGED links

RemoveRow(r) ==
    /\ ClientStep
    /\ Exists(r)
    /\ r # AdminRow
    /\ r[1] \in {"department", "position"} => ~ Exists(AdminRow)
    /\ tables' = [q \in DOMAIN tables \ {r} |-> tables[q]]
    /\ links' = {l \in links : l[1] # r /\ l[2] # r}

SeedNext ==
    \/ StartSeed
    \/ \E n \in todoNames : UpsertListed(n)
    \/ FindDevs \/ GrantFullAccess \/ FindFirst \/ UpsertAdmin \/ AssignDevs
    \/ CutSeed
    \/ \E r \in DOMAIN tables : EditRow(r) \/ RemoveRow(r)

SeedSpec == SeedInit /\ [][SeedNext]_seedVars

-----------------------------------------------------------------------------
(* Properties *)

\* A run that clients leave alone and that is not cut short completes what is
\* there, whatever earlier runs and clients have left: every listed row, the
\* priorities of the permissions, and an administrator with full access.
SeedCompletes ==
    seedPoint = "done" /\ calm =>
        /\ ListedRows \cup {AdminRow} \subseteq DOMAIN tables
        /\ \A r \in ListedRows :
              r[1] = "permission" => tables[r] = "seed"
        /\ {<<DevsRow, FullRow>>, <<AdminRow, DevsRow>>} \subseteq links

-----------------------------------------------------------------------------

SeedPoints ==
    TableNames \cup {"idle", "find", "grant", "first", "admin", "assign", "done"}

\* The row of a list is there as the seed writes it.
Seeded(t, n) ==
    Exists(<<t, n>>) /\ (t = "permission" => tables[<<t, n>>] = SeedRow)

\* The run has been over the row.
PassedRow(t, n) ==
    IF seedPoint = t THEN n \notin todoNames
    ELSE \/ seedPoint \notin TableNames
         \/ \E i, j \in 1 .. Len(Tables) :
               Tables[i] = t /\ Tables[j] = seedPoint /\ i < j

\* The inductive invariant: what the run has been over is there, while clients
\* leave it alone.
SeedInv ==
    /\ seedPoint \in SeedPoints
    /\ seedPoint \in TableNames => todoNames \subseteq Listed[seedPoint]
    /\ calm /\ seedPoint # "idle" =>
         /\ \A t \in TableNames : \A n \in Listed[t] :
               PassedRow(t, n) => Seeded(t, n)
         /\ seedPoint \in {"first", "admin", "assign", "done"} =>
               <<DevsRow, FullRow>> \in links
         /\ seedPoint \in {"assign", "done"} => Exists(AdminRow)
         /\ seedPoint = "done" => <<AdminRow, DevsRow>> \in links

=============================================================================
