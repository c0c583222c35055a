---------------------------- MODULE RoleMembership --------------------------
(***************************************************************************)
(* Roles, the areas they are offered in and the users who have them, as    *)
(* kept by src/src/modules/roles/roles.service.ts and by the role          *)
(* operations of src/src/modules/users/users.service.ts.                   *)
(*                                                                         *)
(* The handlers of the roles service open a transaction and ask LDAP in    *)
(* it; those of the users service never tell LDAP.  PostgreSQL runs the    *)
(* transactions as READ COMMITTED: a statement sees what has been          *)
(* committed before it and what its own transaction has done, and waits    *)
(* for the rows that others have locked.  Every look for a row and every   *)
(* insert of one is a step.                                                *)
(*                                                                         *)
(* The microservice in front of LDAP is not in the repository: it accepts  *)
(* or turns down what it is asked.  Descriptions, permissions and the      *)
(* existence of users and areas are left out.                              *)
(***************************************************************************)
EXTENDS Integers, FiniteSets

CONSTANTS
    Ids,        \* ids of roles
    Users,
    Areas,
    Names,
    RowIds,     \* tell rows of one user, role and area apart
    Calls,      \* slots for the handlers in flight
    None,       \* null
    Unset,      \* a field that is not in the body of an update
    Seeded,     \* the roles there are to begin with, by id
    Offered,    \* their areas: pairs of a role and an area
    Updates,    \* the bodies of the updates clients send
    Wanted,     \* the sets of roles clients give a user
    MaxRequests \* bound on the requests

Scopes == {"GLOBAL", "LOCAL"}

Role == [name : Names, scope : Scopes]

Body == [name : Names \cup {Unset}, scope : Scopes \cup {Unset},
         areas : {Unset} \cup SUBSET Areas]

\* A user has a global role without an area, a local role in an area.
Item == [user : Users, role : Ids, area : Areas \cup {None}]

\* A row of user_role or of user_role_local.  Two histories: told, if LDAP has
\* been asked along with the insert, and sure, if no other insert of the item
\* was under way from the look for it on.
Row == [id : RowIds, of : Item, told : BOOLEAN, sure : BOOLEAN]

ASSUME RolesAssumption ==
    /\ None # Unset
    /\ None \notin Role
    /\ {None, Unset} \cap (Ids \cup Names \cup Areas \cup Scopes \cup Users) = {}
    /\ \A S \in SUBSET Areas : Unset # S
    /\ DOMAIN Seeded \subseteq Ids
    /\ Seeded \in [DOMAIN Seeded -> Role]
    /\ \A r, q \in DOMAIN Seeded : Seeded[r].name = Seeded[q].name => r = q
    /\ Offered \subseteq (DOMAIN Seeded) \X Areas
    /\ Updates \subseteq Body
    /\ Wanted \subseteq SUBSET (Ids \X (Areas \cup {None}))
    /\ MaxRequests \in Nat

VARIABLES
    roles,    \* the table of roles, by id
    offers,   \* area_role: pairs of a role and an area
    members,  \* user_role and user_role_local
    ldap,     \* the directory: users, names of roles, areas
    calls,    \* program counter and locals of the handlers
    asked,    \* history: the areas last asked for, by the ids ever given
    astray,   \* history: roles of which LDAP was told what does not hold
    requests  \* history: the number of requests so far

vars == <<roles, offers, members, ldap, calls, asked, astray, requests>>

(***************************************************************************)
(* read is the role as the handler has read it; todo are the items yet to  *)
(* look for, want those of which it is not known yet whether the roles fit *)
(* and told those LDAP is told of.  An open transaction has inserted       *)
(* added, deleted gone, written row over the role and replaced the areas   *)
(* cut by put.  sure belongs to item, the row about to be inserted; fresh  *)
(* tells whether no other handler has given user a role since the          *)
(* transaction has deleted the ones there were.                            *)
(***************************************************************************)
Ops == {"none", "assign", "unassign", "update", "remove", "grant", "replace"}
Points == {"idle", "look", "insert", "delete", "write", "areas", "name",
           "purge", "send", "erase", "commit", "renamed"}

Call == [op : Ops, pc : Points, id : Ids \cup {None}, read : Role \cup {None},
         area : Areas \cup {None}, user : Users \cup {None},
         body : Body \cup {None}, want : SUBSET Item, todo : SUBSET Item,
         told : SUBSET Item, item : Item \cup {None}, sure : BOOLEAN,
         fresh : BOOLEAN, open : BOOLEAN, added : SUBSET Row,
         gone : SUBSET Row, row : Role \cup {None},
         cut : SUBSET (Ids \X Areas), put : SUBSET (Ids \X Areas)]

Idle == [op |-> "none", pc |-> "idle", id |-> None, read |-> None,
         area |-> None, user |-> None, body |-> None, want |-> {},
         todo |-> {}, told |-> {}, item |-> None, sure |-> FALSE,
         fresh |-> FALSE, open |-> FALSE, added |-> {}, gone |-> {},
         row |-> None, cut |-> {}, put |-> {}]

AreasOf(r) == {o \in offers : o[1] = r}

Init ==
    /\ roles = Seeded
    /\ offers = Offered
    /\ members = {}
    /\ ldap = {}
    /\ calls = [c \in Calls |-> Idle]
    /\ asked = [r \in DOMAIN Seeded |-> {a \in Areas : <<r, a>> \in Offered}]
    /\ astray = {}
    /\ requests = 0

-----------------------------------------------------------------------------
(* What a transaction sees and what it waits for. *)

Rows == members \cup UNION {calls[c].added : c \in Calls}

\* The rows a statement of the handler sees.
Seen(call) == (members \ call.gone) \cup call.added

\* The rows it does not see although they are not its own to have deleted.
Others(call) == Rows \ (Seen(call) \cup call.gone)

Has(rows, item) == \E row \in rows : row.of = item

\* The rows a delete is after.
Target(call) ==
    {row \in members :
        \/ call.op = "unassign" /\ row.of \in call.told
        \/ call.op = "remove" /\ row.of.role = call.id
        \/ call.op = "replace" /\ row.of.user = call.user}

\* An update that has written its role, and so locked it.
Wrote(call) == call.open /\ call.row # None

\* A new name is a new key, which those who refer to the role wait for.
Rekeys(call) ==
    Wrote(call) /\ call.id \in DOMAIN roles
      /\ call.row.name # roles[call.id].name

Or(new, old) == IF new = Unset THEN old ELSE new

\* What an update makes of the role there is.
Changed(call) ==
    [name |-> Or(call.body.name, roles[call.id].name),
     scope |-> Or(call.body.scope, roles[call.id].scope)]

InsertWaits(call, other) ==
    \/ call.item.area = None /\ Has(other.added \cup other.gone, call.item)
    \/ other.id = call.item.role /\ Rekeys(other)

DeleteWaits(call, other) ==
    \/ Target(call) \cap other.gone # {}
    \/ call.op = "remove" /\ AreasOf(call.id) \cap other.cut # {}

\* Whether the other is about to take or to give away the name.
Claims(other, name) ==
    \/ Wrote(other) /\ other.row.name = name
    \/ Rekeys(other) /\ roles[other.id].name = name

WriteWaits(call, other) ==
    \/ Wrote(other) /\ (other.id = call.id \/ Claims(other, Changed(call).name))
    \/ /\ Changed(call).name # roles[call.id].name
       /\ \E row \in other.added : row.of.role = call.id

EraseWaits(call, other) ==
    \/ Wrote(other) /\ other.id = call.id
    \/ \E row \in other.added \cup other.gone : row.of.role = call.id
    \/ \E o \in other.cut \cup other.put : o[1] = call.id

\* The handlers whose locks the next statement of the handler waits for.
Blockers(c) ==
    LET call == calls[c]
    IN  {d \in Calls \ {c} :
            \/ call.pc = "insert" /\ InsertWaits(call, calls[d])
            \/ call.pc \in {"delete", "purge"} /\ DeleteWaits(call, calls[d])
            \/ /\ call.pc = "write" /\ call.id \in DOMAIN roles
               /\ WriteWaits(call, calls[d])
            \/ call.pc = "areas" /\ AreasOf(call.id) \cap calls[d].cut # {}
            \/ call.pc = "erase" /\ EraseWaits(call, calls[d])}

-----------------------------------------------------------------------------
(* Steps of every handler. *)

\* A request reaches a free handler.
Begin(c, call) ==
    /\ calls[c] = Idle
    /\ requests < MaxRequests
    /\ requests' = requests + 1
    /\ calls' = [calls EXCEPT ![c] = call]
    /\ UNCHANGED <<roles, offers, members, ldap, asked, astray>>

Goto(c, call) ==
    /\ calls' = [calls EXCEPT ![c] = call]
    /\ UNCHANGED <<roles, offers, members, ldap, asked, astray, requests>>

\* The handler ends, and what its transaction has done is undone.
End(c) == Goto(c, Idle)

\* The locals of all handlers once one has committed rows and ended: a
\* transaction that replaces the roles of one of the users is overtaken.
Committed(c, rows) ==
    [d \in Calls |->
        IF d = c THEN Idle
        ELSE [calls[d] EXCEPT !.fresh =
                @ /\ \A row \in rows : row.of.user # calls[d].user]]

\* Whether the role is no longer what the handler has read.
Stale(call) == call.id \notin DOMAIN roles \/ roles[call.id] # call.read

\* The name by which LDAP knows the role: a rename is told before its commit.
Renames(call, r) == call.pc = "renamed" /\ call.id = r

Listed(r, name) ==
    \/ \E c \in Calls : Renames(calls[c], r) /\ calls[c].row.name = name
    \/ (\A c \in Calls : ~Renames(calls[c], r)) /\ roles[r].name = name

\* Who is concerned when LDAP is told of the role by an outdated name.
Concerned(call) ==
    {call.id} \cup {q \in DOMAIN roles : Listed(q, call.read.name)}

\* The entries of the group of a role the handler has read: that of a global
\* role, or that of a local one in one area.
GroupOf(call, scope) ==
    {e \in ldap : /\ e[2] = call.read.name /\ e[3] = call.area
                  /\ (call.area = None) = (scope = "GLOBAL")}

-----------------------------------------------------------------------------
(* Looking for rows and inserting them. *)

\* The roles of users.service: the global ones asked for are looked up, and
\* after those the local ones.
Filter(c) ==
    /\ calls[c].pc = "look"
    /\ calls[c].todo = {}
    /\ calls[c].want # {}
    /\ LET want == calls[c].want
           globals == {i \in want : i.area = None}
       IN  Goto(c, [calls[c] EXCEPT
             !.want = IF globals # {} THEN want \ globals ELSE {},
             !.todo = IF globals # {}
                      THEN {i \in globals : /\ i.role \in DOMAIN roles
                                            /\ roles[i.role].scope = "GLOBAL"}
                      ELSE {i \in want : <<i.role, i.area>> \in offers}])

\* Mutant: an item that is found stays to do.
LookKeeps(c) ==
    /\ calls[c].pc = "look"
    /\ \E item \in calls[c].todo :
         IF Has(Seen(calls[c]), item)
         THEN Goto(c, calls[c])
         ELSE Goto(c, [calls[c] EXCEPT !.pc = "insert", !.item = item,
                         !.sure = ~Has(Others(calls[c]), item)])

\* Mutant: only global roles are looked for.
LookGlobals(c) ==
    /\ calls[c].pc = "look"
    /\ \E item \in calls[c].todo :
         IF item.area = None /\ Has(Seen(calls[c]), item)
         THEN Goto(c, [calls[c] EXCEPT !.todo = @ \ {item}])
         ELSE Goto(c, [calls[c] EXCEPT !.pc = "insert", !.item = item,
                         !.sure = ~Has(Others(calls[c]), item)])

\* One item after the other is looked for, in the order of the request.
Look(c) ==
    /\ calls[c].pc = "look"
    /\ \E item \in calls[c].todo :
         IF Has(Seen(calls[c]), item)
         THEN Goto(c, [calls[c] EXCEPT !.todo = @ \ {item}])
         ELSE Goto(c, [calls[c] EXCEPT !.pc = "insert", !.item = item,
                         !.sure = ~Has(Others(calls[c]), item)])

\* The handlers that had not found the item either are no longer sure of it.
Inserted(c, call, item) ==
    [d \in Calls |->
        IF d = c THEN call
        ELSE [calls[d] EXCEPT
                !.sure = @ /\ ~(calls[d].pc = "insert" /\ calls[d].item = item),
                !.fresh = @ /\ (call.open \/ calls[d].user # item.user)]]

\* The row an insert makes: its id is new among the rows of the item.
NewRow(call) ==
    [id |-> CHOOSE i \in RowIds :
              \A row \in Rows : row.of = call.item => row.id # i,
     of |-> call.item, told |-> call.op = "assign", sure |-> call.sure]

\* The foreign key of the role, and the primary key of a global role.
Refused(call) ==
    \/ call.item.role \notin DOMAIN roles
    \/ call.item.area = None /\ Has(Seen(call), call.item)

\* assignRolesToUser has no transaction: its inserts are there at once.
Insert(c) ==
    LET call == calls[c]
        row == NewRow(call)
        next == [call EXCEPT !.pc = "look", !.todo = @ \ {call.item},
                   !.item = None, !.sure = FALSE,
                   !.added = IF call.open THEN @ \cup {row} ELSE @]
    IN  /\ call.pc = "insert"
        /\ Blockers(c) = {}
        /\ IF Refused(call)
           THEN End(c)
           ELSE /\ row.id \in RowIds
                /\ members' = IF call.open THEN members ELSE members \cup {row}
                /\ calls' = Inserted(c, next, call.item)
                /\ UNCHANGED <<roles, offers, ldap, asked, astray, requests>>

\* With all items in place the handler goes on.
Done(c) ==
    /\ calls[c].pc = "look"
    /\ calls[c].todo = {}
    /\ calls[c].want = {}
    /\ IF calls[c].op = "grant"
       THEN End(c)
       ELSE Goto(c, [calls[c] EXCEPT !.pc = IF calls[c].op = "assign"
                                            THEN "send" ELSE "commit"])

-----------------------------------------------------------------------------
(* Users of a role. *)

\* What a role means for users: they have it in the area if it is local.
ItemsFor(r, users, area) ==
    {[user |-> u, role |-> r,
      area |-> IF roles[r].scope = "GLOBAL" THEN None ELSE area] : u \in users}

BeginAssign(c) ==
    \E r \in DOMAIN roles, users \in SUBSET Users \ {{}}, area \in Areas :
      LET items == ItemsFor(r, users, area)
      IN  Begin(c, [Idle EXCEPT !.op = "assign", !.pc = "look", !.id = r,
                      !.read = roles[r], !.open = TRUE, !.todo = items,
                      !.told = items])

\* LDAP is told of all users, those who had the role included.
SendAssign(c) ==
    /\ calls[c].op = "assign"
    /\ calls[c].pc = "send"
    /\ LET call == calls[c]
       IN  \/ End(c)
           \/ /\ ldap' = ldap \cup
                   {<<i.user, call.read.name, i.area>> : i \in call.told}
              /\ members' = members \cup call.added
              /\ astray' = IF call.added # {} /\ Stale(call)
                           THEN astray \cup {call.id} ELSE astray
              /\ calls' = Committed(c, call.added)
              /\ UNCHANGED <<roles, offers, asked, requests>>

BeginUnassign(c) ==
    \E r \in DOMAIN roles, u \in Users, area \in Areas :
      Begin(c, [Idle EXCEPT !.op = "unassign", !.pc = "delete", !.id = r,
                  !.read = roles[r], !.open = TRUE,
                  !.told = ItemsFor(r, {u}, area)])

\* The delete by primary key fails without a row, the deleteMany does not.
DeleteRows(c) ==
    /\ calls[c].pc = "delete"
    /\ Blockers(c) = {}
    /\ IF calls[c].read.scope = "GLOBAL" /\ Target(calls[c]) = {}
       THEN End(c)
       ELSE Goto(c, [calls[c] EXCEPT !.pc = "send", !.gone = Target(calls[c])])

\* removeUserFromRole commits on any answer, be it that LDAP did not do it.
SendUnassign(c) ==
    /\ calls[c].op = "unassign"
    /\ calls[c].pc = "send"
    /\ LET call == calls[c]
       IN  \/ End(c)
           \/ /\ \E ok \in BOOLEAN :
                   /\ ldap' = IF ok
                        THEN ldap \ {<<i.user, call.read.name, i.area>> :
                                        i \in call.told}
                        ELSE ldap
                   /\ astray' = IF ok /\ (Stale(call) \/ ~call.open)
                                THEN astray \cup Concerned(call) ELSE astray
              /\ members' = members \ call.gone
              /\ calls' = Committed(c, {})
              /\ UNCHANGED <<roles, offers, asked, requests>>

-----------------------------------------------------------------------------
(* Roles of a user: users.service tells nobody. *)

WantedBy(u, W) == {[user |-> u, role |-> w[1], area |-> w[2]] : w \in W}

BeginGrant(c) ==
    \E u \in Users, W \in Wanted :
      Begin(c, [Idle EXCEPT !.op = "grant", !.pc = "look", !.user = u,
                  !.want = WantedBy(u, W)])

BeginReplace(c) ==
    \E u \in Users, W \in Wanted :
      Begin(c, [Idle EXCEPT !.op = "replace", !.pc = "purge", !.user = u,
                  !.open = TRUE, !.want = WantedBy(u, W)])

\* Mutant: the global roles are replaced, the local ones stay.
PurgeGlobals(c) ==
    /\ calls[c].op = "replace"
    /\ calls[c].pc = "purge"
    /\ Blockers(c) = {}
    /\ Goto(c, [calls[c] EXCEPT !.pc = "look",
                  !.fresh = TRUE,
                  !.gone = {row \in Target(calls[c]) : row.of.area = None}])

\* The roles the user has go, but not those that others have yet to commit.
PurgeUser(c) ==
    /\ calls[c].op = "replace"
    /\ calls[c].pc = "purge"
    /\ Blockers(c) = {}
    /\ Goto(c, [calls[c] EXCEPT !.pc = "look", !.gone = Target(calls[c]),
                  !.fresh = TRUE])

CommitReplace(c) ==
    /\ calls[c].op = "replace"
    /\ calls[c].pc = "commit"
    /\ members' = Seen(calls[c])
    /\ calls' = Committed(c, calls[c].added)
    /\ UNCHANGED <<roles, offers, ldap, asked, astray, requests>>

\* removeRoleFromUser, which is never given an area, takes global roles only.
DropRole(c) ==
    \E row \in members :
      /\ row.of.role \in DOMAIN roles
      /\ roles[row.of.role].scope = "GLOBAL" /\ row.of.area = None
      /\ \A d \in Calls : row \notin calls[d].gone
      /\ calls[c] = Idle
      /\ requests < MaxRequests
      /\ requests' = requests + 1
      /\ members' = members \ {row}
      /\ UNCHANGED <<roles, offers, ldap, calls, asked, astray>>

-----------------------------------------------------------------------------
(* Roles. *)

NameFree(name, r) == \A q \in DOMAIN roles \ {r} : roles[q].name # name

CreateRole(c) ==
    \E r \in Ids \ DOMAIN asked, row \in Role, areas \in SUBSET Areas :
      /\ calls[c] = Idle
      /\ requests < MaxRequests
      /\ NameFree(row.name, r)
      /\ \A d \in Calls : ~Claims(calls[d], row.name)
      /\ (row.scope = "LOCAL") = (areas # {})
      /\ requests' = requests + 1
      /\ roles' = [q \in DOMAIN roles \cup {r} |->
                     IF q = r THEN row ELSE roles[q]]
      /\ offers' = offers \cup ({r} \X areas)
      /\ asked' = [q \in DOMAIN asked \cup {r} |->
                     IF q = r THEN areas ELSE asked[q]]
      /\ UNCHANGED <<members, ldap, calls, astray>>

BeginUpdate(c) ==
    \E r \in DOMAIN roles, body \in Updates :
      Begin(c, [Idle EXCEPT !.op = "update", !.pc = "write", !.id = r,
                  !.read = roles[r], !.body = body, !.open = TRUE])

\* LDAP is told of a name that is not the one read before the transaction.
AfterWrite(call) ==
    IF call.body.name \notin {Unset, call.read.name} THEN "name" ELSE "commit"

Recuts(call, row) == row.scope = "LOCAL" /\ call.body.areas # Unset

\* The update locks its role, as far as anybody refers to a name it changes.
WriteRole(c) ==
    LET call == calls[c]
        row == Changed(call)
    IN  /\ call.pc = "write"
        /\ Blockers(c) = {}
        /\ IF call.id \notin DOMAIN roles \/ ~NameFree(row.name, call.id)
           THEN End(c)
           ELSE Goto(c, [call EXCEPT !.row = row,
                           !.pc = IF Recuts(call, row) THEN "areas"
                                  ELSE AfterWrite(call)])

\* Mutant: the new areas are added to the old ones.
ReplaceAreasAdds(c) ==
    /\ calls[c].pc = "areas"
    /\ Blockers(c) = {}
    /\ LET call == calls[c]
       IN  Goto(c, [call EXCEPT !.put = {call.id} \X call.body.areas,
                                !.pc = AfterWrite(call)])

\* The areas are deleted, unless a shift type refers to one, and written anew.
ReplaceAreas(c) ==
    /\ calls[c].pc = "areas"
    /\ Blockers(c) = {}
    /\ LET call == calls[c]
       IN  \/ AreasOf(call.id) # {} /\ End(c)
           \/ Goto(c, [call EXCEPT !.cut = AreasOf(call.id),
                                   !.put = {call.id} \X call.body.areas,
                                   !.pc = AfterWrite(call)])

\* LDAP is told of one of the areas, if the role is local.
ReadName(c) ==
    /\ calls[c].pc = "name"
    /\ LET call == calls[c]
           areas == {o[2] : o \in (AreasOf(call.id) \ call.cut) \cup call.put}
       IN  \E area \in IF call.row.scope = "GLOBAL" \/ areas = {} THEN {None}
                       ELSE areas :
             Goto(c, [call EXCEPT !.pc = "send", !.area = area])

Rescopes(call) == call.row.scope # roles[call.id].scope

\* Mutant: a rename that LDAP turns down is committed all the same.
SendRenameForgives(c) ==
    /\ calls[c].op = "update"
    /\ calls[c].pc = "send"
    /\ LET call == calls[c]
           group == GroupOf(call, call.row.scope)
       IN  \E ok \in BOOLEAN :
             /\ ldap' = IF ok THEN (ldap \ group)
                          \cup {<<e[1], call.body.name, e[3]>> : e \in group}
                        ELSE ldap
             /\ astray' = IF ~call.open \/ Stale(call) \/ Rescopes(call)
                          THEN astray \cup Concerned(call) ELSE astray
             /\ calls' = [calls EXCEPT ![c] =
                            IF call.open THEN [call EXCEPT !.pc = "renamed"]
                            ELSE Idle]
    /\ UNCHANGED <<roles, offers, members, asked, requests>>

\* LDAP renames the group of the name the handler has read.
SendRename(c) ==
    /\ calls[c].op = "update"
    /\ calls[c].pc = "send"
    /\ LET call == calls[c]
           group == GroupOf(call, call.row.scope)
       IN  \/ End(c)
           \/ /\ ldap' = (ldap \ group)
                     \cup {<<e[1], call.body.name, e[3]>> : e \in group}
              /\ astray' = IF ~call.open \/ Stale(call) \/ Rescopes(call)
                           THEN astray \cup Concerned(call) ELSE astray
              /\ calls' = [calls EXCEPT ![c] =
                             IF call.open THEN [call EXCEPT !.pc = "renamed"]
                             ELSE Idle]
              /\ UNCHANGED <<roles, offers, members, asked, requests>>

\* A new name goes astray if LDAP was not told, and a new scope always does.
CommitUpdate(c) ==
    LET call == calls[c]
    IN  /\ call.op = "update"
        /\ call.pc \in {"commit", "renamed"}
        /\ roles' = [roles EXCEPT ![call.id] = call.row]
        /\ offers' = (offers \ call.cut) \cup call.put
        /\ asked' = IF Recuts(call, call.row)
                    THEN [asked EXCEPT ![call.id] = call.body.areas] ELSE asked
        /\ astray' = IF Rescopes(call) \/ (call.pc = "commit" /\ Rekeys(call))
                     THEN astray \cup {call.id} ELSE astray
        /\ calls' = Committed(c, {})
        /\ UNCHANGED <<members, ldap, requests>>

\* remove reads the role and one of its areas before the transaction.
BeginRemove(c) ==
    \E r \in DOMAIN roles :
      LET areas == {o[2] : o \in AreasOf(r)}
      IN  \E area \in IF roles[r].scope = "GLOBAL" \/ areas = {} THEN {None}
                      ELSE areas :
            Begin(c, [Idle EXCEPT !.op = "remove", !.pc = "purge", !.id = r,
                        !.read = roles[r], !.area = area, !.open = TRUE])

\* A shift type that refers to an area of the role keeps all of it.
PurgeRole(c) ==
    /\ calls[c].op = "remove"
    /\ calls[c].pc = "purge"
    /\ Blockers(c) = {}
    /\ \/ AreasOf(calls[c].id) # {} /\ End(c)
       \/ Goto(c, [calls[c] EXCEPT !.pc = "send", !.gone = Target(calls[c]),
                                   !.cut = AreasOf(calls[c].id)])

\* LDAP deletes the group before the role is.
SendDelete(c) ==
    /\ calls[c].op = "remove"
    /\ calls[c].pc = "send"
    /\ LET call == calls[c]
       IN  \/ End(c)
           \/ /\ ldap' = ldap \ GroupOf(call, call.read.scope)
              /\ astray' = astray \cup Concerned(call)
              /\ calls' = [calls EXCEPT ![c] =
                             IF call.open THEN [call EXCEPT !.pc = "erase"]
                             ELSE Idle]
              /\ UNCHANGED <<roles, offers, members, asked, requests>>

\* The delete takes with it, by ON DELETE CASCADE, what has been committed
\* since.
EraseRole(c) ==
    LET r == calls[c].id
    IN  /\ calls[c].pc = "erase"
        /\ Blockers(c) = {}
        /\ IF r \notin DOMAIN roles
           THEN End(c)
           ELSE /\ roles' = [q \in DOMAIN roles \ {r} |-> roles[q]]
                /\ offers' = {o \in offers : o[1] # r}
                /\ members' = {row \in members : row.of.role # r}
                /\ calls' = Committed(c, {})
                /\ UNCHANGED <<ldap, asked, astray, requests>>

-----------------------------------------------------------------------------
(* Prisma ends a transaction after its time limit.  A handler that waits   *)
(* for LDAP goes on without it; the next statement of any other throws.    *)
TimeOut(c) ==
    /\ calls[c].open
    /\ calls' = [calls EXCEPT ![c] =
          IF calls[c].pc = "send"
          THEN [@ EXCEPT !.open = FALSE, !.added = {}, !.gone = {},
                         !.cut = {}, !.put = {}]
          ELSE Idle]
    /\ astray' = IF calls[c].pc = "renamed"
                 THEN astray \cup {calls[c].id} ELSE astray
    /\ UNCHANGED <<roles, offers, members, ldap, asked, requests>>

\* PostgreSQL ends one of the handlers that wait for each other.
BreakDeadlock(c) ==
    /\ \E S \in SUBSET Calls :
         c \in S /\ \A d \in S : Blockers(d) \cap S # {}
    /\ End(c)

\* The next step of a handler in flight.
Onward(c) ==
    \/ Filter(c)
    \/ Look(c)
    \/ Insert(c)
    \/ Done(c)
    \/ SendAssign(c)
    \/ DeleteRows(c)
    \/ SendUnassign(c)
    \/ PurgeUser(c)
    \/ CommitReplace(c)
    \/ WriteRole(c)
    \/ ReplaceAreas(c)
    \/ ReadName(c)
    \/ CommitUpdate(c)
    \/ SendRename(c)
    \/ PurgeRole(c)
    \/ SendDelete(c)
    \/ EraseRole(c)
    \/ BreakDeadlock(c)

CallStep(c) ==
    \/ BeginAssign(c)
    \/ BeginUnassign(c)
    \/ BeginGrant(c)
    \/ BeginReplace(c)
    \/ DropRole(c)
    \/ CreateRole(c)
    \/ BeginUpdate(c)
    \/ BeginRemove(c)
    \/ Onward(c)
    \/ TimeOut(c)

Next == \E c \in Calls : CallStep(c)

Spec == Init /\ [][Next]_vars

\* The database and LDAP answer, and deadlocks are broken.
FairSpec == Spec /\ \A c \in Calls : WF_vars(Onward(c))

-----------------------------------------------------------------------------
(* Properties. *)

(* The state has its type; nobody has a role that is gone, none is offered *)
(* anywhere, and the areas asked for are those of ids once given           *)
(* (schema.prisma:117, 129, 225).                                          *)
TypeOK ==
    /\ DOMAIN roles \subseteq DOMAIN asked
    /\ DOMAIN asked \subseteq Ids
    /\ roles \in [DOMAIN roles -> Role]
    /\ asked \in [DOMAIN asked -> SUBSET Areas]
    /\ offers \subseteq (DOMAIN roles) \X Areas
    /\ members \subseteq Row
    /\ \A row \in members : row.of.role \in DOMAIN roles
    /\ ldap \subseteq Users \X Names \X (Areas \cup {None})
    /\ calls \in [Calls -> Call]
    /\ astray \subseteq Ids
    /\ requests \in 0 .. MaxRequests

\* A row LDAP was told of, of a role it was always told the truth of.
Known(row) == row.told /\ row.of.area = None /\ row.of.role \notin astray

(* Whoever was given a global role by the roles service is in the LDAP     *)
(* group of the role, under the name it has or is being renamed to,        *)
(* however assignments and renames overlap; unless LDAP was told of the    *)
(* role by an outdated name, or of a change that was not committed, or not *)
(* of a change of name or scope that was                                   *)
(* (roles.service.ts:154-168, 193-213).                                    *)
DirectoryKnowsMembers ==
    \A row \in members, n \in Names :
        Known(row) /\ Listed(row.of.role, n)
          => <<row.of.user, n, None>> \in ldap

(* The areas of a role are those of the last request that was granted:     *)
(* updates replace them one after the other, and no area of an older one   *)
(* survives or comes back (roles.service.ts:193-207).                      *)
AreasOfLastUpdate ==
    \A r \in DOMAIN roles : {o[2] : o \in AreasOf(r)} = asked[r]

(* A user has a role in an area twice only if two handlers have looked for *)
(* it at the same time: a handler that could see all inserts of the role   *)
(* does not double it (roles.service.ts:420-429, users.service.ts:827-833).*)
DoubledOnlyByRace ==
    \A row, other \in members :
        row.of = other.of /\ row.sure /\ other.sure => row = other

(* A user whose roles are replaced is left with those of the request,      *)
(* unless another handler gave him a role while the replacement was under  *)
(* way (users.service.ts:451-458).                                         *)
ReplacesAll ==
    [][\A c \in Calls :
          CommitReplace(c) /\ calls[c].fresh
            => {row \in members' : row.of.user = calls[c].user}
                 \subseteq calls[c].added]_vars

\* What the locals of a handler are by what it does and where it has arrived.
Shape(call) ==
    /\ call.open \/ {call.added, call.gone, call.cut, call.put} = {{}}
    /\ call.open \/ call.pc \notin {"delete", "purge", "write", "areas", "name",
                                    "erase", "renamed", "commit"}
    /\ call.op = "assign" => call.open \/ call.pc = "send"
    /\ call.op = "replace" => call.open /\ call.user \in Users
    /\ call.op = "grant" => ~call.open
    /\ call.op = "update" \/ call.row = None
    /\ call.op \in {"assign", "replace"} \/ call.added = {}
    /\ call.op \notin {"assign", "update"} \/ call.gone = {}
    /\ call.op = "update" =>
         /\ call.body \in Body
         /\ (call.row = None) = (call.pc = "write")
         /\ call.pc \in {"write", "areas", "name", "send", "renamed", "commit"}
         /\ call.pc \in {"write", "areas"} => call.cut = {} /\ call.put = {}
         /\ call.pc # "write" /\ call.body.name # Unset =>
              call.row.name = call.body.name
         /\ call.pc \in {"name", "send", "renamed"} => call.body.name # Unset
         /\ call.pc = "send" /\ call.row.scope = "GLOBAL" => call.area = None
    /\ call.op \in {"assign", "unassign", "update", "remove"} =>
         call.id \in Ids /\ call.read \in Role
    /\ call.op \in {"assign", "unassign"} => \A i \in call.told :
         i.role = call.id /\ (i.area = None) = (call.read.scope = "GLOBAL")
    /\ call.op = "assign" => call.todo \subseteq call.told
    /\ call.op \in {"replace", "grant"} =>
         \A i \in call.want \cup call.todo : i.user = call.user
    /\ call.pc \in {"look", "insert"} => call.op \in {"assign", "replace", "grant"}
    /\ call.op \notin {"replace", "grant"} => call.want = {}
    /\ call.pc = "insert" => call.item \in call.todo
    /\ call.pc = "delete" =>
         call.op = "unassign" /\ \E i \in Item : call.told = {i}
    /\ call.pc = "purge" => call.op \in {"replace", "remove"} /\ call.added = {}
    /\ call.pc \in {"write", "areas", "name", "renamed"} => call.op = "update"
    /\ call.pc = "send" => call.op \in {"assign", "unassign", "update", "remove"}
    /\ call.pc = "erase" => call.op = "remove"

\* What a handler in flight may rely on.
AddedOK(call) ==
    \A row \in call.added :
        /\ row.of.role \in DOMAIN roles
        /\ call.op = "assign" => row.of \in call.told
        /\ call.op = "replace" => row.of.user = call.user /\ ~row.told

GoneOK(call) ==
    /\ call.gone \subseteq members
    /\ call.op = "unassign" /\ call.pc = "send" /\ call.open
         /\ call.read.scope = "GLOBAL" => \A i \in call.told : Has(call.gone, i)
    /\ call.op = "replace" /\ call.fresh =>
         {row \in members : row.of.user = call.user} \subseteq call.gone

WroteOK(call) ==
    Wrote(call) =>
        /\ call.id \in DOMAIN roles
        /\ NameFree(call.row.name, call.id)
        /\ call.pc \in {"name", "send", "renamed", "commit"} =>
             IF Recuts(call, call.row)
             THEN /\ call.cut = AreasOf(call.id)
                  /\ call.put = {call.id} \X call.body.areas
             ELSE call.cut = {} /\ call.put = {}
        /\ call.pc = "areas" => Recuts(call, call.row)

SureOK(call) ==
    call.pc = "insert" /\ call.sure =>
        \A row \in Rows : row.of = call.item => row \in call.gone \ call.added

CallOK(call) ==
    Shape(call) /\ AddedOK(call) /\ GoneOK(call) /\ WroteOK(call) /\ SureOK(call)

\* Two rows that exclude each other.
Clash(row, other) ==
    /\ row.of = other.of
    /\ row.of.area = None \/ (row.sure /\ other.sure)

\* What the locks keep two handlers from.
Apart(call, other) ==
    /\ call.gone \cap other.gone = {}
    /\ \A row \in call.added, x \in other.added : ~Clash(row, x)
    /\ Wrote(call) /\ Wrote(other) =>
         call.id # other.id /\ call.row.name # other.row.name
    /\ Rekeys(call) => \A row \in other.added : row.of.role # call.id

\* A handler has deleted what its rows clash with, in its own transaction.
RowsOK ==
    /\ \A row, x \in members : Clash(row, x) => row = x
    /\ \A c \in Calls :
         /\ \A row \in members, x \in calls[c].added :
                Clash(row, x) => row \in calls[c].gone
         /\ \A row, x \in calls[c].added : Clash(row, x) => row = x

(* The inductive invariant: besides the above, what each handler relies on *)
(* is so, and no two hold what excludes the other                          *)
(* (roles.service.ts:144-306, 325-380, users.service.ts:443-461).          *)
RolesInv ==
    /\ TypeOK
    /\ DirectoryKnowsMembers
    /\ \A row \in members : Known(row) => roles[row.of.role].scope = "GLOBAL"
    /\ AreasOfLastUpdate
    /\ \A r, q \in DOMAIN roles : roles[r].name = roles[q].name => r = q
    /\ RowsOK
    /\ \A c \in Calls : CallOK(calls[c])
    /\ \A c, d \in Calls : c # d => Apart(calls[c], calls[d])

(* No handler stays: whoever waits for a row gets it or is ended, also     *)
(* when handlers wait for each other, as a removal and an update of the    *)
(* areas of one role or two assignments in opposite orders may             *)
(* (roles.service.ts:195-201, 286-302, 408-417).                           *)
HandlersEnd == \A c \in Calls : calls[c] # Idle ~> calls[c] = Idle

=============================================================================
