------------------------ MODULE OrganizationalGroups -----------------------
(***************************************************************************)
(* The tree of organizational groups and its members, as kept by           *)
(* src/src/modules/organizational-groups/organizational-groups.service.ts. *)
(*                                                                         *)
(* A create or an update validates what it is asked for against the rows   *)
(* it reads, and writes in one statement later; a removal looks for        *)
(* children and deletes later, and the database cascades.  The reads of a  *)
(* validation are one step, its write another.  Adding and dropping        *)
(* members happens in a transaction that stays open while LDAP is asked;   *)
(* the chain of parents LDAP is told is read one group at a time.          *)
(*                                                                         *)
(* The microservice in front of LDAP is not in the repository: it accepts  *)
(* or refuses, as it likes.  Descriptions, area and user names and the     *)
(* text of the payloads are left out, and areas and users are constants.   *)
(***************************************************************************)
EXTENDS Integers, FiniteSets

CONSTANTS
    Ids,        \* ids of groups
    Users,
    Names,
    Areas,
    Calls,      \* slots for the handlers in flight
    None,       \* null
    Unset,      \* a field that is not in the body of a request
    Creates,    \* the bodies of the creates clients send
    Updates,    \* the bodies of the updates
    MaxRequests \* bound on the requests

Types == {"CONTAINER", "LEADERSHIP", "OPERATIONAL"}

\* A body is a partial row.  No validation pipe is installed: the rules of the
\* DTO bound nothing.  Clients are taken to send what it requires of a create.
Body == [name : Names \cup {Unset}, level : Int \cup {Unset},
         parent : Ids \cup {None, Unset}, container : Ids \cup {None, Unset},
         area : Areas \cup {None, Unset}, type : Types \cup {Unset}]

ASSUME GroupsAssumption ==
    /\ None # Unset
    /\ {None, Unset} \cap (Ids \cup Names \cup Areas \cup Types \cup Int) = {}
    /\ Creates \subseteq Body /\ Updates \subseteq Body
    /\ \A body \in Creates : Unset \notin {body.name, body.level, body.type}
    /\ MaxRequests \in Nat

VARIABLES
    groups,    \* the table of groups, by id
    members,   \* the table of memberships: pairs of a user and a group
    accepted,  \* history: the memberships LDAP has ever accepted
    calls,     \* program counter and locals of the handlers
    used,      \* history: ids ever given to a group
    requests,  \* history: the number of requests so far
    placed     \* history: groups whose level was checked as things stand

vars == <<groups, members, accepted, calls, used, requests, placed>>

Row == [name : Names, level : Int, parent : Ids \cup {None},
        container : Ids \cup {None}, area : Areas \cup {None}, type : Types]

(***************************************************************************)
(* affects tells whether an update changes the place of its group in the   *)
(* hierarchy; rows are the memberships an open transaction inserts or      *)
(* deletes, at is where a walk up the parents has arrived, and fresh tells *)
(* whether no group has changed since the handler read them.               *)
(***************************************************************************)
Ops == {"none", "create", "update", "remove", "add", "drop"}
Points == {"idle", "insert", "write", "count", "erase", "upsert", "payload",
           "walk", "send", "delete"}

Call == [op : Ops, pc : Points, id : Ids \cup {None}, body : Body \cup {None},
         affects : BOOLEAN, users : SUBSET Users, rows : SUBSET (Users \X Ids),
         open : BOOLEAN, at : Ids \cup {None}, fresh : BOOLEAN]

Idle == [op |-> "none", pc |-> "idle", id |-> None, body |-> None,
         affects |-> FALSE, users |-> {}, rows |-> {}, open |-> FALSE,
         at |-> None, fresh |-> TRUE]

Init ==
    /\ groups = <<>>
    /\ members = {}
    /\ accepted = {}
    /\ calls = [c \in Calls |-> Idle]
    /\ used = {}
    /\ requests = 0
    /\ placed = {}

-----------------------------------------------------------------------------
(* The hierarchy. *)

Or(new, old) == IF new = Unset THEN old ELSE new

Given(value) == value \notin {None, Unset}

Children(i) == {j \in DOMAIN groups : groups[j].parent = i}

\* What goes with a group by ON DELETE CASCADE: its descendants and itself.
Doomed(i) ==
    {j \in DOMAIN groups :
        \A S \in SUBSET DOMAIN groups :
            (i \in S /\ \A k \in S : Children(k) \subseteq S) => j \in S}

\* Mutant: a child may be above its parent.
LevelUnderMax(level, parent) == level <= groups[parent].level + 3

\* Levels under a group: its own and the next three.
LevelUnder(level, parent) ==
    groups[parent].level <= level /\ level <= groups[parent].level + 3

\* Containers take groups from their own level on.
ContainerTakes(container, level) ==
    /\ container \in DOMAIN groups
    /\ groups[container].type = "CONTAINER"
    /\ level >= groups[container].level

\* No other group has the name on the level, in the area and the container.
NameFree(name, level, area, container, id) ==
    \A j \in DOMAIN groups \ {id} :
        <<groups[j].name, groups[j].level, groups[j].area, groups[j].container>>
            # <<name, level, area, container>>

-----------------------------------------------------------------------------
(* create. *)

AreaOf(i) == IF i \in DOMAIN groups THEN groups[i].area ELSE None

\* The body with the area it gets from its container, or else its parent.
Inherit(body) ==
    [body EXCEPT !.area =
        IF Given(body.area) THEN body.area
        ELSE IF Given(body.container) THEN AreaOf(body.container)
        ELSE IF Given(body.parent) THEN AreaOf(body.parent)
        ELSE None]

NewRow(body) ==
    [name |-> body.name, level |-> body.level,
     parent |-> IF Given(body.parent) THEN body.parent ELSE None,
     container |-> IF Given(body.container) THEN body.container ELSE None,
     area |-> body.area, type |-> body.type]

\* What validateCreateInput lets pass; the body has its area by then.
CreateOK(body) ==
    LET row == NewRow(body)
    IN  /\ row.container # None => ContainerTakes(row.container, row.level)
        /\ IF row.parent # None
           THEN /\ row.parent \in DOMAIN groups
                /\ LevelUnder(row.level, row.parent)
                /\ row.container = None /\ AreaOf(row.parent) # None
                     => row.area = AreaOf(row.parent)
           ELSE row.level = 0
        /\ NameFree(row.name, row.level, row.area, row.container, None)

-----------------------------------------------------------------------------
(* update. *)

\* The body with the area it gets from the container it names.
FromContainer(body) ==
    IF /\ body.area = Unset /\ Given(body.container)
       /\ AreaOf(body.container) # None
    THEN [body EXCEPT !.area = AreaOf(body.container)] ELSE body

\* The body with the area it gets from the parent it names, after validation.
FromParent(body) ==
    IF body.area = Unset /\ Given(body.parent) /\ AreaOf(body.parent) # None
    THEN [body EXCEPT !.area = AreaOf(body.parent)] ELSE body

Apply(body, row) ==
    [name |-> Or(body.name, row.name), level |-> Or(body.level, row.level),
     parent |-> Or(body.parent, row.parent),
     container |-> Or(body.container, row.container),
     area |-> Or(body.area, row.area), type |-> Or(body.type, row.type)]

\* A changed area: never with children, and that of the container or of the
\* parent the group has.
AreaFits(i, body) ==
    LET cur == groups[i]
        container == AreaOf(Or(body.container, cur.container))
    IN  /\ Children(i) = {}
        /\ IF container # None THEN body.area = container
           ELSE AreaOf(cur.parent) # None => body.area = AreaOf(cur.parent)

\* A parent that is named, or taken away.
ParentFits(i, body) ==
    LET row == Apply(body, groups[i])
    IN  IF body.parent = None
        THEN body.level # Unset => body.level = 0
        ELSE /\ body.parent \in DOMAIN groups
             /\ LevelUnder(row.level, body.parent)
             /\ AreaOf(body.parent) # None /\ row.container = None
                  => row.area = AreaOf(body.parent)

\* A level that is changed alone.
LevelFits(i, level) ==
    LET cur == groups[i]
    IN  /\ IF cur.parent # None THEN LevelUnder(level, cur.parent)
           ELSE level = 0
        /\ cur.container # None => level >= groups[cur.container].level

OtherParent(i, body) == body.parent # i

\* What validateUpdateInput lets pass; the body has its area by then.
UpdateOK(i, body) ==
    LET cur == groups[i]
        row == Apply(body, cur)
    IN  /\ OtherParent(i, body)
        /\ Given(body.container) => ContainerTakes(body.container, row.level)
        /\ body.area # Unset /\ body.area # cur.area => AreaFits(i, body)
        /\ body.parent # Unset => ParentFits(i, body)
        /\ body.level # Unset /\ body.parent = Unset /\ body.container = Unset
             => LevelFits(i, body.level)
        /\ body.name # Unset
             => NameFree(row.name, row.level, row.area, row.container, i)

\* Whether members have to be told of an update in LDAP.
Affects(i, body) ==
    \E f \in {"name", "level", "parent", "area"} :
        body[f] # Unset /\ body[f] # groups[i][f]

\* Whether UpdateOK has compared the level of the group with its parent's.
LevelChecked(body) ==
    \/ Given(body.parent)
    \/ /\ body.level # Unset
       /\ body.parent = None \/ body.container = Unset

-----------------------------------------------------------------------------
(* Handlers of groups. *)

\* A request reaches a free handler.
Begin(c, call) ==
    /\ calls[c] = Idle
    /\ requests < MaxRequests
    /\ requests' = requests + 1
    /\ calls' = [calls EXCEPT ![c] = call]
    /\ UNCHANGED <<groups, members, accepted, used, placed>>

Goto(c, call) ==
    /\ calls' = [calls EXCEPT ![c] = call]
    /\ UNCHANGED <<groups, members, accepted, used, requests, placed>>

\* The handler ends, with an error or with nothing left to write: a
\* transaction it has open is rolled back.
End(c) == Goto(c, Idle)

\* The locals of all handlers after one has written groups and goes on with
\* call: what the others are about to write on is no longer fresh.
Written(c, call) ==
    [d \in Calls |->
        IF d = c THEN call
        ELSE [calls[d] EXCEPT !.fresh =
                @ /\ calls[d].pc \notin {"insert", "write", "erase"}]]

BeginCreate(c) ==
    \E sent \in Creates :
      LET body == Inherit(sent)
      IN  /\ CreateOK(body)
          /\ Begin(c, [Idle EXCEPT !.op = "create", !.pc = "insert",
                                   !.body = body])

\* A foreign key refuses a parent or container that has gone.
RefersTo(row) == {row.parent, row.container} \subseteq DOMAIN groups \cup {None}

InsertGroup(c) ==
    /\ calls[c].pc = "insert"
    /\ LET row == NewRow(calls[c].body)
       IN  IF ~RefersTo(row)
           THEN End(c)
           ELSE \E i \in Ids \ used :
                  /\ groups' = [j \in DOMAIN groups \cup {i} |->
                                  IF j = i THEN row ELSE groups[j]]
                  /\ used' = used \cup {i}
                  /\ placed' = IF calls[c].fresh THEN placed \cup {i} ELSE placed
                  /\ calls' = Written(c, Idle)
                  /\ UNCHANGED <<members, accepted, requests>>

BeginUpdate(c) ==
    \E i \in DOMAIN groups, sent \in Updates :
      LET body == FromContainer(sent)
      IN  /\ UpdateOK(i, body)
          /\ Begin(c, [Idle EXCEPT !.op = "update", !.pc = "write", !.id = i,
                         !.body = FromParent(body),
                         !.affects = Affects(i, body)])

\* An update that has written and goes on to tell LDAP.
Counting(i) == [Idle EXCEPT !.op = "update", !.pc = "count", !.id = i]

\* The statement of an update changes the fields of its body and leaves what
\* others have made of the rest.
WriteGroup(c) ==
    /\ calls[c].pc = "write"
    /\ LET call == calls[c]
           i == call.id
           row == Apply(call.body, groups[i])
           moves == call.body.parent # Unset \/ call.body.level # Unset
       IN  IF i \notin DOMAIN groups \/ ~RefersTo(row)
           THEN End(c)
           ELSE /\ groups' = [groups EXCEPT ![i] = row]
                /\ placed' =
                     (IF call.fresh /\ LevelChecked(call.body)
                      THEN placed \cup {i}
                      ELSE IF moves THEN placed \ {i} ELSE placed)
                     \ (IF row.level # groups[i].level THEN Children(i) ELSE {})
                /\ calls' = Written(c, IF call.affects THEN Counting(i) ELSE Idle)
                /\ UNCHANGED <<members, accepted, used, requests>>

\* LDAP is told of an update if the group has members.
CountMembers(c) ==
    /\ calls[c].pc = "count"
    /\ IF \E u \in Users : <<u, calls[c].id>> \in members
       THEN Goto(c, [calls[c] EXCEPT !.pc = "walk", !.at = calls[c].id])
       ELSE End(c)

\* Mutant: the walk looks up the group it has just read.
WalkChainStays(c) ==
    /\ calls[c].pc = "walk"
    /\ IF calls[c].at \in DOMAIN groups
       THEN Goto(c, calls[c])
       ELSE Goto(c, [calls[c] EXCEPT !.pc = "send", !.at = None])

\* buildHierarchyChain reads one group and goes on with its parent.
WalkChain(c) ==
    /\ calls[c].pc = "walk"
    /\ IF calls[c].at \in DOMAIN groups
       THEN Goto(c, [calls[c] EXCEPT !.at = groups[calls[c].at].parent])
       ELSE Goto(c, [calls[c] EXCEPT !.pc = "send", !.at = None])

\* The answer to the update of a group: an error is logged and forgotten.
SendUpdate(c) ==
    /\ calls[c].op = "update"
    /\ calls[c].pc = "send"
    /\ End(c)

\* Mutant: remove looks for the groups contained in the one it deletes.
BeginRemoveContainer(c) ==
    \E i \in DOMAIN groups :
      /\ \A j \in DOMAIN groups : groups[j].container # i
      /\ Begin(c, [Idle EXCEPT !.op = "remove", !.pc = "erase", !.id = i])

\* remove looks for children; whom it contains does not matter.
BeginRemove(c) ==
    \E i \in DOMAIN groups :
      /\ Children(i) = {}
      /\ Begin(c, [Idle EXCEPT !.op = "remove", !.pc = "erase", !.id = i])

\* The groups whose memberships open transactions have locked.
LockedGroups == {row[2] : row \in UNION {calls[c].rows : c \in Calls}}

\* The delete takes the descendants and the memberships with it and sets the
\* containers to null.  It waits for the rows others have locked.
EraseGroup(c) ==
    /\ calls[c].pc = "erase"
    /\ LET doomed == Doomed(calls[c].id)
       IN  IF calls[c].id \notin DOMAIN groups
           THEN End(c)
           ELSE /\ doomed \cap LockedGroups = {}
                /\ groups' = [j \in DOMAIN groups \ doomed |->
                                IF groups[j].container \in doomed
                                THEN [groups[j] EXCEPT !.container = None]
                                ELSE groups[j]]
                /\ members' = {row \in members : row[2] \notin doomed}
                /\ placed' = placed \ doomed
                /\ calls' = Written(c, Idle)
                /\ UNCHANGED <<accepted, used, requests>>

-----------------------------------------------------------------------------
(* Handlers of members. *)

BeginAdd(c) ==
    \E i \in DOMAIN groups, users \in SUBSET Users \ {{}} :
      Begin(c, [Idle EXCEPT !.op = "add", !.pc = "upsert", !.id = i,
                            !.users = users])

\* The upserts look for the rows and insert those that are missing.  An insert
\* locks the group; it waits for another of the same row, and fails after it.
UpsertMembers(c) ==
    /\ calls[c].pc = "upsert"
    /\ LET i == calls[c].id
           rows == (calls[c].users \X {i}) \ members
       IN  IF \/ \E d \in Calls \ {c} : calls[d].rows \cap rows # {}
              \/ rows # {} /\ i \notin DOMAIN groups
           THEN End(c)
           ELSE Goto(c, [calls[c] EXCEPT !.pc = "payload", !.rows = rows,
                                         !.open = TRUE])

\* The payload starts with the group, which may have gone.
ReadPayload(c) ==
    /\ calls[c].pc = "payload"
    /\ IF calls[c].id \in DOMAIN groups
       THEN Goto(c, [calls[c] EXCEPT !.pc = "walk", !.at = calls[c].id])
       ELSE End(c)

\* Mutant: an error of LDAP is logged and forgotten, as it is by an update.
SendMembersForgives(c) ==
    /\ calls[c].op = "add"
    /\ calls[c].pc = "send"
    /\ \E ok \in BOOLEAN :
         /\ accepted' = IF ok THEN accepted \cup (calls[c].users \X {calls[c].id})
                        ELSE accepted
         /\ members' = members \cup calls[c].rows
    /\ calls' = [calls EXCEPT ![c] = Idle]
    /\ UNCHANGED <<groups, used, requests, placed>>

\* LDAP assigns the users to the group and the transaction commits, if it has
\* not run out of time; or LDAP refuses and it is rolled back.
SendMembers(c) ==
    /\ calls[c].op = "add"
    /\ calls[c].pc = "send"
    /\ \E ok \in BOOLEAN :
         /\ accepted' = IF ok THEN accepted \cup (calls[c].users \X {calls[c].id})
                        ELSE accepted
         /\ members' = IF ok THEN members \cup calls[c].rows ELSE members
    /\ calls' = [calls EXCEPT ![c] = Idle]
    /\ UNCHANGED <<groups, used, requests, placed>>

BeginDrop(c) ==
    \E row \in members :
      Begin(c, [Idle EXCEPT !.op = "drop", !.pc = "delete", !.id = row[2],
                            !.users = {row[1]}])

\* The delete of a membership by its id, which waits for another of the row
\* and fails if the row has gone meanwhile.
DeleteMember(c) ==
    /\ calls[c].pc = "delete"
    /\ LET rows == calls[c].users \X {calls[c].id}
       IN  /\ \A d \in Calls \ {c} : calls[d].rows \cap rows = {}
           /\ IF rows \subseteq members /\ calls[c].fresh
              THEN Goto(c, [calls[c] EXCEPT !.pc = "send", !.rows = rows,
                                            !.open = TRUE])
              ELSE End(c)

\* The locals of all handlers after one has deleted rows: who is about to
\* delete them by the same ids will not find them.
Dropped(c, rows) ==
    [d \in Calls |->
        IF d = c THEN Idle
        ELSE [calls[d] EXCEPT !.fresh =
                @ /\ ~(calls[d].pc = "delete"
                         /\ calls[d].users \X {calls[d].id} \subseteq rows)]]

\* LDAP drops the member and the transaction commits, or neither.
SendDrop(c) ==
    /\ calls[c].op = "drop"
    /\ calls[c].pc = "send"
    /\ \/ /\ members' = members \ calls[c].rows
          /\ calls' = Dropped(c, calls[c].rows)
       \/ /\ UNCHANGED members
          /\ calls' = [calls EXCEPT ![c] = Idle]
    /\ UNCHANGED <<groups, accepted, used, requests, placed>>

\* Prisma's time limit ends a transaction while its handler goes on.
TimeOut(c) ==
    /\ calls[c].open
    /\ Goto(c, [calls[c] EXCEPT !.open = FALSE, !.rows = {}])

CallStep(c) ==
    \/ BeginCreate(c)
    \/ InsertGroup(c)
    \/ BeginUpdate(c)
    \/ WriteGroup(c)
    \/ CountMembers(c)
    \/ WalkChain(c)
    \/ SendUpdate(c)
    \/ BeginRemove(c)
    \/ EraseGroup(c)
    \/ BeginAdd(c)
    \/ UpsertMembers(c)
    \/ ReadPayload(c)
    \/ SendMembers(c)
    \/ BeginDrop(c)
    \/ DeleteMember(c)
    \/ SendDrop(c)
    \/ TimeOut(c)

Next == \E c \in Calls : CallStep(c)

Spec == Init /\ [][Next]_vars

\* The database answers every read of a walk.
FairSpec == Spec /\ \A c \in Calls : WF_vars(WalkChain(c))

-----------------------------------------------------------------------------
(* Properties. *)

(* The state has its type, and no key refers to a row that has gone:       *)
(* parents, containers and members are those of groups in the table        *)
(* (schema.prisma:407, 411, 437).                                          *)
TypeOK ==
    /\ DOMAIN groups \subseteq used
    /\ used \subseteq Ids
    /\ groups \in [DOMAIN groups -> Row]
    /\ \A i \in DOMAIN groups :
         {groups[i].parent, groups[i].container} \subseteq DOMAIN groups \cup {None}
    /\ members \subseteq Users \X DOMAIN groups
    /\ accepted \subseteq Users \X Ids
    /\ calls \in [Calls -> Call]
    /\ requests \in 0 .. MaxRequests
    /\ placed \subseteq DOMAIN groups

(* Levels follow the tree as far as anybody has looked: a group whose      *)
(* level was compared with its parent's, with no group changed since by    *)
(* another handler and no new level of the parent's, is on the level of    *)
(* its parent or one of the next three, and on level 0 without a parent    *)
(* (organizational-groups.service.ts:565-600, 723-787).                    *)
LevelsFollowTree ==
    \A i \in placed :
        LET level == groups[i].level
            parent == groups[i].parent
        IN  IF parent = None THEN level = 0
            ELSE level - groups[parent].level \in 0 .. 3

(* No member without LDAP: a membership is in the table only if LDAP has   *)
(* accepted it, whatever has been refused or has timed out meanwhile       *)
(* (organizational-groups.service.ts:300-318).                             *)
MembersWereAccepted == members \subseteq accepted

(* A removal takes a child with it only if a group has changed since the   *)
(* removal looked for children; otherwise it deletes its one group         *)
(* (organizational-groups.service.ts:161-199).                             *)
CascadeOnlyAfterChange ==
    [][Cardinality(DOMAIN groups \ DOMAIN groups') > 1 =>
          \E c \in Calls : calls[c].pc = "erase" /\ ~calls[c].fresh]_vars

\* Where the level of a row fits its parent's.
Placeable(row) ==
    IF row.parent = None THEN row.level = 0
    ELSE row.parent \in DOMAIN groups /\ LevelUnder(row.level, row.parent)

\* What a handler is about to write is right if no group has changed since.
FreshOK(call) ==
    call.fresh =>
        /\ call.pc = "insert" => Placeable(NewRow(call.body))
        /\ call.pc = "write" =>
             /\ call.id \in DOMAIN groups
             /\ LevelChecked(call.body)
                  => Placeable(Apply(call.body, groups[call.id]))
        /\ call.pc = "erase" => Children(call.id) = {}

\* The rows a transaction has locked are its own, of a group that is there.
RowsOK(call) ==
    /\ call.users # {} => call.id \in Ids
    /\ call.rows \subseteq call.users \X {call.id}
    /\ call.rows # {} => call.id \in DOMAIN groups

BodyOK(call) ==
    /\ call.pc = "insert" => Unset \notin {call.body.name, call.body.level,
                                           call.body.area, call.body.type}
    /\ call.pc \in {"insert", "write"} => call.body \in Body
    /\ call.pc = "write" => call.body.parent # call.id

CallOK(call) == BodyOK(call) /\ FreshOK(call) /\ RowsOK(call)

(* The inductive invariant: besides the above, no group is its own parent, *)
(* no transaction has rows of a group that has gone, and a handler that no *)
(* other has overtaken writes what fits the tree                           *)
(* (organizational-groups.service.ts:634, 161-199, 295-364).               *)
GroupsInv ==
    /\ TypeOK
    /\ LevelsFollowTree
    /\ MembersWereAccepted
    /\ \A i \in DOMAIN groups : groups[i].parent # i
    /\ \A c \in Calls : CallOK(calls[c])

\* Some group is among its own ancestors.
Cycle ==
    \E S \in SUBSET DOMAIN groups \ {{}} : \A i \in S : groups[i].parent \in S

(* A walk up the parents ends, unless updates have closed the parents of   *)
(* some groups to a circle (organizational-groups.service.ts:962-989).     *)
WalksEnd ==
    \A c \in Calls : calls[c].pc = "walk" ~> (calls[c].pc # "walk" \/ Cycle)

=============================================================================
