--------------------- MODULE OrganizationalGroupsProofs --------------------
(***************************************************************************)
(* The tree of groups and its members, for any number of groups, users,    *)
(* names, areas and concurrent handlers, and any requests.                 *)
(*                                                                         *)
(* GroupsInv is inductive.  LocalStep covers the steps that change nothing *)
(* but the locals of one handler; WrittenCalls says that a handler that    *)
(* writes groups leaves the others with locals that promise nothing about  *)
(* the tree.  CascadeOnlyAfterChange follows from what is promised of a    *)
(* fresh removal: the group has no children, so nothing but itself is in   *)
(* Doomed.                                                                 *)
(***************************************************************************)
EXTENDS OrganizationalGroups, FiniteSetTheorems, TLAPS

-----------------------------------------------------------------------------
(* Values. *)

LEMMA IdleOK == Idle \in Call /\ CallOK(Idle) /\ CallOK(Idle)'
BY DEF Idle, Call, Ops, Points, CallOK, BodyOK, FreshOK, RowsOK

\* None and Unset are no ids, names or areas.
LEMMA NoValue ==
    /\ None # Unset
    /\ None \notin Ids /\ Unset \notin Ids
    /\ None \notin Names /\ Unset \notin Names
    /\ None \notin Areas /\ Unset \notin Areas
    /\ None \notin Types /\ Unset \notin Types
    /\ None \notin Int /\ Unset \notin Int
BY GroupsAssumption

\* An area read from the table.
LEMMA AreaType ==
    ASSUME TypeOK, NEW i
    PROVE  AreaOf(i) \in Areas \cup {None}
BY DEF TypeOK, Row, AreaOf

\* The row a body makes.
LEMMA NewRowType ==
    ASSUME NEW body \in Body,
           Unset \notin {body.name, body.level, body.area, body.type}
    PROVE  NewRow(body) \in Row
<1>1. /\ body.name \in Names /\ body.level \in Int
      /\ body.area \in Areas \cup {None} /\ body.type \in Types
      /\ body.parent \in Ids \cup {None, Unset}
      /\ body.container \in Ids \cup {None, Unset}
  BY DEF Body
<1> QED
  BY <1>1 DEF NewRow, Row, Given

\* The row an update makes of another.
LEMMA ApplyType ==
    ASSUME NEW body \in Body, NEW row \in Row
    PROVE  Apply(body, row) \in Row
<1>1. /\ body.name \in Names \cup {Unset} /\ body.level \in Int \cup {Unset}
      /\ body.area \in Areas \cup {None, Unset} /\ body.type \in Types \cup {Unset}
      /\ body.parent \in Ids \cup {None, Unset}
      /\ body.container \in Ids \cup {None, Unset}
  BY DEF Body
<1>2. /\ row.name \in Names /\ row.level \in Int
      /\ row.area \in Areas \cup {None} /\ row.type \in Types
      /\ row.parent \in Ids \cup {None}
      /\ row.container \in Ids \cup {None}
  BY DEF Row
<1> QED
  BY <1>1, <1>2 DEF Apply, Or, Row

\* A body with another area.
LEMMA BodyWithArea ==
    ASSUME NEW body \in Body, NEW area \in Areas \cup {None}
    PROVE  /\ [body EXCEPT !.area = area] \in Body
           /\ [body EXCEPT !.area = area].area = area
           /\ [body EXCEPT !.area = area].name = body.name
           /\ [body EXCEPT !.area = area].level = body.level
           /\ [body EXCEPT !.area = area].parent = body.parent
           /\ [body EXCEPT !.area = area].container = body.container
           /\ [body EXCEPT !.area = area].type = body.type
BY DEF Body

\* A create sends a body with an area, its own or inherited.
LEMMA InheritType ==
    ASSUME TypeOK, NEW body \in Creates
    PROVE  /\ Inherit(body) \in Body
           /\ Unset \notin {Inherit(body).name, Inherit(body).level,
                            Inherit(body).area, Inherit(body).type}
<1>1. body \in Body /\ Unset \notin {body.name, body.level, body.type}
  BY GroupsAssumption
<1> DEFINE area == IF Given(body.area) THEN body.area
                   ELSE IF Given(body.container) THEN AreaOf(body.container)
                   ELSE IF Given(body.parent) THEN AreaOf(body.parent)
                   ELSE None
<1>2. body.area \in Areas \cup {None, Unset}
  BY <1>1 DEF Body
<1>3. area \in Areas \cup {None}
  BY <1>2, AreaType DEF Given
<1>4. Inherit(body) = [body EXCEPT !.area = area]
  BY DEF Inherit
<1> HIDE DEF area
<1>5. Unset \notin Areas \cup {None}
  BY NoValue
<1> QED
  BY <1>1, <1>3, <1>4, <1>5, BodyWithArea

\* The bodies an update validates and writes differ from what was sent in
\* nothing but the area.
LEMMA FromType ==
    ASSUME TypeOK, NEW body \in Body
    PROVE  /\ FromContainer(body) \in Body
           /\ FromParent(body) \in Body
           /\ FromParent(body).level = body.level
           /\ FromParent(body).parent = body.parent
           /\ FromParent(body).container = body.container
<1>1. \A i : AreaOf(i) \in Areas \cup {None}
  BY AreaType
<1>2. \A area \in Areas \cup {None} :
         /\ [body EXCEPT !.area = area] \in Body
         /\ [body EXCEPT !.area = area].level = body.level
         /\ [body EXCEPT !.area = area].parent = body.parent
         /\ [body EXCEPT !.area = area].container = body.container
  BY BodyWithArea
<1> QED
  BY <1>1, <1>2 DEF FromContainer, FromParent

-----------------------------------------------------------------------------
(* The shape of steps. *)

\* A step that changes nothing but the locals of one handler.
LEMMA LocalStep ==
    ASSUME GroupsInv, NEW c \in Calls, NEW call \in Call, CallOK(call),
           calls' = [calls EXCEPT ![c] = call],
           requests' \in 0 .. MaxRequests,
           UNCHANGED <<groups, members, accepted, used, placed>>
    PROVE  GroupsInv'
<1>1. TypeOK'
  BY DEF GroupsInv, TypeOK, RefersTo
<1>2. LevelsFollowTree'
  BY DEF GroupsInv, LevelsFollowTree
<1>3. MembersWereAccepted'
  BY DEF GroupsInv, MembersWereAccepted
<1>4. \A i \in DOMAIN groups' : groups'[i].parent # i
  BY DEF GroupsInv
<1>5. CallOK(call)'
  BY DEF CallOK, BodyOK, FreshOK, RowsOK, Placeable, Children, LevelUnder
<1>6. ASSUME NEW d \in Calls
      PROVE  CallOK(calls[d])'
  <2>1. PICK k : k = calls[d]
    OBVIOUS
  <2>2. CallOK(k)
    BY <1>6, <2>1 DEF GroupsInv
  <2>3. CallOK(k)'
    BY <2>2 DEF CallOK, BodyOK, FreshOK, RowsOK, Placeable, Children, LevelUnder
  <2>4. calls'[d] = IF d = c THEN call ELSE k
    BY <1>6, <2>1 DEF GroupsInv, TypeOK
  <2> QED
    BY <1>5, <2>3, <2>4
<1> QED
  BY <1>1, <1>2, <1>3, <1>4, <1>6 DEF GroupsInv

\* A request that begins.
LEMMA BeginStep ==
    ASSUME GroupsInv, NEW c \in Calls, NEW call \in Call, CallOK(call),
           Begin(c, call)
    PROVE  GroupsInv'
<1>1. requests' \in 0 .. MaxRequests
  BY GroupsAssumption DEF GroupsInv, TypeOK, Begin
<1> QED
  BY <1>1, LocalStep DEF Begin

\* A handler that goes on.
LEMMA GotoStep ==
    ASSUME GroupsInv, NEW c \in Calls, NEW call \in Call, CallOK(call),
           Goto(c, call)
    PROVE  GroupsInv'
<1>1. requests' \in 0 .. MaxRequests
  BY DEF GroupsInv, TypeOK, Goto
<1> QED
  BY <1>1, LocalStep DEF Goto

LEMMA EndStep ==
    ASSUME GroupsInv, NEW c \in Calls, End(c)
    PROVE  GroupsInv'
BY IdleOK, GotoStep DEF End

\* The locals of the handlers after one has written groups.
LEMMA WrittenCalls ==
    ASSUME GroupsInv, NEW c \in Calls, NEW call \in Call, CallOK(call)',
           calls' = Written(c, call),
           \A d \in Calls \ {c} :
              calls[d].rows # {} => calls[d].id \in DOMAIN groups'
    PROVE  calls' \in [Calls -> Call] /\ \A d \in Calls : CallOK(calls[d])'
<1>1. ASSUME NEW d \in Calls
      PROVE  calls'[d] \in Call /\ CallOK(calls[d])'
  <2>1. PICK k : k = calls[d]
    OBVIOUS
  <2>2. k \in Call /\ CallOK(k)
    BY <2>1 DEF GroupsInv, TypeOK
  <2>3. CASE d = c
    <3>1. calls'[d] = call
      BY <2>3 DEF Written
    <3> QED
      BY <3>1
  <2>4. CASE d # c
    <3>1. PICK fresh \in BOOLEAN :
             fresh = (k.fresh /\ k.pc \notin {"insert", "write", "erase"})
      OBVIOUS
    <3>2. PICK kk : kk = [k EXCEPT !.fresh = fresh]
      OBVIOUS
    <3>3. calls'[d] = kk
      BY <2>1, <2>4, <3>1, <3>2 DEF Written, Call
    <3>4. /\ kk \in Call /\ kk.fresh = fresh /\ kk.pc = k.pc /\ kk.id = k.id
          /\ kk.body = k.body /\ kk.users = k.users /\ kk.rows = k.rows
      BY <2>2, <3>2 DEF Call
    <3>5. BodyOK(kk)'
      BY <2>2, <3>4 DEF CallOK, BodyOK
    <3>6. FreshOK(kk)'
      BY <3>1, <3>4 DEF FreshOK
    <3>7. RowsOK(kk)'
      BY <2>1, <2>2, <2>4, <3>4 DEF CallOK, RowsOK
    <3> QED
      BY <3>3, <3>4, <3>5, <3>6, <3>7 DEF CallOK
  <2> QED
    BY <2>3, <2>4
<1>2. calls' = [d \in Calls |-> calls'[d]]
  BY DEF Written
<1> QED
  BY <1>1, <1>2

-----------------------------------------------------------------------------
(* Requests begin. *)

\* A validated update has compared levels, where it has.
LEMMA UpdatePlaceable ==
    ASSUME GroupsInv, NEW i \in DOMAIN groups, NEW body \in Body,
           UpdateOK(i, body), LevelChecked(body)
    PROVE  Placeable(Apply(body, groups[i]))
<1> DEFINE row == Apply(body, groups[i])
<1>1. groups[i] \in Row /\ row \in Row
  BY ApplyType DEF GroupsInv, TypeOK
<1>2. row.level = Or(body.level, groups[i].level)
      /\ row.parent = Or(body.parent, groups[i].parent)
  BY DEF Apply
<1>3. groups[i].parent \in DOMAIN groups \cup {None}
  BY DEF GroupsInv, TypeOK
<1>4. CASE Given(body.parent)
  <2>1. row.parent = body.parent /\ body.parent # None
    BY <1>2, <1>4 DEF Or, Given
  <2>2. ParentFits(i, body)
    BY <1>4 DEF UpdateOK, Given
  <2> QED
    BY <2>1, <2>2 DEF ParentFits, Placeable
<1>5. CASE ~Given(body.parent) /\ body.level # Unset /\ body.parent = None
  <2>1. row.parent = None /\ row.level = body.level
    BY <1>2, <1>5, NoValue DEF Or
  <2>2. ParentFits(i, body)
    BY <1>5, NoValue DEF UpdateOK
  <2> QED
    BY <1>5, <2>1, <2>2 DEF ParentFits, Placeable
<1>6. CASE /\ ~Given(body.parent) /\ body.level # Unset
           /\ body.parent # None /\ body.container = Unset
  <2>1. body.parent = Unset
    BY <1>6 DEF Given
  <2>2. row.parent = groups[i].parent /\ row.level = body.level
    BY <1>2, <1>6, <2>1 DEF Or
  <2>3. LevelFits(i, body.level)
    BY <1>6, <2>1 DEF UpdateOK
  <2> QED
    BY <1>3, <2>2, <2>3 DEF LevelFits, Placeable
<1> QED
  BY <1>4, <1>5, <1>6 DEF LevelChecked

LEMMA BeginCreateStep ==
    ASSUME GroupsInv, NEW c \in Calls, BeginCreate(c)
    PROVE  GroupsInv'
<1>1. PICK sent \in Creates :
         /\ CreateOK(Inherit(sent))
         /\ Begin(c, [Idle EXCEPT !.op = "create", !.pc = "insert",
                                  !.body = Inherit(sent)])
  BY DEF BeginCreate
<1>2. PICK body : body = Inherit(sent)
  OBVIOUS
<1>3. body \in Body /\ Unset \notin {body.name, body.level, body.area, body.type}
  BY <1>2, InheritType DEF GroupsInv
<1>4. PICK k : k = [Idle EXCEPT !.op = "create", !.pc = "insert", !.body = body]
  OBVIOUS
<1>5. /\ k \in Call /\ k.pc = "insert" /\ k.body = body
      /\ k.rows = {} /\ k.users = {} /\ k.fresh = TRUE
  BY <1>3, <1>4, IdleOK DEF Idle, Call, Ops, Points
<1>6. Placeable(NewRow(body))
  <2>1. CreateOK(body)
    BY <1>1, <1>2
  <2> QED
    BY <2>1 DEF CreateOK, Placeable
<1>7. CallOK(k)
  BY <1>3, <1>5, <1>6 DEF CallOK, BodyOK, FreshOK, RowsOK
<1>8. Begin(c, k)
  BY <1>1, <1>2, <1>4
<1> QED
  BY <1>5, <1>7, <1>8, BeginStep

LEMMA BeginUpdateStep ==
    ASSUME GroupsInv, NEW c \in Calls, BeginUpdate(c)
    PROVE  GroupsInv'
<1>1. PICK i \in DOMAIN groups, sent \in Updates :
         /\ UpdateOK(i, FromContainer(sent))
         /\ Begin(c, [Idle EXCEPT !.op = "update", !.pc = "write", !.id = i,
                        !.body = FromParent(FromContainer(sent)),
                        !.affects = Affects(i, FromContainer(sent))])
  BY DEF BeginUpdate
<1>2. PICK seen, body : seen = FromContainer(sent) /\ body = FromParent(seen)
  OBVIOUS
<1>3. sent \in Body
  BY GroupsAssumption
<1>4. seen \in Body
  BY <1>2, <1>3, FromType DEF GroupsInv
<1>5. /\ body \in Body /\ body.level = seen.level
      /\ body.parent = seen.parent /\ body.container = seen.container
  BY <1>2, <1>4, FromType DEF GroupsInv
<1>6. UpdateOK(i, seen) /\ i \in Ids
  BY <1>1, <1>2 DEF GroupsInv, TypeOK
<1>7. PICK affects : affects = Affects(i, seen)
  OBVIOUS
<1>8. affects \in BOOLEAN
  BY <1>7 DEF Affects
<1>9. PICK k : k = [Idle EXCEPT !.op = "update", !.pc = "write", !.id = i,
                                !.body = body, !.affects = affects]
  OBVIOUS
<1>10. /\ k \in Call /\ k.pc = "write" /\ k.body = body /\ k.id = i
       /\ k.rows = {} /\ k.users = {} /\ k.fresh = TRUE
  BY <1>5, <1>6, <1>8, <1>9, IdleOK DEF Idle, Call, Ops, Points
<1>11. body.parent # i
  BY <1>5, <1>6 DEF UpdateOK, OtherParent
<1>12. LevelChecked(body) => Placeable(Apply(body, groups[i]))
  <2>1. LevelChecked(body) => LevelChecked(seen)
    BY <1>5 DEF LevelChecked
  <2>2. LevelChecked(seen) => Placeable(Apply(seen, groups[i]))
    BY <1>4, <1>6, UpdatePlaceable
  <2>3. /\ Apply(body, groups[i]).level = Apply(seen, groups[i]).level
        /\ Apply(body, groups[i]).parent = Apply(seen, groups[i]).parent
    BY <1>5 DEF Apply
  <2> QED
    BY <2>1, <2>2, <2>3 DEF Placeable
<1>13. CallOK(k)
  BY <1>5, <1>10, <1>11, <1>12 DEF CallOK, BodyOK, FreshOK, RowsOK
<1>14. Begin(c, k)
  BY <1>1, <1>2, <1>7, <1>9
<1> QED
  BY <1>10, <1>13, <1>14, BeginStep

LEMMA BeginRemoveStep ==
    ASSUME GroupsInv, NEW c \in Calls, BeginRemove(c)
    PROVE  GroupsInv'
<1>1. PICK i \in DOMAIN groups :
         /\ Children(i) = {}
         /\ Begin(c, [Idle EXCEPT !.op = "remove", !.pc = "erase", !.id = i])
  BY DEF BeginRemove
<1>2. i \in Ids
  BY DEF GroupsInv, TypeOK
<1>3. PICK k : k = [Idle EXCEPT !.op = "remove", !.pc = "erase", !.id = i]
  OBVIOUS
<1>4. k \in Call /\ k.pc = "erase" /\ k.id = i /\ k.rows = {} /\ k.users = {}
  BY <1>2, <1>3, IdleOK DEF Idle, Call, Ops, Points
<1>5. CallOK(k)
  BY <1>1, <1>4 DEF CallOK, BodyOK, FreshOK, RowsOK
<1> QED
  BY <1>1, <1>3, <1>4, <1>5, BeginStep

LEMMA BeginMemberStep ==
    ASSUME GroupsInv, NEW c \in Calls, BeginAdd(c) \/ BeginDrop(c)
    PROVE  GroupsInv'
<1>1. PICK op \in {"add", "drop"}, pc \in {"upsert", "delete"},
           i \in DOMAIN groups, users \in SUBSET Users :
         Begin(c, [Idle EXCEPT !.op = op, !.pc = pc, !.id = i, !.users = users])
  <2>1. CASE BeginAdd(c)
    BY <2>1 DEF BeginAdd
  <2>2. CASE BeginDrop(c)
    <3>1. PICK row \in members :
             Begin(c, [Idle EXCEPT !.op = "drop", !.pc = "delete",
                                   !.id = row[2], !.users = {row[1]}])
      BY <2>2 DEF BeginDrop
    <3>2. row[2] \in DOMAIN groups /\ {row[1]} \in SUBSET Users
      BY DEF GroupsInv, TypeOK
    <3> QED
      BY <3>1, <3>2
  <2> QED
    BY <2>1, <2>2
<1>2. i \in Ids
  BY DEF GroupsInv, TypeOK
<1>3. PICK k : k = [Idle EXCEPT !.op = op, !.pc = pc, !.id = i, !.users = users]
  OBVIOUS
<1>4. k \in Call /\ k.pc \in {"upsert", "delete"} /\ k.rows = {} /\ k.id \in Ids
  BY <1>2, <1>3, IdleOK DEF Idle, Call, Ops, Points
<1>5. CallOK(k)
  BY <1>4 DEF CallOK, BodyOK, FreshOK, RowsOK
<1> QED
  BY <1>1, <1>3, <1>4, <1>5, BeginStep

-----------------------------------------------------------------------------
(* Steps that only read. *)

\* A handler that goes on to a point where it writes no group.
LEMMA OnwardStep ==
    ASSUME GroupsInv, NEW c \in Calls, NEW k \in Call, Goto(c, k),
           k.pc \in {"count", "walk", "send", "payload"},
           k.users # {} => k.id \in Ids,
           k.rows \subseteq k.users \X {k.id},
           k.rows # {} => k.id \in DOMAIN groups
    PROVE  GroupsInv'
<1>1. CallOK(k)
  BY DEF CallOK, BodyOK, FreshOK, RowsOK
<1> QED
  BY <1>1, GotoStep

LEMMA WalkStep ==
    ASSUME GroupsInv, NEW c \in Calls,
           CountMembers(c) \/ WalkChain(c) \/ ReadPayload(c)
    PROVE  GroupsInv'
<1>1. CASE End(c)
  BY <1>1, EndStep
<1>2. CASE ~End(c)
  <2>1. PICK old : old = calls[c]
    OBVIOUS
  <2>2. /\ old \in Call /\ old.id \in Ids \cup {None}
        /\ old.rows \subseteq old.users \X {old.id}
        /\ old.users # {} => old.id \in Ids
        /\ old.rows # {} => old.id \in DOMAIN groups
    BY <2>1 DEF GroupsInv, TypeOK, Call, CallOK, RowsOK
  <2>3. \A i \in DOMAIN groups : groups[i].parent \in Ids \cup {None}
    BY DEF GroupsInv, TypeOK, Row
  <2>4. PICK pc \in {"walk", "send"}, at \in Ids \cup {None} :
           Goto(c, [old EXCEPT !.pc = pc, !.at = at])
    <3>1. CASE CountMembers(c) \/ ReadPayload(c)
      BY <1>2, <2>1, <2>2, <3>1 DEF CountMembers, ReadPayload
    <3>2. CASE WalkChain(c)
      <4>1. CASE old.at \in DOMAIN groups
        <5>1. Goto(c, [old EXCEPT !.at = groups[old.at].parent])
          BY <2>1, <3>2, <4>1 DEF WalkChain
        <5>2. old.pc = "walk"
          BY <2>1, <3>2 DEF WalkChain
        <5>3. [old EXCEPT !.at = groups[old.at].parent]
                = [old EXCEPT !.pc = "walk", !.at = groups[old.at].parent]
          BY <2>2, <5>2 DEF Call
        <5>4. Goto(c, [old EXCEPT !.pc = "walk", !.at = groups[old.at].parent])
          BY <5>1, <5>3
        <5> QED
          BY <2>3, <4>1, <5>4
      <4>2. CASE old.at \notin DOMAIN groups
        BY <2>1, <3>2, <4>2 DEF WalkChain
      <4> QED
        BY <4>1, <4>2
    <3> QED
      BY <3>1, <3>2
  <2>5. PICK k : k = [old EXCEPT !.pc = pc, !.at = at]
    OBVIOUS
  <2>6. /\ k \in Call /\ k.pc = pc /\ k.rows = old.rows
        /\ k.users = old.users /\ k.id = old.id
    BY <2>2, <2>5 DEF Call, Points
  <2> QED
    BY <2>2, <2>4, <2>5, <2>6, OnwardStep
<1> QED
  BY <1>1, <1>2

LEMMA LockStep ==
    ASSUME GroupsInv, NEW c \in Calls, UpsertMembers(c) \/ DeleteMember(c)
    PROVE  GroupsInv'
<1>1. CASE End(c)
  BY <1>1, EndStep
<1>2. CASE ~End(c)
  <2>1. PICK old : old = calls[c]
    OBVIOUS
  <2>2. /\ old \in Call /\ old.id \in Ids \cup {None}
        /\ old.users \subseteq Users
        /\ old.users # {} => old.id \in Ids
    BY <2>1 DEF GroupsInv, TypeOK, Call, CallOK, RowsOK
  <2>3. members \subseteq Users \X DOMAIN groups /\ DOMAIN groups \subseteq Ids
    BY DEF GroupsInv, TypeOK
  <2>4. PICK pc \in {"payload", "send"}, rows \in SUBSET (old.users \X {old.id}) :
           /\ Goto(c, [old EXCEPT !.pc = pc, !.rows = rows, !.open = TRUE])
           /\ rows # {} => old.id \in DOMAIN groups
    <3>1. CASE UpsertMembers(c)
      BY <1>2, <2>1, <3>1 DEF UpsertMembers
    <3>2. CASE DeleteMember(c)
      <4> DEFINE rows == old.users \X {old.id}
      <4>1. /\ rows \subseteq members
            /\ Goto(c, [old EXCEPT !.pc = "send", !.rows = rows, !.open = TRUE])
        BY <1>2, <2>1, <3>2 DEF DeleteMember
      <4>2. rows # {} => old.id \in DOMAIN groups
        BY <2>3, <4>1
      <4> HIDE DEF rows
      <4>3. rows \in SUBSET rows
        OBVIOUS
      <4> QED
        BY <4>1, <4>2, <4>3 DEF rows
    <3> QED
      BY <3>1, <3>2
  <2>5. PICK k : k = [old EXCEPT !.pc = pc, !.rows = rows, !.open = TRUE]
    OBVIOUS
  <2>6. rows \subseteq Users \X Ids
    BY <2>2, <2>3, <2>4
  <2>7. /\ k \in Call /\ k.pc = pc /\ k.rows = rows
        /\ k.users = old.users /\ k.id = old.id
    BY <2>2, <2>5, <2>6 DEF Call, Points
  <2> QED
    BY <2>2, <2>4, <2>5, <2>7, OnwardStep
<1> QED
  BY <1>1, <1>2

LEMMA TimeOutStep ==
    ASSUME GroupsInv, NEW c \in Calls, TimeOut(c)
    PROVE  GroupsInv'
<1>1. PICK old : old = calls[c]
  OBVIOUS
<1>2. old \in Call /\ CallOK(old)
  BY <1>1 DEF GroupsInv, TypeOK
<1>3. PICK k : k = [old EXCEPT !.open = FALSE, !.rows = {}]
  OBVIOUS
<1>4. /\ k \in Call /\ k.rows = {} /\ k.pc = old.pc /\ k.body = old.body
      /\ k.id = old.id /\ k.fresh = old.fresh /\ k.users = old.users
  BY <1>2, <1>3 DEF Call
<1>5. CallOK(k)
  BY <1>2, <1>4 DEF CallOK, BodyOK, FreshOK, RowsOK
<1>6. Goto(c, k)
  BY <1>1, <1>3 DEF TimeOut
<1> QED
  BY <1>4, <1>5, <1>6, GotoStep

-----------------------------------------------------------------------------
(* Steps that write groups. *)

LEMMA InsertStep ==
    ASSUME GroupsInv, NEW c \in Calls, InsertGroup(c)
    PROVE  GroupsInv'
<1>1. CASE End(c)
  BY <1>1, EndStep
<1>2. CASE ~End(c)
  <2>1. PICK old : old = calls[c]
    OBVIOUS
  <2>2. old \in Call /\ old.pc = "insert" /\ CallOK(old)
    BY <2>1 DEF GroupsInv, TypeOK, InsertGroup
  <2>3. PICK row : row = NewRow(old.body)
    OBVIOUS
  <2>4. /\ row \in Row
        /\ {row.parent, row.container} \subseteq DOMAIN groups \cup {None}
    BY <1>2, <2>1, <2>2, <2>3, NewRowType DEF CallOK, BodyOK, InsertGroup, RefersTo
  <2>5. PICK i \in Ids \ used :
           /\ groups' = [j \in DOMAIN groups \cup {i} |->
                            IF j = i THEN row ELSE groups[j]]
           /\ used' = used \cup {i}
           /\ placed' = IF old.fresh THEN placed \cup {i} ELSE placed
           /\ calls' = Written(c, Idle)
           /\ UNCHANGED <<members, accepted, requests>>
    BY <1>2, <2>1, <2>3 DEF InsertGroup
  <2>6. i \notin DOMAIN groups /\ DOMAIN groups' = DOMAIN groups \cup {i}
    BY <2>5 DEF GroupsInv, TypeOK
  <2>7. groups'[i] = row /\ \A j \in DOMAIN groups : groups'[j] = groups[j]
    BY <2>5, <2>6
  <2>8. calls' \in [Calls -> Call] /\ \A d \in Calls : CallOK(calls[d])'
    <3>1. \A d \in Calls : calls[d].rows # {} => calls[d].id \in DOMAIN groups'
      BY <2>6 DEF GroupsInv, CallOK, RowsOK
    <3> QED
      BY <2>5, <3>1, IdleOK, WrittenCalls
  <2>9. TypeOK'
    <3>1. groups' \in [DOMAIN groups' -> Row]
      BY <2>4, <2>5, <2>6 DEF GroupsInv, TypeOK
    <3>2. \A j \in DOMAIN groups' : {groups'[j].parent, groups'[j].container}
                                      \subseteq DOMAIN groups' \cup {None}
      BY <2>4, <2>6, <2>7 DEF GroupsInv, TypeOK
    <3> QED
      BY <2>5, <2>6, <2>8, <3>1, <3>2 DEF GroupsInv, TypeOK
  <2>10. LevelsFollowTree'
    <3>1. ASSUME NEW j \in placed', groups'[j].parent # None
          PROVE  groups'[j].level - groups'[groups'[j].parent].level \in 0 .. 3
      <4>1. CASE j = i
        <5>1. Placeable(row) /\ row.parent # None
          BY <2>2, <2>3, <2>5, <2>6, <2>7, <3>1, <4>1
             DEF CallOK, FreshOK, GroupsInv, TypeOK
        <5>2. row.parent \in DOMAIN groups /\ row.level \in Int
              /\ groups[row.parent].level \in Int
          BY <2>4, <5>1 DEF Placeable, GroupsInv, TypeOK, Row
        <5> QED
          BY <2>7, <4>1, <5>1, <5>2 DEF Placeable, LevelUnder
      <4>2. CASE j # i
        <5>1. j \in placed /\ j \in DOMAIN groups
          BY <2>5, <3>1, <4>2 DEF GroupsInv, TypeOK
        <5>2. groups[j].parent \in DOMAIN groups
          BY <2>7, <3>1, <5>1 DEF GroupsInv, TypeOK
        <5> QED
          BY <2>7, <3>1, <5>1, <5>2 DEF GroupsInv, LevelsFollowTree
      <4> QED
        BY <4>1, <4>2
    <3>2. ASSUME NEW j \in placed', groups'[j].parent = None
          PROVE  groups'[j].level = 0
      <4>1. CASE j = i
        <5>1. Placeable(row) /\ row.parent = None
          BY <2>2, <2>3, <2>5, <2>6, <2>7, <3>2, <4>1
             DEF CallOK, FreshOK, GroupsInv, TypeOK
        <5> QED
          BY <2>7, <4>1, <5>1 DEF Placeable
      <4>2. CASE j # i
        <5>1. j \in placed /\ j \in DOMAIN groups
          BY <2>5, <3>2, <4>2 DEF GroupsInv, TypeOK
        <5> QED
          BY <2>7, <3>2, <5>1 DEF GroupsInv, LevelsFollowTree
      <4> QED
        BY <4>1, <4>2
    <3> QED
      BY <3>1, <3>2 DEF LevelsFollowTree
  <2>11. MembersWereAccepted'
    BY <2>5 DEF GroupsInv, MembersWereAccepted
  <2>12. \A j \in DOMAIN groups' : groups'[j].parent # j
    BY <2>4, <2>5, <2>6, <2>7, NoValue DEF GroupsInv
  <2> QED
    BY <2>8, <2>9, <2>10, <2>11, <2>12 DEF GroupsInv
<1> QED
  BY <1>1, <1>2

LEMMA WriteStep ==
    ASSUME GroupsInv, NEW c \in Calls, WriteGroup(c)
    PROVE  GroupsInv'
<1>1. CASE End(c)
  BY <1>1, EndStep
<1>2. CASE ~End(c)
  <2>1. PICK old : old = calls[c]
    OBVIOUS
  <2>2. old \in Call /\ old.pc = "write" /\ CallOK(old)
    BY <2>1 DEF GroupsInv, TypeOK, WriteGroup
  <2>3. PICK i, row : i = old.id /\ row = Apply(old.body, groups[i])
    OBVIOUS
  <2>4. i \in DOMAIN groups /\ i \in Ids
    BY <1>2, <2>1, <2>3 DEF WriteGroup, GroupsInv, TypeOK
  <2>5. PICK body : body = old.body
    OBVIOUS
  <2>6. body \in Body /\ body.parent # i
    BY <2>2, <2>3, <2>5 DEF CallOK, BodyOK
  <2>7. /\ row \in Row
        /\ {row.parent, row.container} \subseteq DOMAIN groups \cup {None}
    BY <1>2, <2>1, <2>3, <2>4, <2>5, <2>6, ApplyType
       DEF GroupsInv, TypeOK, WriteGroup, RefersTo
  <2>8. /\ groups' = [groups EXCEPT ![i] = row]
        /\ placed' = (IF old.fresh /\ LevelChecked(body)
                      THEN placed \cup {i}
                      ELSE IF body.parent # Unset \/ body.level # Unset
                           THEN placed \ {i} ELSE placed)
                     \ (IF row.level # groups[i].level THEN Children(i) ELSE {})
        /\ calls' = Written(c, IF old.affects THEN Counting(i) ELSE Idle)
        /\ UNCHANGED <<members, accepted, used, requests>>
    BY <1>2, <2>1, <2>3, <2>4, <2>5 DEF WriteGroup
  <2>9. /\ DOMAIN groups' = DOMAIN groups
        /\ groups'[i] = row
        /\ \A j \in DOMAIN groups : j # i => groups'[j] = groups[j]
    BY <2>4, <2>8
  <2>10. calls' \in [Calls -> Call] /\ \A d \in Calls : CallOK(calls[d])'
    <3>1. \A d \in Calls : calls[d].rows # {} => calls[d].id \in DOMAIN groups'
      BY <2>9 DEF GroupsInv, CallOK, RowsOK
    <3>2. PICK k : k = IF old.affects THEN Counting(i) ELSE Idle
      OBVIOUS
    <3>3. Counting(i) \in Call /\ CallOK(Counting(i))'
      BY <2>4, IdleOK DEF Counting, Idle, Call, Ops, Points, CallOK, BodyOK,
                          FreshOK, RowsOK
    <3>4. k \in Call /\ CallOK(k)'
      BY <3>2, <3>3, IdleOK
    <3> QED
      BY <2>8, <3>1, <3>2, <3>4, WrittenCalls
  <2>11. TypeOK'
    <3>1. groups' \in [DOMAIN groups' -> Row]
      BY <2>7, <2>8, <2>9 DEF GroupsInv, TypeOK
    <3>2. \A j \in DOMAIN groups' : {groups'[j].parent, groups'[j].container}
                                      \subseteq DOMAIN groups' \cup {None}
      BY <2>7, <2>9 DEF GroupsInv, TypeOK
    <3>3. placed' \subseteq DOMAIN groups'
      BY <2>4, <2>8, <2>9 DEF GroupsInv, TypeOK
    <3> QED
      BY <2>8, <2>9, <2>10, <3>1, <3>2, <3>3 DEF GroupsInv, TypeOK
  <2>12. \A j \in DOMAIN groups' : groups'[j].parent # j
    <3>1. row.parent # i
      <4>1. row.parent = Or(body.parent, groups[i].parent)
        BY <2>3, <2>5 DEF Apply
      <4> QED
        BY <2>4, <2>6, <4>1 DEF Or, GroupsInv
    <3> QED
      BY <2>9, <3>1 DEF GroupsInv
  <2>13. i \in placed' => Placeable(row)
    <3>1. CASE old.fresh /\ LevelChecked(body)
      BY <2>2, <2>3, <2>5, <3>1 DEF CallOK, FreshOK
    <3>2. CASE ~(old.fresh /\ LevelChecked(body)) /\ i \in placed'
      <4>1. body.parent = Unset /\ body.level = Unset /\ i \in placed
        BY <2>8, <3>2
      <4>2. row.parent = groups[i].parent /\ row.level = groups[i].level
        BY <2>3, <2>5, <4>1 DEF Apply, Or
      <4>3. /\ groups[i].level \in Int
            /\ groups[i].parent # None =>
                 /\ groups[i].parent \in DOMAIN groups
                 /\ groups[groups[i].parent].level \in Int
        BY <2>4 DEF GroupsInv, TypeOK, Row
      <4> QED
        BY <4>1, <4>2, <4>3
           DEF GroupsInv, LevelsFollowTree, Placeable, LevelUnder
    <3> QED
      BY <3>1, <3>2
  <2>14. LevelsFollowTree'
    <3>1. ASSUME NEW j \in placed', groups'[j].parent # None
          PROVE  groups'[j].level - groups'[groups'[j].parent].level \in 0 .. 3
      <4>1. CASE j = i
        <5>1. Placeable(row) /\ row.parent # None /\ row.parent # i
          BY <2>4, <2>9, <2>12, <2>13, <3>1, <4>1
        <5>2. row.parent \in DOMAIN groups /\ row.level \in Int
              /\ groups[row.parent].level \in Int
          BY <2>7, <5>1 DEF Placeable, GroupsInv, TypeOK, Row
        <5> QED
          BY <2>9, <4>1, <5>1, <5>2 DEF Placeable, LevelUnder
      <4>2. CASE j # i
        <5>1. j \in placed /\ j \in DOMAIN groups
          BY <2>8, <3>1, <4>2 DEF GroupsInv, TypeOK
        <5>2. groups'[j] = groups[j] /\ groups[j].parent \in DOMAIN groups
          BY <2>9, <3>1, <4>2, <5>1 DEF GroupsInv, TypeOK
        <5>3. groups[j].level - groups[groups[j].parent].level \in 0 .. 3
          BY <3>1, <5>1, <5>2 DEF GroupsInv, LevelsFollowTree
        <5>4. groups'[groups[j].parent].level = groups[groups[j].parent].level
          BY <2>8, <2>9, <3>1, <5>1, <5>2 DEF Children
        <5> QED
          BY <5>2, <5>3, <5>4
      <4> QED
        BY <4>1, <4>2
    <3>2. ASSUME NEW j \in placed', groups'[j].parent = None
          PROVE  groups'[j].level = 0
      <4>1. CASE j = i
        BY <2>9, <2>4, <2>13, <3>2, <4>1 DEF Placeable
      <4>2. CASE j # i
        <5>1. j \in placed /\ j \in DOMAIN groups
          BY <2>8, <3>2, <4>2 DEF GroupsInv, TypeOK
        <5> QED
          BY <2>9, <3>2, <4>2, <5>1 DEF GroupsInv, LevelsFollowTree
      <4> QED
        BY <4>1, <4>2
    <3> QED
      BY <3>1, <3>2 DEF LevelsFollowTree
  <2>15. MembersWereAccepted'
    BY <2>8 DEF GroupsInv, MembersWereAccepted
  <2> QED
    BY <2>10, <2>11, <2>12, <2>14, <2>15 DEF GroupsInv
<1> QED
  BY <1>1, <1>2

\* What goes with a group: itself, and with a group its children.
LEMMA DoomedClosed ==
    ASSUME NEW i \in DOMAIN groups
    PROVE  /\ Doomed(i) \subseteq DOMAIN groups
           /\ i \in Doomed(i)
           /\ \A j \in DOMAIN groups :
                groups[j].parent \in Doomed(i) => j \in Doomed(i)
           /\ Children(i) = {} => Doomed(i) = {i}
<1>1. Doomed(i) \subseteq DOMAIN groups /\ i \in Doomed(i)
  BY DEF Doomed
<1>2. ASSUME NEW j \in DOMAIN groups, groups[j].parent \in Doomed(i),
             NEW S \in SUBSET DOMAIN groups,
             i \in S, \A k \in S : Children(k) \subseteq S
      PROVE  j \in S
  <2>1. groups[j].parent \in S
    BY <1>2 DEF Doomed
  <2> QED
    BY <1>2, <2>1 DEF Children
<1>3. ASSUME Children(i) = {}, NEW j \in Doomed(i)
      PROVE  j = i
  <2>1. {i} \in SUBSET DOMAIN groups /\ \A k \in {i} : Children(k) \subseteq {i}
    BY <1>3
  <2>2. j \in {i}
    BY <2>1 DEF Doomed
  <2> QED
    BY <2>2
<1>4. \A j \in DOMAIN groups : groups[j].parent \in Doomed(i) => j \in Doomed(i)
  BY <1>2 DEF Doomed
<1> QED
  BY <1>1, <1>3, <1>4

LEMMA EraseStep ==
    ASSUME GroupsInv, NEW c \in Calls, EraseGroup(c)
    PROVE  GroupsInv'
<1>1. CASE End(c)
  BY <1>1, EndStep
<1>2. CASE ~End(c)
  <2>1. PICK i, doomed : i = calls[c].id /\ doomed = Doomed(i)
    OBVIOUS
  <2>2. i \in DOMAIN groups
    BY <1>2, <2>1 DEF EraseGroup
  <2>3. /\ doomed \cap LockedGroups = {}
        /\ groups' = [j \in DOMAIN groups \ doomed |->
                        IF groups[j].container \in doomed
                        THEN [groups[j] EXCEPT !.container = None]
                        ELSE groups[j]]
        /\ members' = {row \in members : row[2] \notin doomed}
        /\ placed' = placed \ doomed
        /\ calls' = Written(c, Idle)
        /\ UNCHANGED <<accepted, used, requests>>
    BY <1>2, <2>1, <2>2 DEF EraseGroup
  <2>4. \A j \in DOMAIN groups : groups[j].parent \in doomed => j \in doomed
    BY <2>1, <2>2, DoomedClosed
  <2>5. DOMAIN groups' = DOMAIN groups \ doomed
    BY <2>3
  <2>6. ASSUME NEW j \in DOMAIN groups'
        PROVE  /\ groups'[j] \in Row
               /\ groups'[j].level = groups[j].level
               /\ groups'[j].parent = groups[j].parent
               /\ groups'[j].parent \in DOMAIN groups' \cup {None}
               /\ groups'[j].container \in DOMAIN groups' \cup {None}
    <3>1. /\ groups[j] \in Row /\ j \in DOMAIN groups /\ j \notin doomed
          /\ groups[j].parent \in DOMAIN groups \cup {None}
          /\ groups[j].container \in DOMAIN groups \cup {None}
      BY <2>5, <2>6 DEF GroupsInv, TypeOK
    <3>2. groups[j].parent \notin doomed
      BY <2>4, <3>1
    <3>3. groups'[j] = IF groups[j].container \in doomed
                       THEN [groups[j] EXCEPT !.container = None] ELSE groups[j]
      BY <2>3, <3>1
    <3> QED
      BY <2>5, <3>1, <3>2, <3>3 DEF Row
  <2>7. calls' \in [Calls -> Call] /\ \A d \in Calls : CallOK(calls[d])'
    <3>1. ASSUME NEW d \in Calls, calls[d].rows # {}
          PROVE  calls[d].id \in DOMAIN groups'
      <4>1. /\ calls[d].id \in DOMAIN groups
            /\ calls[d].rows \subseteq calls[d].users \X {calls[d].id}
        BY <3>1 DEF GroupsInv, CallOK, RowsOK
      <4>2. PICK row \in calls[d].rows : row[2] = calls[d].id
        BY <3>1, <4>1
      <4>3. row \in UNION {calls[e].rows : e \in Calls}
        BY <4>2
      <4>4. calls[d].id \in LockedGroups
        BY <4>2, <4>3 DEF LockedGroups
      <4> QED
        BY <2>3, <2>5, <4>1, <4>4
    <3> QED
      BY <2>3, <3>1, IdleOK, WrittenCalls
  <2>8. TypeOK'
    <3>1. groups' \in [DOMAIN groups' -> Row]
      BY <2>3, <2>5, <2>6
    <3>2. members' \subseteq Users \X DOMAIN groups'
      BY <2>3, <2>5 DEF GroupsInv, TypeOK
    <3>3. placed' \subseteq DOMAIN groups'
      BY <2>3, <2>5 DEF GroupsInv, TypeOK
    <3> QED
      <4>1. DOMAIN groups' \subseteq used' /\ used' \subseteq Ids
        BY <2>3, <2>5 DEF GroupsInv, TypeOK
      <4>2. \A j \in DOMAIN groups' : {groups'[j].parent, groups'[j].container}
                                        \subseteq DOMAIN groups' \cup {None}
        BY <2>6
      <4>3. accepted' \subseteq Users \X Ids /\ requests' \in 0 .. MaxRequests
        BY <2>3 DEF GroupsInv, TypeOK
      <4> QED
        BY <2>7, <3>1, <3>2, <3>3, <4>1, <4>2, <4>3 DEF TypeOK
  <2>9. LevelsFollowTree'
    <3>1. ASSUME NEW j \in placed'
          PROVE  /\ j \in placed /\ j \in DOMAIN groups'
                 /\ groups'[j].parent # None =>
                      groups'[groups[j].parent].level
                        = groups[groups[j].parent].level
      BY <2>3, <2>6, <2>8, <3>1 DEF TypeOK
    <3> QED
      BY <2>6, <3>1 DEF GroupsInv, LevelsFollowTree
  <2>10. MembersWereAccepted'
    BY <2>3 DEF GroupsInv, MembersWereAccepted
  <2>11. \A j \in DOMAIN groups' : groups'[j].parent # j
    BY <2>5, <2>6 DEF GroupsInv
  <2> QED
    BY <2>7, <2>8, <2>9, <2>10, <2>11 DEF GroupsInv
<1> QED
  BY <1>1, <1>2

-----------------------------------------------------------------------------
(* Steps that commit members. *)

\* A commit of memberships of groups that are there.
LEMMA CommitStep ==
    ASSUME GroupsInv, calls' \in [Calls -> Call],
           \A d \in Calls : CallOK(calls'[d]),
           members' \subseteq Users \X DOMAIN groups,
           members' \subseteq accepted',
           accepted' \subseteq Users \X Ids,
           UNCHANGED <<groups, used, requests, placed>>
    PROVE  GroupsInv'
<1>1. TypeOK'
  BY DEF GroupsInv, TypeOK
<1>2. LevelsFollowTree'
  BY DEF GroupsInv, LevelsFollowTree
<1>3. MembersWereAccepted'
  BY DEF MembersWereAccepted
<1>4. \A i \in DOMAIN groups' : groups'[i].parent # i
  BY DEF GroupsInv
<1>5. ASSUME NEW d \in Calls
      PROVE  CallOK(calls[d])'
  <2>1. PICK k : k = calls'[d]
    OBVIOUS
  <2>2. CallOK(k)
    BY <2>1
  <2>3. CallOK(k)'
    BY <2>2 DEF CallOK, BodyOK, FreshOK, RowsOK, Placeable, Children, LevelUnder
  <2> QED
    BY <2>1, <2>3
<1> QED
  BY <1>1, <1>2, <1>3, <1>4, <1>5 DEF GroupsInv

LEMMA SendMembersStep ==
    ASSUME GroupsInv, NEW c \in Calls, SendMembers(c)
    PROVE  GroupsInv'
<1>1. PICK old : old = calls[c]
  OBVIOUS
<1>2. /\ old \in Call /\ old.rows \subseteq old.users \X {old.id}
      /\ old.rows # {} => old.id \in DOMAIN groups
      /\ old.users \subseteq Users
  BY <1>1 DEF GroupsInv, TypeOK, CallOK, RowsOK, Call
<1>3. PICK ok \in BOOLEAN :
         /\ accepted' = IF ok THEN accepted \cup (old.users \X {old.id})
                        ELSE accepted
         /\ members' = IF ok THEN members \cup old.rows ELSE members
  BY <1>1 DEF SendMembers
<1>4. UNCHANGED <<groups, used, requests, placed>>
      /\ calls' = [calls EXCEPT ![c] = Idle]
  BY DEF SendMembers
<1>5. calls' \in [Calls -> Call] /\ \A d \in Calls : CallOK(calls'[d])
  BY <1>4, IdleOK DEF GroupsInv, TypeOK
<1>6. old.rows \subseteq Users \X DOMAIN groups
  BY <1>2
<1>7. members' \subseteq Users \X DOMAIN groups
  BY <1>3, <1>6 DEF GroupsInv, TypeOK
<1>8. members' \subseteq accepted'
  BY <1>2, <1>3 DEF GroupsInv, MembersWereAccepted
<1>9. accepted' \subseteq Users \X Ids
  <2>1. old.users # {} => old.id \in Ids
    BY <1>1 DEF GroupsInv, CallOK, RowsOK
  <2>2. old.users \X {old.id} \subseteq Users \X Ids
    BY <1>2, <2>1
  <2> QED
    BY <1>3, <2>2 DEF GroupsInv, TypeOK
<1> QED
  BY <1>4, <1>5, <1>7, <1>8, <1>9, CommitStep

LEMMA SendDropStep ==
    ASSUME GroupsInv, NEW c \in Calls, SendDrop(c)
    PROVE  GroupsInv'
<1>1. CASE UNCHANGED members /\ calls' = [calls EXCEPT ![c] = Idle]
  <2>1. calls' \in [Calls -> Call] /\ \A d \in Calls : CallOK(calls'[d])
    BY <1>1, IdleOK DEF GroupsInv, TypeOK
  <2> QED
    BY <1>1, <2>1, CommitStep DEF SendDrop, GroupsInv, TypeOK, MembersWereAccepted
<1>2. CASE /\ members' = members \ calls[c].rows
           /\ calls' = Dropped(c, calls[c].rows)
  <2>1. PICK rows : rows = calls[c].rows
    OBVIOUS
  <2>2. ASSUME NEW d \in Calls
        PROVE  calls'[d] \in Call /\ CallOK(calls'[d])
    <3>1. CASE d = c
      BY <1>2, <3>1, IdleOK DEF Dropped
    <3>2. CASE d # c
      <4>1. PICK k : k = calls[d]
        OBVIOUS
      <4>2. k \in Call /\ CallOK(k)
        BY <4>1 DEF GroupsInv, TypeOK
      <4>3. PICK fresh \in BOOLEAN :
               fresh = (k.fresh /\ ~(/\ k.pc = "delete"
                                     /\ k.users \X {k.id} \subseteq rows))
        OBVIOUS
      <4>4. PICK kk : kk = [k EXCEPT !.fresh = fresh]
        OBVIOUS
      <4>5. calls'[d] = kk
        BY <1>2, <2>1, <3>2, <4>1, <4>2, <4>3, <4>4 DEF Dropped, Call
      <4>6. /\ kk \in Call /\ kk.fresh = fresh /\ kk.pc = k.pc /\ kk.id = k.id
            /\ kk.body = k.body /\ kk.users = k.users /\ kk.rows = k.rows
        BY <4>2, <4>4 DEF Call
      <4>7. fresh => k.fresh
        BY <4>2, <4>3 DEF Call
      <4> QED
        BY <4>2, <4>5, <4>6, <4>7 DEF CallOK, BodyOK, FreshOK, RowsOK
    <3> QED
      BY <3>1, <3>2
  <2>3. calls' \in [Calls -> Call]
    <3>1. calls' = [d \in Calls |-> calls'[d]]
      BY <1>2 DEF Dropped
    <3> QED
      BY <2>2, <3>1
  <2> QED
    BY <1>2, <2>2, <2>3, CommitStep
       DEF SendDrop, GroupsInv, TypeOK, MembersWereAccepted
<1> QED
  BY <1>1, <1>2 DEF SendDrop

-----------------------------------------------------------------------------
(* The theorems. *)

LEMMA InvInit == Init => GroupsInv
<1> SUFFICES ASSUME Init PROVE GroupsInv
  OBVIOUS
<1>1. DOMAIN groups = {} /\ groups = [j \in {} |-> Idle]
  BY DEF Init
<1>2. calls \in [Calls -> Call] /\ \A c \in Calls : CallOK(calls[c])
  BY IdleOK DEF Init
<1>3. 0 \in 0 .. MaxRequests
  BY GroupsAssumption
<1>4. TypeOK
  BY <1>1, <1>2, <1>3 DEF Init, TypeOK
<1> QED
  BY <1>1, <1>2, <1>4
     DEF Init, GroupsInv, LevelsFollowTree, MembersWereAccepted

LEMMA InvNext == GroupsInv /\ [Next]_vars => GroupsInv'
<1> SUFFICES ASSUME GroupsInv, [Next]_vars PROVE GroupsInv'
  OBVIOUS
<1>1. CASE UNCHANGED vars
  <2>1. \A d \in Calls : CallOK(calls'[d]) /\ calls' \in [Calls -> Call]
    BY <1>1 DEF vars, GroupsInv, TypeOK
  <2> QED
    BY <1>1, <2>1, CommitStep
       DEF vars, GroupsInv, TypeOK, MembersWereAccepted
<1>2. CASE Next
  <2>1. PICK c \in Calls : CallStep(c)
    BY <1>2 DEF Next
  <2>2. CASE BeginCreate(c) \/ InsertGroup(c) \/ BeginUpdate(c) \/ WriteGroup(c)
    BY <2>2, BeginCreateStep, InsertStep, BeginUpdateStep, WriteStep
  <2>3. CASE CountMembers(c) \/ WalkChain(c) \/ ReadPayload(c)
    BY <2>3, WalkStep
  <2>4. CASE SendUpdate(c)
    BY <2>4, EndStep DEF SendUpdate
  <2>5. CASE BeginRemove(c) \/ EraseGroup(c)
    BY <2>5, BeginRemoveStep, EraseStep
  <2>6. CASE BeginAdd(c) \/ BeginDrop(c)
    BY <2>6, BeginMemberStep
  <2>7. CASE UpsertMembers(c) \/ DeleteMember(c) \/ TimeOut(c)
    BY <2>7, LockStep, TimeOutStep
  <2>8. CASE SendMembers(c) \/ SendDrop(c)
    BY <2>8, SendMembersStep, SendDropStep
  <2> QED
    BY <2>1, <2>2, <2>3, <2>4, <2>5, <2>6, <2>7, <2>8 DEF CallStep
<1> QED
  BY <1>1, <1>2

(* Nothing that requests do at once leaves a group its own parent, a       *)
(* membership of a group that has gone or a level that was checked wrong   *)
(* (organizational-groups.service.ts:634, 161-199, 295-364).               *)
THEOREM GroupsInvariant == Spec => []GroupsInv
<1>1. Init => GroupsInv
  BY InvInit
<1>2. GroupsInv /\ [Next]_vars => GroupsInv'
  BY InvNext
<1> QED
  BY <1>1, <1>2, PTL DEF Spec

(* No key of the tables refers to a group that has gone                    *)
(* (schema.prisma:407, 411, 437).                                          *)
THEOREM GroupsTypeOK == Spec => []TypeOK
<1>1. GroupsInv => TypeOK
  BY DEF GroupsInv
<1> QED
  BY <1>1, GroupsInvariant, PTL

(* A level compared with the parent's as things stood fits it until the    *)
(* parent's changes or the group is moved without a comparison             *)
(* (organizational-groups.service.ts:565-600, 741-820).                    *)
THEOREM LevelsSound == Spec => []LevelsFollowTree
<1>1. GroupsInv => LevelsFollowTree
  BY DEF GroupsInv
<1> QED
  BY <1>1, GroupsInvariant, PTL

(* Every member in the table is one LDAP has accepted                      *)
(* (organizational-groups.service.ts:299-320).                             *)
THEOREM MembersSound == Spec => []MembersWereAccepted
<1>1. GroupsInv => MembersWereAccepted
  BY DEF GroupsInv
<1> QED
  BY <1>1, GroupsInvariant, PTL

\* What a step can delete.
LEMMA CascadeStep ==
    ASSUME GroupsInv, [Next]_vars,
           Cardinality(DOMAIN groups \ DOMAIN groups') > 1
    PROVE  \E c \in Calls : calls[c].pc = "erase" /\ ~calls[c].fresh
<1>1. ASSUME \E i : DOMAIN groups \ DOMAIN groups' \subseteq {i}
      PROVE  FALSE
  <2>1. PICK i : DOMAIN groups \ DOMAIN groups' \subseteq {i}
    BY <1>1
  <2>2. DOMAIN groups \ DOMAIN groups' = {} \/ DOMAIN groups \ DOMAIN groups' = {i}
    BY <2>1
  <2>3. Cardinality({}) = 0 /\ Cardinality({i}) = 1
    BY FS_EmptySet, FS_Singleton
  <2> QED
    BY <2>2, <2>3
<1>2. PICK c \in Calls : EraseGroup(c) /\ ~End(c)
  <2>1. ASSUME DOMAIN groups' = DOMAIN groups
        PROVE  FALSE
    BY <1>1, <2>1
  <2>2. ~(UNCHANGED groups)
    BY <2>1
  <2>3. PICK c \in Calls : CallStep(c)
    BY <2>2 DEF Next, vars
  <2>4. ~End(c)
    BY <2>2 DEF End, Goto
  <2>5. CASE InsertGroup(c)
    BY <1>1, <2>4, <2>5 DEF InsertGroup
  <2>6. CASE WriteGroup(c)
    BY <2>1, <2>4, <2>6 DEF WriteGroup
  <2>7. CASE EraseGroup(c)
    BY <2>4, <2>7
  <2> QED
    BY <2>2, <2>3, <2>5, <2>6, <2>7
       DEF CallStep, BeginCreate, BeginUpdate, BeginRemove, BeginAdd, BeginDrop,
           Begin, Goto, End, CountMembers, WalkChain, SendUpdate, UpsertMembers,
           ReadPayload, SendMembers, DeleteMember, SendDrop, TimeOut
<1>3. PICK i : i = calls[c].id
  OBVIOUS
<1>4. i \in DOMAIN groups /\ DOMAIN groups' = DOMAIN groups \ Doomed(i)
  BY <1>2, <1>3 DEF EraseGroup
<1>5. CASE calls[c].fresh
  <2>1. Children(i) = {}
    BY <1>2, <1>3, <1>5 DEF GroupsInv, CallOK, FreshOK, EraseGroup
  <2>2. Doomed(i) = {i}
    BY <1>4, <2>1, DoomedClosed
  <2>3. DOMAIN groups \ DOMAIN groups' \subseteq {i}
    BY <1>4, <2>2
  <2> QED
    BY <1>1, <2>3
<1> QED
  BY <1>2, <1>5 DEF EraseGroup

(* A removal that no change of a group has overtaken deletes one group     *)
(* (organizational-groups.service.ts:180-196).                             *)
THEOREM CascadeSound == Spec => CascadeOnlyAfterChange
<1>1. GroupsInv /\ [Next]_vars =>
        [Cardinality(DOMAIN groups \ DOMAIN groups') > 1 =>
          \E c \in Calls : calls[c].pc = "erase" /\ ~calls[c].fresh]_vars
  BY CascadeStep
<1> QED
  BY <1>1, GroupsInvariant, PTL DEF Spec, CascadeOnlyAfterChange

=============================================================================
