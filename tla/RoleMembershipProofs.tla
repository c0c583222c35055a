------------------------ MODULE RoleMembershipProofs ------------------------
(***************************************************************************)
(* Roles and who has them, for any number of roles, users, areas, names,   *)
(* rows and concurrent handlers, and any requests.                         *)
(*                                                                         *)
(* RolesInv is inductive.  LocalStep covers the steps that change the      *)
(* locals of one handler, and what LDAP knows; TableStep those that commit *)
(* and end.  Both leave the locals of the other handlers Alike, and say    *)
(* what the tables must keep for these to stay as they should be.  The     *)
(* directory is right because LDAP is told by a name that only the role    *)
(* can have (OnlyByName), and because a rename is told while the lock of   *)
(* the role keeps assignments out (Apart).                                 *)
(***************************************************************************)
EXTENDS RoleMembership, TLAPS

-----------------------------------------------------------------------------
(* Values. *)

\* The fields of the locals of a handler.
LEMMA CallFields ==
    ASSUME NEW k \in Call
    PROVE  /\ k.op \in Ops /\ k.pc \in Points
           /\ k.id \in Ids \cup {None} /\ k.read \in Role \cup {None}
           /\ k.area \in Areas \cup {None} /\ k.user \in Users \cup {None}
           /\ k.body \in Body \cup {None} /\ k.want \subseteq Item
           /\ k.todo \subseteq Item /\ k.told \subseteq Item
           /\ k.item \in Item \cup {None} /\ k.sure \in BOOLEAN
           /\ k.fresh \in BOOLEAN /\ k.open \in BOOLEAN
           /\ k.added \subseteq Row /\ k.gone \subseteq Row
           /\ k.row \in Role \cup {None}
           /\ k.cut \subseteq Ids \X Areas /\ k.put \subseteq Ids \X Areas
BY DEF Call

LEMMA IdleOK ==
    /\ Idle \in Call /\ CallOK(Idle) /\ CallOK(Idle)'
    /\ Idle.pc = "idle" /\ Idle.added = {} /\ Idle.gone = {} /\ ~Wrote(Idle)
    /\ Idle.open = FALSE
BY DEF Idle, Call, Ops, Points, CallOK, Shape, AddedOK, GoneOK, WroteOK, SureOK,
       Wrote

\* A role that has been written is no null.
LEMMA WroteRow ==
    ASSUME NEW k \in Call, Wrote(k)
    PROVE  k.row \in Role /\ k.row.name \in Names
BY DEF Call, Wrote, Role

\* A handler at renamed holds the lock of its role.
LEMMA RenamedWrote ==
    ASSUME NEW k \in Call, Shape(k), k.pc = "renamed"
    PROVE  Wrote(k)
BY DEF Shape, Wrote

-----------------------------------------------------------------------------
(* What a step may do to the locals of the other handlers. *)

Alike(k, kk) ==
    /\ kk \in Call
    /\ kk.op = k.op /\ kk.pc = k.pc /\ kk.id = k.id /\ kk.read = k.read
    /\ kk.area = k.area /\ kk.user = k.user /\ kk.body = k.body
    /\ kk.want = k.want /\ kk.todo = k.todo /\ kk.told = k.told
    /\ kk.item = k.item /\ kk.open = k.open /\ kk.added = k.added
    /\ kk.gone = k.gone /\ kk.row = k.row /\ kk.cut = k.cut /\ kk.put = k.put
    /\ kk.sure => k.sure
    /\ kk.fresh => k.fresh

\* What the tables must keep for the locals k, from here on kk.
Kept(k, kk) ==
    /\ \A row \in k.added : row.of.role \in DOMAIN roles'
    /\ k.gone \subseteq members'
    /\ kk.fresh /\ k.op = "replace" =>
         {row \in members' : row.of.user = k.user}
           \subseteq {row \in members : row.of.user = k.user}
    /\ Wrote(k) => /\ k.id \in DOMAIN roles' /\ roles'[k.id] = roles[k.id]
                   /\ NameFree(k.row.name, k.id)'
                   /\ AreasOf(k.id)' = AreasOf(k.id)
    /\ k.pc = "insert" /\ kk.sure =>
         \A row \in Rows' : row.of = k.item => row \in Rows

LEMMA AlikeRefl ==
    ASSUME NEW k \in Call
    PROVE  Alike(k, k)
BY DEF Alike

LEMMA AlikeShape ==
    ASSUME NEW k \in Call, NEW kk, Shape(k), Alike(k, kk)
    PROVE  Shape(kk)
BY DEF Shape, Alike

LEMMA AlikeOK ==
    ASSUME NEW k \in Call, NEW kk, CallOK(k), Alike(k, kk), Kept(k, kk)
    PROVE  CallOK(kk)'
<1>1. Shape(kk)'
  <2>1. Shape(kk)
    BY AlikeShape DEF CallOK
  <2> QED
    BY <2>1 DEF Shape
<1>2. AddedOK(kk)'
  BY DEF CallOK, AddedOK, Alike, Kept
<1>3. GoneOK(kk)'
  <2>1. kk.gone \subseteq members'
    BY DEF Alike, Kept
  <2>2. kk.op = "unassign" /\ kk.pc = "send" /\ kk.open
          /\ kk.read.scope = "GLOBAL" => \A i \in kk.told : Has(kk.gone, i)
    BY DEF CallOK, GoneOK, Alike
  <2>3. ASSUME kk.op = "replace", kk.fresh
        PROVE  {row \in members' : row.of.user = kk.user} \subseteq kk.gone
    BY <2>3 DEF CallOK, GoneOK, Alike, Kept
  <2> QED
    BY <2>1, <2>2, <2>3 DEF GoneOK, Has
<1>4. WroteOK(kk)'
  <2>1. ASSUME Wrote(kk)
        PROVE  /\ kk.id \in DOMAIN roles'
               /\ NameFree(kk.row.name, kk.id)'
               /\ kk.pc \in {"name", "send", "renamed", "commit"} =>
                    IF Recuts(kk, kk.row)
                    THEN /\ kk.cut = AreasOf(kk.id)'
                         /\ kk.put = {kk.id} \X kk.body.areas
                    ELSE kk.cut = {} /\ kk.put = {}
               /\ kk.pc = "areas" => Recuts(kk, kk.row)
    <3>1. Wrote(k)
      BY <2>1 DEF Alike, Wrote
    <3>2. /\ k.id \in DOMAIN roles' /\ NameFree(k.row.name, k.id)'
          /\ AreasOf(k.id)' = AreasOf(k.id)
      BY <3>1 DEF Kept
    <3>3. /\ k.pc \in {"name", "send", "renamed", "commit"} =>
               IF Recuts(k, k.row)
               THEN k.cut = AreasOf(k.id) /\ k.put = {k.id} \X k.body.areas
               ELSE k.cut = {} /\ k.put = {}
          /\ k.pc = "areas" => Recuts(k, k.row)
      BY <3>1 DEF CallOK, WroteOK
    <3>4. Recuts(kk, kk.row) = Recuts(k, k.row)
      BY DEF Recuts, Alike
    <3>5. /\ kk.id = k.id /\ kk.row = k.row /\ kk.pc = k.pc /\ kk.cut = k.cut
          /\ kk.put = k.put /\ kk.body = k.body
      BY DEF Alike
    <3> QED
      BY <3>2, <3>3, <3>4, <3>5
  <2> QED
    BY <2>1 DEF WroteOK, Wrote, Recuts
<1>5. SureOK(kk)'
  <2>1. ASSUME kk.pc = "insert", kk.sure, NEW row \in Rows', row.of = kk.item
        PROVE  row \in kk.gone \ kk.added
    <3>1. k.pc = "insert" /\ k.sure /\ row.of = k.item
      BY <2>1 DEF Alike
    <3>2. row \in Rows
      BY <2>1, <3>1 DEF Kept
    <3> QED
      BY <3>1, <3>2 DEF CallOK, SureOK, Alike
  <2> QED
    BY <2>1 DEF SureOK
<1> QED
  BY <1>1, <1>2, <1>3, <1>4, <1>5 DEF CallOK

LEMMA AlikeApart ==
    ASSUME NEW j \in Call, NEW k \in Call, NEW jj, NEW kk,
           Alike(j, jj), Alike(k, kk), Apart(j, k), WroteOK(j),
           Wrote(j) => j.id \in DOMAIN roles' /\ roles'[j.id] = roles[j.id]
    PROVE  Apart(jj, kk)'
<1>1. /\ jj.id = j.id /\ jj.row = j.row /\ jj.added = j.added
      /\ jj.gone = j.gone /\ jj.open = j.open
      /\ kk.id = k.id /\ kk.row = k.row /\ kk.added = k.added
      /\ kk.gone = k.gone /\ kk.open = k.open
  BY DEF Alike
<1>2. Rekeys(jj)' => Rekeys(j)
  BY <1>1 DEF Rekeys, Wrote, WroteOK
<1> QED
  BY <1>1, <1>2 DEF Apart, Wrote, Clash

\* A handler without rows of its own or a written role is in nobody's way.
LEMMA ApartFree ==
    ASSUME NEW j, NEW k, k.added = {}, k.gone = {}, ~Wrote(k)
    PROVE  Apart(j, k)' /\ Apart(k, j)'
BY DEF Apart, Rekeys, Wrote

-----------------------------------------------------------------------------
(* Names. *)

\* A name changes only with the role or with a rename under way.
LEMMA ListedSame ==
    ASSUME NEW r, NEW n,
           \A c \in Calls : Renames(calls'[c], r) = Renames(calls[c], r),
           \A c \in Calls : Renames(calls[c], r) =>
                              calls'[c].row = calls[c].row,
           roles'[r] = roles[r]
    PROVE  Listed(r, n)' = Listed(r, n)
BY DEF Listed, Renames

\* A role goes by the name of another in the table only if it is that role.
LEMMA OnlyByName ==
    ASSUME RolesInv, NEW r \in DOMAIN roles, NEW i \in DOMAIN roles,
           Listed(r, roles[i].name)
    PROVE  r = i
<1>1. CASE roles[r].name = roles[i].name
  BY <1>1 DEF RolesInv
<1>2. CASE \E c \in Calls : Renames(calls[c], r)
                              /\ calls[c].row.name = roles[i].name
  <2>1. PICK c \in Calls : Renames(calls[c], r)
                             /\ calls[c].row.name = roles[i].name
    BY <1>2
  <2>2. PICK k : k = calls[c]
    OBVIOUS
  <2>3. k \in Call /\ CallOK(k) /\ k.pc = "renamed" /\ k.id = r
    BY <2>1, <2>2 DEF RolesInv, TypeOK, Renames
  <2>4. Wrote(k)
    BY <2>3, RenamedWrote DEF CallOK
  <2>5. NameFree(k.row.name, r)
    BY <2>3, <2>4 DEF CallOK, WroteOK
  <2> QED
    BY <2>1, <2>2, <2>5 DEF NameFree
<1> QED
  BY <1>1, <1>2 DEF Listed

-----------------------------------------------------------------------------
(* The shape of steps. *)

\* All of TypeOK but the locals of the handlers.
TablesOK ==
    /\ DOMAIN roles \subseteq DOMAIN asked
    /\ DOMAIN asked \subseteq Ids
    /\ roles \in [DOMAIN roles -> Role]
    /\ asked \in [DOMAIN asked -> SUBSET Areas]
    /\ offers \subseteq (DOMAIN roles) \X Areas
    /\ members \subseteq Row
    /\ \A row \in members : row.of.role \in DOMAIN roles
    /\ ldap \subseteq Users \X Names \X (Areas \cup {None})
    /\ astray \subseteq Ids
    /\ requests \in 0 .. MaxRequests

\* What the rows of one handler may be next to those in the table.
RowsFit(k) ==
    /\ \A row \in members, x \in k.added : Clash(row, x) => row \in k.gone
    /\ \A row, x \in k.added : Clash(row, x) => row = x

ScopesOK == \A row \in members : Known(row) => roles[row.of.role].scope = "GLOBAL"

NamesDiffer == \A r, q \in DOMAIN roles : roles[r].name = roles[q].name => r = q

\* A step after which one handler has the locals call and the others theirs.
LEMMA AnyStep ==
    ASSUME RolesInv, NEW c \in Calls, NEW call \in Call,
           calls' \in [Calls -> Call], calls'[c] = call,
           CallOK(call)', RowsFit(call)',
           TablesOK', DirectoryKnowsMembers', ScopesOK', AreasOfLastUpdate',
           NamesDiffer',
           \A row, x \in members' : Clash(row, x) => row = x,
           \A d \in Calls \ {c} : \A k, kk :
              k = calls[d] /\ kk = calls'[d] =>
                 /\ Alike(k, kk) /\ Kept(k, kk)
                 /\ \A row \in members' \ members, x \in k.added :
                       ~Clash(row, x)
                 /\ Apart(call, kk)' /\ Apart(kk, call)'
    PROVE  RolesInv'
<1>1. TypeOK'
  BY DEF TypeOK, TablesOK
<1>2. ASSUME NEW d \in Calls
      PROVE  CallOK(calls[d])'
  <2>1. CASE d = c
    BY <2>1
  <2>2. CASE d # c
    <3>1. PICK k, kk : k = calls[d] /\ kk = calls'[d]
      OBVIOUS
    <3>2. k \in Call /\ CallOK(k)
      BY <3>1 DEF RolesInv, TypeOK
    <3>3. CallOK(kk)'
      BY <2>2, <3>1, <3>2, AlikeOK
    <3> QED
      BY <3>1, <3>3
  <2> QED
    BY <2>1, <2>2
<1>3. ASSUME NEW d \in Calls, NEW e \in Calls, d # e
      PROVE  Apart(calls[d], calls[e])'
  <2>1. CASE d = c \/ e = c
    <3>1. PICK f : f \in Calls \ {c} /\ {d, e} = {c, f}
      BY <1>3, <2>1
    <3>2. PICK kk : kk = calls'[f]
      OBVIOUS
    <3>3. Apart(call, kk)' /\ Apart(kk, call)'
      BY <3>1, <3>2
    <3> QED
      BY <1>3, <3>1, <3>2, <3>3
  <2>2. CASE d # c /\ e # c
    <3>1. PICK j, jj : j = calls[d] /\ jj = calls'[d]
      OBVIOUS
    <3>2. PICK k, kk : k = calls[e] /\ kk = calls'[e]
      OBVIOUS
    <3>3. j \in Call /\ k \in Call /\ WroteOK(j) /\ Apart(j, k)
      BY <1>3, <3>1, <3>2 DEF RolesInv, TypeOK, CallOK
    <3>4. Alike(j, jj) /\ Alike(k, kk) /\ Kept(j, jj)
      BY <2>2, <3>1, <3>2
    <3>5. Apart(jj, kk)'
      BY <3>3, <3>4, AlikeApart DEF Kept
    <3> QED
      BY <3>1, <3>2, <3>5
  <2> QED
    BY <2>1, <2>2
<1>4. ASSUME NEW d \in Calls
      PROVE  RowsFit(calls[d])'
  <2>1. CASE d = c
    BY <2>1
  <2>2. CASE d # c
    <3>1. PICK k, kk : k = calls[d] /\ kk = calls'[d]
      OBVIOUS
    <3>2. kk.added = k.added /\ kk.gone = k.gone
      BY <2>2, <3>1 DEF Alike
    <3>3. RowsFit(k)
      BY <3>1 DEF RolesInv, RowsOK, RowsFit
    <3>4. \A row \in members' \ members, x \in k.added : ~Clash(row, x)
      BY <2>2, <3>1
    <3>5. RowsFit(kk)'
      BY <3>2, <3>3, <3>4 DEF RowsFit, Clash
    <3> QED
      BY <3>1, <3>5
  <2> QED
    BY <2>1, <2>2
<1>5. RowsOK'
  BY <1>4 DEF RowsOK, RowsFit, Clash
<1> QED
  BY <1>1, <1>2, <1>3, <1>5 DEF RolesInv, ScopesOK, NamesDiffer, Known

\* A step that changes the locals of one handler, and what LDAP is told.
LEMMA LocalStep ==
    ASSUME RolesInv, NEW c \in Calls, NEW call \in Call, CallOK(call),
           calls' = [calls EXCEPT ![c] = call],
           call.added \subseteq calls[c].added, RowsFit(call),
           \A d \in Calls \ {c} :
              Apart(call, calls[d]) /\ Apart(calls[d], call),
           UNCHANGED <<roles, offers, members, asked>>,
           ldap' \subseteq Users \X Names \X (Areas \cup {None}),
           astray \subseteq astray', astray' \subseteq Ids,
           requests' \in 0 .. MaxRequests,
           DirectoryKnowsMembers'
    PROVE  RolesInv'
<1>1. calls \in [Calls -> Call]
  BY DEF RolesInv, TypeOK
<1>2. /\ calls' \in [Calls -> Call] /\ calls'[c] = call
      /\ \A d \in Calls \ {c} : calls'[d] = calls[d]
  BY <1>1
<1>3. \A row \in Rows' : row \in Rows
  <2>1. \A d \in Calls : calls'[d].added \subseteq calls[d].added
    BY <1>2
  <2> QED
    BY <2>1 DEF Rows
<1>4. CallOK(call)'
  BY <1>3 DEF CallOK, Shape, AddedOK, GoneOK, Has, WroteOK, Wrote, NameFree, Recuts,
              AreasOf, SureOK
<1>5. RowsFit(call)'
  BY DEF RowsFit, Clash
<1>6. TablesOK' /\ AreasOfLastUpdate' /\ NamesDiffer'
  BY DEF RolesInv, TypeOK, TablesOK, AreasOfLastUpdate, AreasOf, NamesDiffer
<1>7. ScopesOK'
  BY DEF RolesInv, ScopesOK, Known
<1>8. \A row, x \in members' : Clash(row, x) => row = x
  BY DEF RolesInv, RowsOK
<1>9. ASSUME NEW d \in Calls \ {c}, NEW k, NEW kk, k = calls[d], kk = calls'[d]
      PROVE  /\ Alike(k, kk) /\ Kept(k, kk)
             /\ \A row \in members' \ members, x \in k.added : ~Clash(row, x)
             /\ Apart(call, kk)' /\ Apart(kk, call)'
  <2>1. kk = k /\ k \in Call /\ CallOK(k)
    BY <1>2, <1>9 DEF RolesInv, TypeOK
  <2>2. Alike(k, kk)
    BY <2>1, AlikeRefl
  <2>3. Kept(k, kk)
    BY <1>3, <2>1 DEF Kept, CallOK, AddedOK, GoneOK, WroteOK, NameFree, AreasOf
  <2>4. Apart(call, k) /\ Apart(k, call)
    BY <1>9
  <2>5. Apart(call, kk)' /\ Apart(kk, call)'
    BY <2>1, <2>4 DEF Apart, Clash, Wrote, Rekeys
  <2> QED
    BY <2>2, <2>3, <2>5
<1> QED
  BY <1>2, <1>4, <1>5, <1>6, <1>7, <1>8, <1>9, AnyStep

\* A step of which LDAP learns nothing.  A rename under way that ends has gone
\* astray.
LEMMA QuietStep ==
    ASSUME RolesInv, NEW c \in Calls, NEW call \in Call, CallOK(call),
           calls' = [calls EXCEPT ![c] = call],
           call.added \subseteq calls[c].added, RowsFit(call),
           \A d \in Calls \ {c} :
              Apart(call, calls[d]) /\ Apart(calls[d], call),
           UNCHANGED <<roles, offers, members, asked, ldap>>,
           astray \subseteq astray', astray' \subseteq Ids,
           calls[c].pc = "renamed" => calls[c].id \in astray',
           call.pc # "renamed",
           requests' \in 0 .. MaxRequests
    PROVE  RolesInv'
<1>1. calls \in [Calls -> Call]
  BY DEF RolesInv, TypeOK
<1>2. ASSUME NEW row \in members, NEW n \in Names, Known(row)',
             Listed(row.of.role, n)'
      PROVE  <<row.of.user, n, None>> \in ldap
  <2>1. Known(row) /\ row.of.role \notin astray'
    BY <1>2 DEF Known
  <2>2. PICK r : r = row.of.role
    OBVIOUS
  <2>3. ~Renames(calls[c], r) /\ ~Renames(call, r)
    BY <2>1, <2>2 DEF Renames
  <2>4. /\ \A d \in Calls : Renames(calls'[d], r) = Renames(calls[d], r)
        /\ \A d \in Calls : Renames(calls[d], r) => calls'[d].row = calls[d].row
    <3>1. calls'[c] = call /\ \A d \in Calls \ {c} : calls'[d] = calls[d]
      BY <1>1
    <3>2. ASSUME NEW d \in Calls
          PROVE  /\ Renames(calls'[d], r) = Renames(calls[d], r)
                 /\ Renames(calls[d], r) => calls'[d].row = calls[d].row
      <4>1. CASE d = c
        BY <2>3, <3>1, <4>1 DEF Renames
      <4>2. CASE d # c
        BY <3>1, <4>2
      <4> QED
        BY <4>1, <4>2
    <3> QED
      BY <3>2
  <2>5. Listed(r, n)' = Listed(r, n)
    BY <2>4, ListedSame
  <2>6. Listed(r, n)
    BY <1>2, <2>2, <2>5
  <2> QED
    BY <2>1, <2>2, <2>6 DEF RolesInv, DirectoryKnowsMembers
<1>3. DirectoryKnowsMembers'
  BY <1>2 DEF DirectoryKnowsMembers
<1>4. ldap' \subseteq Users \X Names \X (Areas \cup {None})
  BY DEF RolesInv, TypeOK
<1> QED
  BY <1>3, <1>4, LocalStep

\* A handler that has neither rows nor a role of its own.
LEMMA FreeStep ==
    ASSUME RolesInv, NEW c \in Calls, NEW call \in Call, CallOK(call),
           calls' = [calls EXCEPT ![c] = call],
           call.added = {}, call.gone = {}, ~Wrote(call),
           UNCHANGED <<roles, offers, members, asked, ldap>>,
           astray \subseteq astray', astray' \subseteq Ids,
           calls[c].pc = "renamed" => calls[c].id \in astray',
           call.pc # "renamed",
           requests' \in 0 .. MaxRequests
    PROVE  RolesInv'
<1>1. RowsFit(call)
  BY DEF RowsFit
<1>2. \A d \in Calls \ {c} : Apart(call, calls[d]) /\ Apart(calls[d], call)
  BY DEF Apart, Rekeys
<1> QED
  BY <1>1, <1>2, QuietStep

LEMMA BeginStep ==
    ASSUME RolesInv, NEW c \in Calls, NEW call \in Call, CallOK(call),
           call.added = {}, call.gone = {}, ~Wrote(call), call.pc # "renamed",
           Begin(c, call)
    PROVE  RolesInv'
<1>1. requests' \in 0 .. MaxRequests
  BY RolesAssumption DEF RolesInv, TypeOK, Begin
<1>2. calls[c].pc # "renamed"
  BY IdleOK DEF Begin
<1>3. astray' \subseteq Ids
  BY DEF RolesInv, TypeOK, Begin
<1> QED
  BY <1>1, <1>2, <1>3, FreeStep DEF Begin

LEMMA EndStep ==
    ASSUME RolesInv, NEW c \in Calls, End(c), calls[c].pc # "renamed"
    PROVE  RolesInv'
<1>1. requests' \in 0 .. MaxRequests /\ astray' \subseteq Ids
  BY DEF RolesInv, TypeOK, End, Goto
<1> QED
  BY <1>1, IdleOK, FreeStep DEF End, Goto

\* A handler that goes on with the rows and the role it has.
LEMMA GotoStep ==
    ASSUME RolesInv, NEW c \in Calls, NEW call \in Call, CallOK(call),
           Goto(c, call), call.pc # "renamed", calls[c].pc # "renamed",
           call.added = calls[c].added, call.gone = calls[c].gone,
           call.row = calls[c].row, call.id = calls[c].id,
           call.open = calls[c].open
    PROVE  RolesInv'
<1>1. requests' \in 0 .. MaxRequests /\ astray' \subseteq Ids
  BY DEF RolesInv, TypeOK, Goto
<1>2. RowsFit(call)
  BY DEF RolesInv, RowsOK, RowsFit
<1>3. ASSUME NEW d \in Calls \ {c}
      PROVE  Apart(call, calls[d]) /\ Apart(calls[d], call)
  <2>1. Apart(calls[c], calls[d]) /\ Apart(calls[d], calls[c])
    BY <1>3 DEF RolesInv
  <2> QED
    BY <2>1 DEF Apart, Rekeys, Wrote
<1> QED
  BY <1>1, <1>2, <1>3, QuietStep DEF Goto

-----------------------------------------------------------------------------
(* Handlers that commit. *)

LEMMA CommittedAlike ==
    ASSUME RolesInv, NEW c \in Calls, NEW rows, calls' = Committed(c, rows)
    PROVE  /\ calls' \in [Calls -> Call] /\ calls'[c] = Idle
           /\ \A d \in Calls \ {c} : \A k, kk :
                 k = calls[d] /\ kk = calls'[d] =>
                   /\ Alike(k, kk)
                   /\ kk.fresh => \A row \in rows : row.of.user # k.user
<1>1. ASSUME NEW d \in Calls \ {c}, NEW k, NEW kk, k = calls[d], kk = calls'[d]
      PROVE  /\ Alike(k, kk)
             /\ kk.fresh => \A row \in rows : row.of.user # k.user
  <2>1. k \in Call
    BY <1>1 DEF RolesInv, TypeOK
  <2>2. PICK fresh : fresh = (k.fresh /\ \A row \in rows : row.of.user # k.user)
    OBVIOUS
  <2>3. fresh \in BOOLEAN
    BY <2>2
  <2>4. kk = [k EXCEPT !.fresh = fresh]
    BY <1>1, <2>1, <2>2 DEF Committed, Call
  <2>5. Alike(k, kk) /\ kk.fresh = fresh
    <3>1. kk \in Call /\ kk.fresh = fresh
      BY <2>1, <2>3, <2>4 DEF Call
    <3>2. /\ kk.op = k.op /\ kk.pc = k.pc /\ kk.id = k.id /\ kk.read = k.read
          /\ kk.area = k.area /\ kk.user = k.user /\ kk.body = k.body
          /\ kk.want = k.want /\ kk.todo = k.todo /\ kk.told = k.told
          /\ kk.item = k.item /\ kk.open = k.open /\ kk.added = k.added
          /\ kk.gone = k.gone /\ kk.row = k.row /\ kk.cut = k.cut
          /\ kk.put = k.put /\ kk.sure = k.sure
      BY <2>1, <2>4 DEF Call
    <3> QED
      BY <2>2, <3>1, <3>2 DEF Alike
  <2> QED
    BY <2>2, <2>5
<1>2. \A d \in Calls : calls'[d] \in Call
  <2>1. calls'[c] = Idle
    BY DEF Committed
  <2> QED
    BY <1>1, <2>1, IdleOK DEF Alike
<1> QED
  BY <1>1, <1>2 DEF Committed

\* A handler writes tables, commits and ends.
LEMMA TableStep ==
    ASSUME RolesInv, NEW c \in Calls, NEW rows, calls' = Committed(c, rows),
           TablesOK', DirectoryKnowsMembers', ScopesOK', AreasOfLastUpdate',
           NamesDiffer',
           \A row, x \in members' : Clash(row, x) => row = x,
           \A row \in members' : row \in members \cup rows,
           \A d \in Calls \ {c} : \A k : k = calls[d] =>
              /\ \A row \in k.added : row.of.role \in DOMAIN roles'
              /\ k.gone \subseteq members'
              /\ Wrote(k) => /\ k.id \in DOMAIN roles'
                             /\ roles'[k.id] = roles[k.id]
                             /\ NameFree(k.row.name, k.id)'
                             /\ AreasOf(k.id)' = AreasOf(k.id)
              /\ \A row \in members' \ members, x \in k.added : ~Clash(row, x),
           rows \subseteq calls[c].added
    PROVE  RolesInv'
<1>1. /\ calls' \in [Calls -> Call] /\ calls'[c] = Idle
      /\ \A d \in Calls \ {c} : \A k, kk :
            k = calls[d] /\ kk = calls'[d] =>
              /\ Alike(k, kk)
              /\ kk.fresh => \A row \in rows : row.of.user # k.user
  BY CommittedAlike
<1>2. \A row \in Rows' : row \in Rows
  <2>1. \A d \in Calls : calls'[d].added \subseteq calls[d].added
    BY <1>1, IdleOK DEF Alike
  <2> QED
    BY <2>1 DEF Rows
<1>3. ASSUME NEW d \in Calls \ {c}, NEW k, NEW kk, k = calls[d], kk = calls'[d]
      PROVE  /\ Alike(k, kk) /\ Kept(k, kk)
             /\ \A row \in members' \ members, x \in k.added : ~Clash(row, x)
             /\ Apart(Idle, kk)' /\ Apart(kk, Idle)'
  <2>1. Alike(k, kk) /\ (kk.fresh => \A row \in rows : row.of.user # k.user)
    BY <1>1, <1>3
  <2>2. Kept(k, kk)
    BY <1>2, <1>3, <2>1 DEF Kept
  <2>3. Apart(Idle, kk)' /\ Apart(kk, Idle)'
    BY IdleOK, ApartFree
  <2> QED
    BY <1>3, <2>1, <2>2, <2>3
<1>4. RowsFit(Idle)'
  BY IdleOK DEF RowsFit
<1> QED
  BY <1>1, <1>3, <1>4, IdleOK, AnyStep

\* Names as LDAP knows them after a commit that changes no role in question.
LEMMA CommittedListed ==
    ASSUME RolesInv, NEW c \in Calls, NEW rows, calls' = Committed(c, rows),
           NEW r, NEW n, roles'[r] = roles[r], ~Renames(calls[c], r)
    PROVE  Listed(r, n)' = Listed(r, n)
<1>1. /\ calls'[c] = Idle
      /\ \A d \in Calls \ {c} : \A k, kk :
            k = calls[d] /\ kk = calls'[d] => Alike(k, kk)
  BY CommittedAlike
<1>2. ASSUME NEW d \in Calls
      PROVE  /\ Renames(calls'[d], r) = Renames(calls[d], r)
             /\ Renames(calls[d], r) => calls'[d].row = calls[d].row
  <2>1. CASE d = c
    BY <1>1, <2>1, IdleOK DEF Renames
  <2>2. CASE d # c
    BY <1>1, <2>2 DEF Renames, Alike
  <2> QED
    BY <2>1, <2>2
<1> QED
  BY <1>2, ListedSame

-----------------------------------------------------------------------------
(* Requests begin. *)

\* The locals of a handler that has done nothing yet.
LEMMA BlankOK ==
    ASSUME NEW k \in Call, Shape(k), k.added = {}, k.gone = {}, k.row = None,
           k.fresh = FALSE, k.pc \notin {"insert", "send"}
    PROVE  CallOK(k) /\ ~Wrote(k)
BY DEF CallOK, AddedOK, GoneOK, WroteOK, SureOK, Wrote

LEMMA ItemsType ==
    ASSUME RolesInv, NEW r \in DOMAIN roles, NEW users \in SUBSET Users,
           NEW area \in Areas
    PROVE  /\ r \in Ids /\ roles[r] \in Role
           /\ ItemsFor(r, users, area) \subseteq Item
           /\ \A i \in ItemsFor(r, users, area) :
                 i.role = r /\ (i.area = None) = (roles[r].scope = "GLOBAL")
<1>1. r \in Ids /\ roles[r] \in Role
  BY DEF RolesInv, TypeOK
<1>2. area # None
  BY RolesAssumption
<1> QED
  BY <1>1, <1>2 DEF ItemsFor, Item

LEMMA WantedType ==
    ASSUME NEW u \in Users, NEW W \in Wanted
    PROVE  /\ WantedBy(u, W) \subseteq Item
           /\ \A i \in WantedBy(u, W) : i.user = u
<1>1. W \subseteq Ids \X (Areas \cup {None})
  BY RolesAssumption
<1> QED
  BY <1>1 DEF WantedBy, Item

LEMMA BeginAssignStep ==
    ASSUME RolesInv, NEW c \in Calls, BeginAssign(c)
    PROVE  RolesInv'
<1>1. PICK r \in DOMAIN roles, users \in SUBSET Users, area \in Areas :
         Begin(c, [Idle EXCEPT !.op = "assign", !.pc = "look", !.id = r,
                     !.read = roles[r], !.open = TRUE,
                     !.todo = ItemsFor(r, users, area),
                     !.told = ItemsFor(r, users, area)])
  BY DEF BeginAssign
<1>2. PICK items, read : items = ItemsFor(r, users, area) /\ read = roles[r]
  OBVIOUS
<1>3. /\ r \in Ids /\ read \in Role /\ items \subseteq Item
      /\ \A i \in items : i.role = r /\ (i.area = None) = (read.scope = "GLOBAL")
  BY <1>2, ItemsType
<1>4. PICK k : k = [Idle EXCEPT !.op = "assign", !.pc = "look", !.id = r,
                      !.read = read, !.open = TRUE, !.todo = items,
                      !.told = items]
  OBVIOUS
<1>5. k \in Call /\ k.added = {} /\ k.gone = {} /\ k.row = None
      /\ k.fresh = FALSE /\ k.pc = "look"
  BY <1>3, <1>4 DEF Idle, Call, Ops, Points
<1>6. Shape(k)
  BY <1>3, <1>4 DEF Idle, Shape
<1>7. Begin(c, k)
  BY <1>1, <1>2, <1>4
<1> QED
  BY <1>5, <1>6, <1>7, BlankOK, BeginStep

LEMMA BeginUnassignStep ==
    ASSUME RolesInv, NEW c \in Calls, BeginUnassign(c)
    PROVE  RolesInv'
<1>1. PICK r \in DOMAIN roles, u \in Users, area \in Areas :
         Begin(c, [Idle EXCEPT !.op = "unassign", !.pc = "delete", !.id = r,
                     !.read = roles[r], !.open = TRUE,
                     !.told = ItemsFor(r, {u}, area)])
  BY DEF BeginUnassign
<1>2. PICK items, read : items = ItemsFor(r, {u}, area) /\ read = roles[r]
  OBVIOUS
<1>3. /\ r \in Ids /\ read \in Role /\ items \subseteq Item
      /\ \A i \in items : i.role = r /\ (i.area = None) = (read.scope = "GLOBAL")
  BY <1>2, ItemsType
<1>4. \E i \in Item : items = {i}
  <2>1. PICK i : i = [user |-> u, role |-> r,
                      area |-> IF read.scope = "GLOBAL" THEN None ELSE area]
    OBVIOUS
  <2>2. items = {i}
    BY <1>2, <2>1 DEF ItemsFor
  <2> QED
    BY <1>3, <2>2
<1>5. PICK k : k = [Idle EXCEPT !.op = "unassign", !.pc = "delete", !.id = r,
                      !.read = read, !.open = TRUE, !.told = items]
  OBVIOUS
<1>6. k \in Call /\ k.added = {} /\ k.gone = {} /\ k.row = None
      /\ k.fresh = FALSE /\ k.pc = "delete"
  BY <1>3, <1>5 DEF Idle, Call, Ops, Points
<1>7. Shape(k)
  BY <1>3, <1>4, <1>5 DEF Idle, Shape
<1>8. Begin(c, k)
  BY <1>1, <1>2, <1>5
<1> QED
  BY <1>6, <1>7, <1>8, BlankOK, BeginStep

LEMMA BeginGrantStep ==
    ASSUME RolesInv, NEW c \in Calls, BeginGrant(c)
    PROVE  RolesInv'
<1>1. PICK u \in Users, W \in Wanted :
         Begin(c, [Idle EXCEPT !.op = "grant", !.pc = "look", !.user = u,
                     !.want = WantedBy(u, W)])
  BY DEF BeginGrant
<1>2. PICK want : want = WantedBy(u, W)
  OBVIOUS
<1>3. want \subseteq Item /\ \A i \in want : i.user = u
  BY <1>2, WantedType
<1>4. PICK k : k = [Idle EXCEPT !.op = "grant", !.pc = "look", !.user = u,
                                !.want = want]
  OBVIOUS
<1>5. k \in Call /\ k.added = {} /\ k.gone = {} /\ k.row = None
      /\ k.fresh = FALSE /\ k.pc = "look"
  BY <1>3, <1>4 DEF Idle, Call, Ops, Points
<1>6. Shape(k)
  BY <1>3, <1>4 DEF Idle, Shape
<1>7. Begin(c, k)
  BY <1>1, <1>2, <1>4
<1> QED
  BY <1>5, <1>6, <1>7, BlankOK, BeginStep

LEMMA BeginReplaceStep ==
    ASSUME RolesInv, NEW c \in Calls, BeginReplace(c)
    PROVE  RolesInv'
<1>1. PICK u \in Users, W \in Wanted :
         Begin(c, [Idle EXCEPT !.op = "replace", !.pc = "purge", !.user = u, !.open = TRUE,
                     !.want = WantedBy(u, W)])
  BY DEF BeginReplace
<1>2. PICK want : want = WantedBy(u, W)
  OBVIOUS
<1>3. want \subseteq Item /\ \A i \in want : i.user = u
  BY <1>2, WantedType
<1>4. PICK k : k = [Idle EXCEPT !.op = "replace", !.pc = "purge", !.user = u, !.open = TRUE,
                                !.want = want]
  OBVIOUS
<1>5. k \in Call /\ k.added = {} /\ k.gone = {} /\ k.row = None
      /\ k.fresh = FALSE /\ k.pc = "purge"
  BY <1>3, <1>4 DEF Idle, Call, Ops, Points
<1>6. Shape(k)
  BY <1>3, <1>4 DEF Idle, Shape
<1>7. Begin(c, k)
  BY <1>1, <1>2, <1>4
<1> QED
  BY <1>5, <1>6, <1>7, BlankOK, BeginStep

LEMMA BeginUpdateStep ==
    ASSUME RolesInv, NEW c \in Calls, BeginUpdate(c)
    PROVE  RolesInv'
<1>1. PICK r \in DOMAIN roles, body \in Updates :
         Begin(c, [Idle EXCEPT !.op = "update", !.pc = "write", !.id = r,
                     !.read = roles[r], !.body = body, !.open = TRUE])
  BY DEF BeginUpdate
<1>2. PICK read : read = roles[r]
  OBVIOUS
<1>3. r \in Ids /\ read \in Role /\ body \in Body
  BY <1>2, RolesAssumption DEF RolesInv, TypeOK
<1>4. PICK k : k = [Idle EXCEPT !.op = "update", !.pc = "write", !.id = r,
                      !.read = read, !.body = body, !.open = TRUE]
  OBVIOUS
<1>5. k \in Call /\ k.added = {} /\ k.gone = {} /\ k.row = None
      /\ k.fresh = FALSE /\ k.pc = "write"
  BY <1>3, <1>4 DEF Idle, Call, Ops, Points
<1>6. Shape(k)
  BY <1>3, <1>4 DEF Idle, Shape
<1>7. Begin(c, k)
  BY <1>1, <1>2, <1>4
<1> QED
  BY <1>5, <1>6, <1>7, BlankOK, BeginStep

LEMMA BeginRemoveStep ==
    ASSUME RolesInv, NEW c \in Calls, BeginRemove(c)
    PROVE  RolesInv'
<1>1. PICK r \in DOMAIN roles, area \in Areas \cup {None} :
         Begin(c, [Idle EXCEPT !.op = "remove", !.pc = "purge", !.id = r,
                     !.read = roles[r], !.area = area, !.open = TRUE])
  <2>1. \A r \in DOMAIN roles : {o[2] : o \in AreasOf(r)} \subseteq Areas
    BY DEF RolesInv, TypeOK, AreasOf
  <2> QED
    BY <2>1 DEF BeginRemove
<1>2. PICK read : read = roles[r]
  OBVIOUS
<1>3. r \in Ids /\ read \in Role
  BY <1>2 DEF RolesInv, TypeOK
<1>4. PICK k : k = [Idle EXCEPT !.op = "remove", !.pc = "purge", !.id = r,
                      !.read = read, !.area = area, !.open = TRUE]
  OBVIOUS
<1>5. k \in Call /\ k.added = {} /\ k.gone = {} /\ k.row = None
      /\ k.fresh = FALSE /\ k.pc = "purge"
  BY <1>3, <1>4 DEF Idle, Call, Ops, Points
<1>6. Shape(k)
  BY <1>3, <1>4 DEF Idle, Shape
<1>7. Begin(c, k)
  BY <1>1, <1>2, <1>4
<1> QED
  BY <1>5, <1>6, <1>7, BlankOK, BeginStep

-----------------------------------------------------------------------------
(* Looking for rows. *)

LEMMA FilterStep ==
    ASSUME RolesInv, NEW c \in Calls, Filter(c)
    PROVE  RolesInv'
<1>1. PICK old : old = calls[c]
  OBVIOUS
<1>2. old \in Call /\ CallOK(old) /\ old.pc = "look" /\ old.want # {}
  BY <1>1 DEF RolesInv, TypeOK, Filter
<1>3. PICK want \in SUBSET old.want, todo \in SUBSET old.want :
         Goto(c, [old EXCEPT !.want = want, !.todo = todo])
  <2> DEFINE globals == {i \in old.want : i.area = None}
             want == IF globals # {} THEN old.want \ globals ELSE {}
             todo == IF globals # {}
                     THEN {i \in globals : /\ i.role \in DOMAIN roles
                                           /\ roles[i.role].scope = "GLOBAL"}
                     ELSE {i \in old.want : <<i.role, i.area>> \in offers}
  <2>1. Goto(c, [old EXCEPT !.want = want, !.todo = todo])
    BY <1>1 DEF Filter
  <2>2. want \in SUBSET old.want /\ todo \in SUBSET old.want
    OBVIOUS
  <2> HIDE DEF want, todo
  <2> QED
    BY <2>1, <2>2
<1>4. PICK k : k = [old EXCEPT !.want = want, !.todo = todo]
  OBVIOUS
<1>5. k \in Call /\ k.want = want /\ k.todo = todo
      /\ k = [old EXCEPT !.want = k.want, !.todo = k.todo]
  BY <1>2, <1>3, <1>4 DEF Call
<1>6. /\ k.op = old.op /\ k.pc = "look" /\ k.id = old.id /\ k.read = old.read
      /\ k.user = old.user /\ k.told = old.told /\ k.open = old.open
      /\ k.added = old.added /\ k.gone = old.gone /\ k.row = old.row
      /\ k.cut = old.cut /\ k.put = old.put /\ k.fresh = old.fresh
  BY <1>2, <1>4 DEF Call
<1>7. Shape(k)
  BY <1>2, <1>3, <1>5, <1>6 DEF CallOK, Shape
<1>8. CallOK(k)
  BY <1>2, <1>6, <1>7 DEF CallOK, AddedOK, GoneOK, WroteOK, Wrote, Shape, SureOK
<1> QED
  BY <1>1, <1>2, <1>3, <1>4, <1>5, <1>6, <1>8, GotoStep

LEMMA LookStep ==
    ASSUME RolesInv, NEW c \in Calls, Look(c)
    PROVE  RolesInv'
<1>1. PICK old : old = calls[c]
  OBVIOUS
<1>2. old \in Call /\ CallOK(old) /\ old.pc = "look"
  BY <1>1 DEF RolesInv, TypeOK, Look
<1>3. old.todo \subseteq Item
  BY <1>2 DEF Call
<1>4. PICK item \in old.todo :
         IF Has(Seen(old), item)
         THEN Goto(c, [old EXCEPT !.todo = @ \ {item}])
         ELSE Goto(c, [old EXCEPT !.pc = "insert", !.item = item,
                         !.sure = ~Has(Others(old), item)])
  BY <1>1 DEF Look
<1>5. PICK sure \in BOOLEAN : sure = ~Has(Others(old), item)
  OBVIOUS
<1>6. PICK k : k = IF Has(Seen(old), item)
                   THEN [old EXCEPT !.todo = @ \ {item}]
                   ELSE [old EXCEPT !.pc = "insert", !.item = item, !.sure = sure]
  OBVIOUS
<1>7. Goto(c, k)
  BY <1>4, <1>5, <1>6
<1>8. /\ k \in Call /\ k.op = old.op /\ k.id = old.id /\ k.read = old.read
      /\ k.user = old.user /\ k.told = old.told /\ k.open = old.open
      /\ k.added = old.added /\ k.gone = old.gone /\ k.row = old.row
      /\ k.cut = old.cut /\ k.put = old.put /\ k.fresh = old.fresh
      /\ k.want = old.want /\ k.todo \subseteq old.todo
      /\ k.pc \in {"look", "insert"}
      /\ k.pc = "insert" => /\ ~Has(Seen(old), item) /\ k.item = item
                            /\ k.sure = sure /\ k.todo = old.todo
  <2>1. CASE Has(Seen(old), item)
    <3>1. PICK todo \in SUBSET old.todo : k = [old EXCEPT !.todo = todo]
      BY <1>6, <2>1
    <3> QED
      BY <1>2, <1>3, <3>1 DEF Call, Points
  <2>2. CASE ~Has(Seen(old), item)
    <3>1. k = [old EXCEPT !.pc = "insert", !.item = item, !.sure = sure]
      BY <1>6, <2>2
    <3> QED
      BY <1>2, <1>3, <2>2, <3>1 DEF Call, Points
  <2> QED
    BY <2>1, <2>2
<1>9. Shape(k)
  BY <1>2, <1>4, <1>8 DEF CallOK, Shape
<1>10. SureOK(k)
  <2>1. ASSUME k.pc = "insert", k.sure, NEW row \in Rows, row.of = item
        PROVE  row \in old.gone \ old.added
    <3>1. row \notin Seen(old) /\ row \notin Others(old)
      BY <1>5, <1>8, <2>1 DEF Has
    <3> QED
      BY <2>1, <3>1 DEF Others, Seen
  <2> QED
    BY <1>8, <2>1 DEF SureOK
<1>11. CallOK(k)
  BY <1>2, <1>8, <1>9, <1>10
     DEF CallOK, AddedOK, GoneOK, WroteOK, Wrote, Shape
<1> QED
  BY <1>1, <1>2, <1>7, <1>8, <1>11, GotoStep

LEMMA DoneStep ==
    ASSUME RolesInv, NEW c \in Calls, Done(c)
    PROVE  RolesInv'
<1>1. PICK old : old = calls[c]
  OBVIOUS
<1>2. old \in Call /\ CallOK(old) /\ old.pc = "look"
  BY <1>1 DEF RolesInv, TypeOK, Done
<1>3. CASE End(c)
  BY <1>1, <1>2, <1>3, EndStep
<1>4. CASE ~End(c)
  <2>1. PICK pc : pc = IF old.op = "assign" THEN "send" ELSE "commit"
    OBVIOUS
  <2>2. old.op \in {"assign", "replace"} /\ Goto(c, [old EXCEPT !.pc = pc])
    BY <1>1, <1>2, <1>4, <2>1 DEF Done, CallOK, Shape
  <2>3. PICK k : k = [old EXCEPT !.pc = pc]
    OBVIOUS
  <2>4. /\ k \in Call /\ k.op = old.op /\ k.id = old.id /\ k.read = old.read
        /\ k.user = old.user /\ k.told = old.told /\ k.open = old.open
        /\ k.added = old.added /\ k.gone = old.gone /\ k.row = old.row
        /\ k.cut = old.cut /\ k.put = old.put /\ k.fresh = old.fresh
        /\ k.want = old.want /\ k.todo = old.todo /\ k.pc = pc
    BY <1>2, <2>1, <2>3 DEF Call, Points
  <2>5. Shape(k)
    BY <1>2, <2>1, <2>2, <2>4 DEF CallOK, Shape
  <2>6. CallOK(k)
    BY <1>2, <2>1, <2>2, <2>4, <2>5
       DEF CallOK, AddedOK, GoneOK, WroteOK, Wrote, Shape, SureOK
  <2>7. Goto(c, k) /\ k.pc # "renamed" /\ calls[c].pc # "renamed"
    BY <1>1, <1>2, <2>1, <2>2, <2>3, <2>4
  <2> QED
    BY <1>1, <2>4, <2>6, <2>7, GotoStep
<1> QED
  BY <1>3, <1>4

-----------------------------------------------------------------------------
(* Deleting rows. *)

\* The locks keep two handlers from deleting the same row.
LEMMA PurgeStep ==
    ASSUME RolesInv, NEW c \in Calls, NEW call \in Call, CallOK(call),
           Goto(c, call), Blockers(c) = {}, calls[c].pc \in {"delete", "purge"},
           call.added = {}, call.gone = Target(calls[c]), ~Wrote(call),
           call.pc # "renamed"
    PROVE  RolesInv'
<1>1. requests' \in 0 .. MaxRequests /\ astray' \subseteq Ids
  BY DEF RolesInv, TypeOK, Goto
<1>2. ASSUME NEW d \in Calls \ {c}
      PROVE  Apart(call, calls[d]) /\ Apart(calls[d], call)
  <2>1. Target(calls[c]) \cap calls[d].gone = {}
    BY <1>2 DEF Blockers, DeleteWaits
  <2> QED
    BY <2>1 DEF Apart, Rekeys
<1>3. RowsFit(call)
  BY DEF RowsFit
<1> QED
  BY <1>1, <1>2, <1>3, QuietStep DEF Goto

LEMMA DeleteRowsStep ==
    ASSUME RolesInv, NEW c \in Calls, DeleteRows(c)
    PROVE  RolesInv'
<1>1. PICK old : old = calls[c]
  OBVIOUS
<1>2. /\ old \in Call /\ CallOK(old) /\ old.pc = "delete" /\ Blockers(c) = {}
      /\ old.op = "unassign" /\ old.added = {} /\ old.row = None
  BY <1>1 DEF RolesInv, TypeOK, DeleteRows, CallOK, Shape
<1>3. CASE End(c)
  BY <1>1, <1>2, <1>3, EndStep
<1>4. CASE ~End(c)
  <2>1. PICK gone : gone = Target(old)
    OBVIOUS
  <2>2. /\ Goto(c, [old EXCEPT !.pc = "send", !.gone = gone])
        /\ old.read.scope = "GLOBAL" => gone # {}
    BY <1>1, <1>4, <2>1 DEF DeleteRows
  <2>3. gone \subseteq members /\ gone \in SUBSET Row
        /\ \A row \in gone : row.of \in old.told
    BY <1>2, <2>1 DEF Target, RolesInv, TypeOK
  <2>4. PICK k : k = [old EXCEPT !.pc = "send", !.gone = gone]
    OBVIOUS
  <2>5. /\ k \in Call /\ k.op = old.op /\ k.id = old.id /\ k.read = old.read
        /\ k.user = old.user /\ k.told = old.told /\ k.open = old.open
        /\ k.added = old.added /\ k.gone = gone /\ k.row = old.row
        /\ k.cut = old.cut /\ k.put = old.put /\ k.fresh = old.fresh
        /\ k.want = old.want /\ k.todo = old.todo /\ k.pc = "send"
    <3>1. old \in Call
      BY <1>2
    <3> QED
      BY <3>1, <2>3, <2>4 DEF Call, Points
  <2>6. Shape(k)
    BY <1>2, <2>5 DEF CallOK, Shape
  <2>7. GoneOK(k)
    <3>1. ASSUME k.read.scope = "GLOBAL"
          PROVE  \A i \in k.told : Has(k.gone, i)
      <4>1. PICK i : old.told = {i}
        BY <1>2 DEF CallOK, Shape
      <4>2. PICK row \in gone : row.of = i
        BY <2>2, <2>3, <2>5, <3>1, <4>1
      <4> QED
        BY <2>5, <4>1, <4>2 DEF Has
    <3> QED
      BY <1>2, <2>3, <2>5, <3>1 DEF GoneOK
  <2>8. CallOK(k) /\ ~Wrote(k)
    BY <1>2, <2>5, <2>6, <2>7 DEF CallOK, AddedOK, WroteOK, Wrote, SureOK
  <2>9. Goto(c, k)
    BY <2>2, <2>4
  <2> QED
    BY <1>1, <1>2, <2>1, <2>5, <2>8, <2>9, PurgeStep
<1> QED
  BY <1>3, <1>4

LEMMA PurgeUserStep ==
    ASSUME RolesInv, NEW c \in Calls, PurgeUser(c)
    PROVE  RolesInv'
<1>1. PICK old : old = calls[c]
  OBVIOUS
<1>2. /\ old \in Call /\ CallOK(old) /\ old.pc = "purge" /\ Blockers(c) = {}
      /\ old.op = "replace" /\ old.added = {} /\ old.row = None
  BY <1>1 DEF RolesInv, TypeOK, PurgeUser, CallOK, Shape
<1>3. PICK gone : gone = Target(old)
  OBVIOUS
<1>4. gone = {row \in members : row.of.user = old.user} /\ gone \in SUBSET Row
  BY <1>2, <1>3 DEF Target, RolesInv, TypeOK
<1>5. PICK k : k = [old EXCEPT !.pc = "look", !.gone = gone, !.fresh = TRUE]
  OBVIOUS
<1>6. /\ k \in Call /\ k.op = old.op /\ k.id = old.id /\ k.read = old.read
      /\ k.user = old.user /\ k.told = old.told /\ k.open = old.open
      /\ k.added = old.added /\ k.gone = gone /\ k.row = old.row
      /\ k.cut = old.cut /\ k.put = old.put
      /\ k.want = old.want /\ k.todo = old.todo /\ k.pc = "look"
  <2>1. old \in Call /\ gone \in SUBSET Row
    BY <1>2, <1>4
  <2> QED
    BY <1>5, <2>1 DEF Call, Points
<1>7. Shape(k)
  BY <1>2, <1>6 DEF CallOK, Shape
<1>8. CallOK(k) /\ ~Wrote(k)
  BY <1>2, <1>4, <1>6, <1>7
     DEF CallOK, AddedOK, GoneOK, WroteOK, Wrote, SureOK
<1>9. Goto(c, k)
  BY <1>1, <1>3, <1>5 DEF PurgeUser
<1> QED
  BY <1>1, <1>2, <1>3, <1>6, <1>8, <1>9, PurgeStep

LEMMA PurgeRoleStep ==
    ASSUME RolesInv, NEW c \in Calls, PurgeRole(c)
    PROVE  RolesInv'
<1>1. PICK old : old = calls[c]
  OBVIOUS
<1>2. /\ old \in Call /\ CallOK(old) /\ old.pc = "purge" /\ Blockers(c) = {}
      /\ old.op = "remove" /\ old.added = {} /\ old.row = None
  BY <1>1 DEF RolesInv, TypeOK, PurgeRole, CallOK, Shape
<1>3. CASE End(c)
  BY <1>1, <1>2, <1>3, EndStep
<1>4. CASE ~End(c)
  <2>1. PICK gone, cut : gone = Target(old) /\ cut = AreasOf(old.id)
    OBVIOUS
  <2>2. Goto(c, [old EXCEPT !.pc = "send", !.gone = gone, !.cut = cut])
    BY <1>1, <1>4, <2>1 DEF PurgeRole
  <2>3. /\ gone \subseteq members /\ gone \in SUBSET Row
        /\ cut \in SUBSET (Ids \X Areas)
    BY <2>1 DEF Target, AreasOf, RolesInv, TypeOK
  <2>4. PICK k : k = [old EXCEPT !.pc = "send", !.gone = gone, !.cut = cut]
    OBVIOUS
  <2>5. /\ k \in Call /\ k.op = old.op /\ k.id = old.id /\ k.read = old.read
        /\ k.user = old.user /\ k.told = old.told /\ k.open = old.open
        /\ k.added = old.added /\ k.gone = gone /\ k.row = old.row
        /\ k.put = old.put /\ k.fresh = old.fresh
        /\ k.want = old.want /\ k.todo = old.todo /\ k.pc = "send"
    <3>1. old \in Call
      BY <1>2
    <3>2. gone \in SUBSET Row /\ cut \in SUBSET (Ids \X Areas)
      BY <2>3
    <3>3. PICK pc \in Points : pc = "send"
      BY DEF Points
    <3>4. k = [old EXCEPT !.pc = pc, !.gone = gone, !.cut = cut]
      BY <2>4, <3>3
    <3> QED
      BY <3>1, <3>2, <3>3, <3>4 DEF Call
  <2>6. Shape(k)
    BY <1>2, <2>5 DEF CallOK, Shape
  <2>7. CallOK(k) /\ ~Wrote(k)
    BY <1>2, <2>3, <2>5, <2>6
       DEF CallOK, AddedOK, GoneOK, WroteOK, Wrote, SureOK
  <2>8. Goto(c, k)
    BY <2>2, <2>4
  <2> QED
    BY <1>1, <1>2, <2>1, <2>5, <2>7, <2>8, PurgeStep
<1> QED
  BY <1>3, <1>4

-----------------------------------------------------------------------------
(* Updates of a role. *)

\* What an update makes of a role.
LEMMA ChangedType ==
    ASSUME NEW k, k.body \in Body, k.id \in DOMAIN roles, roles[k.id] \in Role
    PROVE  /\ Changed(k) \in Role
           /\ k.body.name # Unset => Changed(k).name = k.body.name
<1>1. PICK body, row : body = k.body /\ row = roles[k.id]
  OBVIOUS
<1>2. /\ body.name \in Names \cup {Unset} /\ body.scope \in Scopes \cup {Unset}
      /\ row.name \in Names /\ row.scope \in Scopes
  BY <1>1 DEF Body, Role
<1> QED
  BY <1>1, <1>2 DEF Changed, Or, Role

LEMMA WriteRoleStep ==
    ASSUME RolesInv, NEW c \in Calls, WriteRole(c)
    PROVE  RolesInv'
<1>1. PICK old : old = calls[c]
  OBVIOUS
<1>2. /\ old \in Call /\ CallOK(old) /\ old.pc = "write" /\ Blockers(c) = {}
      /\ old.op = "update" /\ old.open /\ old.body \in Body
      /\ old.row = None /\ old.added = {} /\ old.cut = {} /\ old.put = {}
      /\ old.id \in Ids /\ old.read \in Role
  BY <1>1 DEF RolesInv, TypeOK, WriteRole, CallOK, Shape
<1>3. CASE End(c)
  BY <1>1, <1>2, <1>3, EndStep
<1>4. CASE ~End(c)
  <2>1. PICK row : row = Changed(old)
    OBVIOUS
  <2>2. PICK pc : pc = IF Recuts(old, row) THEN "areas" ELSE AfterWrite(old)
    OBVIOUS
  <2>3. /\ old.id \in DOMAIN roles /\ NameFree(row.name, old.id)
        /\ Goto(c, [old EXCEPT !.row = row, !.pc = pc])
    BY <1>1, <1>4, <2>1, <2>2 DEF WriteRole
  <2>4. row \in Role /\ (old.body.name # Unset => row.name = old.body.name)
    BY <1>2, <2>1, <2>3, ChangedType DEF RolesInv, TypeOK
  <2>5. /\ pc \in {"areas", "name", "commit"} /\ (pc = "areas") = Recuts(old, row)
        /\ pc = "name" => old.body.name # Unset
    BY <2>2 DEF AfterWrite, Recuts
  <2>6. PICK k : k = [old EXCEPT !.row = row, !.pc = pc]
    OBVIOUS
  <2>7. /\ k \in Call /\ k.op = old.op /\ k.id = old.id /\ k.read = old.read
        /\ k.user = old.user /\ k.told = old.told /\ k.open = old.open
        /\ k.added = old.added /\ k.gone = old.gone /\ k.row = row
        /\ k.cut = old.cut /\ k.put = old.put /\ k.fresh = old.fresh
        /\ k.want = old.want /\ k.todo = old.todo /\ k.pc = pc
        /\ k.body = old.body
    <3>1. old \in Call
      BY <1>2
    <3> QED
      BY <3>1, <2>4, <2>5, <2>6 DEF Call, Points
  <2>8. row # None
    BY <2>4, RolesAssumption
  <2>9. Shape(k)
    BY <1>2, <2>4, <2>5, <2>7, <2>8 DEF CallOK, Shape
  <2>10. WroteOK(k)
    <3>1. Recuts(k, row) = Recuts(old, row)
      BY <2>7 DEF Recuts
    <3> QED
      BY <1>2, <2>3, <2>5, <2>7, <3>1 DEF WroteOK
  <2>11. CallOK(k)
    BY <1>2, <2>5, <2>7, <2>9, <2>10 DEF CallOK, AddedOK, GoneOK, SureOK
  <2>12. ASSUME NEW d \in Calls \ {c}
         PROVE  Apart(k, calls[d]) /\ Apart(calls[d], k)
    <3>1. ~WriteWaits(old, calls[d])
      BY <1>1, <1>2, <2>3, <2>12 DEF Blockers
    <3>2. Apart(old, calls[d]) /\ Apart(calls[d], old)
      BY <1>1, <2>12 DEF RolesInv
    <3>3. Wrote(calls[d]) => calls[d].id # k.id /\ calls[d].row.name # row.name
      BY <2>1, <2>7, <3>1 DEF WriteWaits, Claims
    <3>4. Rekeys(k) => \A x \in calls[d].added : x.of.role # k.id
      BY <2>1, <2>7, <3>1 DEF WriteWaits, Rekeys
    <3> QED
      BY <1>2, <2>7, <3>2, <3>3, <3>4 DEF Apart
  <2>13. RowsFit(k)
    BY <1>2, <2>7 DEF RowsFit
  <2>14. requests' \in 0 .. MaxRequests /\ astray' \subseteq Ids /\ Goto(c, k)
    BY <2>3, <2>6 DEF RolesInv, TypeOK, Goto
  <2> QED
    BY <1>1, <1>2, <2>5, <2>7, <2>11, <2>12, <2>13, <2>14, QuietStep DEF Goto
<1> QED
  BY <1>3, <1>4

LEMMA ReplaceAreasStep ==
    ASSUME RolesInv, NEW c \in Calls, ReplaceAreas(c)
    PROVE  RolesInv'
<1>1. PICK old : old = calls[c]
  OBVIOUS
<1>2. /\ old \in Call /\ CallOK(old) /\ old.pc = "areas"
      /\ old.op = "update" /\ old.open /\ old.body \in Body
      /\ old.row # None /\ old.id \in Ids /\ Wrote(old)
  BY <1>1 DEF RolesInv, TypeOK, ReplaceAreas, CallOK, Shape, Wrote
<1>3. CASE End(c)
  BY <1>1, <1>2, <1>3, EndStep
<1>4. CASE ~End(c)
  <2>1. PICK cut, put, pc : /\ cut = AreasOf(old.id)
                            /\ put = {old.id} \X old.body.areas
                            /\ pc = AfterWrite(old)
    OBVIOUS
  <2>2. Goto(c, [old EXCEPT !.cut = cut, !.put = put, !.pc = pc])
    BY <1>1, <1>4, <2>1 DEF ReplaceAreas
  <2>3. Recuts(old, old.row) /\ old.body.areas \subseteq Areas
    <3>1. Recuts(old, old.row)
      BY <1>2 DEF CallOK, WroteOK
    <3> QED
      BY <1>2, <3>1 DEF Recuts, Body
  <2>4. cut \in SUBSET (Ids \X Areas) /\ put \in SUBSET (Ids \X Areas)
    BY <1>2, <2>1, <2>3 DEF AreasOf, RolesInv, TypeOK
  <2>5. pc \in {"name", "commit"} /\ (pc = "name" => old.body.name # Unset)
    BY <2>1 DEF AfterWrite
  <2>6. PICK k : k = [old EXCEPT !.cut = cut, !.put = put, !.pc = pc]
    OBVIOUS
  <2>7. /\ k \in Call /\ k.op = old.op /\ k.id = old.id /\ k.read = old.read
        /\ k.user = old.user /\ k.told = old.told /\ k.open = old.open
        /\ k.added = old.added /\ k.gone = old.gone /\ k.row = old.row
        /\ k.cut = cut /\ k.put = put /\ k.fresh = old.fresh
        /\ k.want = old.want /\ k.todo = old.todo /\ k.pc = pc
        /\ k.body = old.body
    BY <1>2, <2>4, <2>5, <2>6 DEF Call, Points
  <2>8. Shape(k)
    BY <1>2, <2>5, <2>7 DEF CallOK, Shape
  <2>9. WroteOK(k)
    <3>1. Recuts(k, k.row)
      BY <2>3, <2>7 DEF Recuts
    <3> QED
      BY <1>2, <2>1, <2>5, <2>7, <3>1 DEF CallOK, WroteOK
  <2>10. CallOK(k)
    BY <1>2, <2>5, <2>7, <2>8, <2>9 DEF CallOK, AddedOK, GoneOK, SureOK
  <2>11. Goto(c, k) /\ k.pc # "renamed" /\ calls[c].pc # "renamed"
    BY <1>1, <1>2, <2>2, <2>5, <2>6, <2>7
  <2> QED
    BY <1>1, <2>7, <2>10, <2>11, GotoStep
<1> QED
  BY <1>3, <1>4

LEMMA ReadNameStep ==
    ASSUME RolesInv, NEW c \in Calls, ReadName(c)
    PROVE  RolesInv'
<1>1. PICK old : old = calls[c]
  OBVIOUS
<1>2. /\ old \in Call /\ CallOK(old) /\ old.pc = "name"
      /\ old.op = "update" /\ old.open /\ old.row # None /\ Wrote(old)
  BY <1>1 DEF RolesInv, TypeOK, ReadName, CallOK, Shape, Wrote
<1>3. PICK area \in Areas \cup {None} :
         /\ old.row.scope = "GLOBAL" => area = None
         /\ Goto(c, [old EXCEPT !.pc = "send", !.area = area])
  <2> DEFINE areas == {o[2] : o \in (AreasOf(old.id) \ old.cut) \cup old.put}
  <2>1. areas \subseteq Areas
    <3>1. AreasOf(old.id) \subseteq (DOMAIN roles) \X Areas
      BY DEF AreasOf, RolesInv, TypeOK
    <3>2. old.put \subseteq Ids \X Areas
      BY <1>2, CallFields
    <3> QED
      BY <3>1, <3>2
  <2>2. PICK area \in IF old.row.scope = "GLOBAL" \/ areas = {} THEN {None}
                      ELSE areas :
           Goto(c, [old EXCEPT !.pc = "send", !.area = area])
    BY <1>1 DEF ReadName
  <2> QED
    BY <2>1, <2>2
<1>4. PICK k : k = [old EXCEPT !.pc = "send", !.area = area]
  OBVIOUS
<1>5. /\ k \in Call /\ k.op = old.op /\ k.id = old.id /\ k.read = old.read
      /\ k.user = old.user /\ k.told = old.told /\ k.open = old.open
      /\ k.added = old.added /\ k.gone = old.gone /\ k.row = old.row
      /\ k.cut = old.cut /\ k.put = old.put /\ k.fresh = old.fresh
      /\ k.want = old.want /\ k.todo = old.todo /\ k.pc = "send"
      /\ k.body = old.body /\ k.area = area
  BY <1>2, <1>3, <1>4 DEF Call, Points
<1>6. Shape(k)
  BY <1>2, <1>3, <1>5 DEF CallOK, Shape
<1>7. WroteOK(k)
  <2>1. Recuts(k, k.row) = Recuts(old, old.row)
    BY <1>5 DEF Recuts
  <2> QED
    BY <1>2, <1>5, <2>1 DEF CallOK, WroteOK
<1>8. CallOK(k)
  BY <1>2, <1>5, <1>6, <1>7 DEF CallOK, AddedOK, GoneOK, SureOK
<1>9. Goto(c, k) /\ k.pc # "renamed" /\ calls[c].pc # "renamed"
  BY <1>1, <1>2, <1>3, <1>4, <1>5
<1> QED
  BY <1>1, <1>5, <1>8, <1>9, GotoStep

-----------------------------------------------------------------------------
(* Time limits and deadlocks. *)

LEMMA TimeOutStep ==
    ASSUME RolesInv, NEW c \in Calls, TimeOut(c)
    PROVE  RolesInv'
<1>1. PICK old : old = calls[c]
  OBVIOUS
<1>2. old \in Call /\ CallOK(old)
  BY <1>1 DEF RolesInv, TypeOK
<1>3. old.pc = "renamed" => old.id \in Ids
  BY <1>2 DEF CallOK, Shape
<1>4. /\ astray \subseteq astray' /\ astray' \subseteq Ids
      /\ old.pc = "renamed" => old.id \in astray'
      /\ requests' \in 0 .. MaxRequests
      /\ UNCHANGED <<roles, offers, members, asked, ldap>>
  BY <1>1, <1>3 DEF TimeOut, RolesInv, TypeOK
<1>5. PICK k : k = IF old.pc = "send"
                   THEN [old EXCEPT !.open = FALSE, !.added = {}, !.gone = {},
                                    !.cut = {}, !.put = {}]
                   ELSE Idle
  OBVIOUS
<1>6. calls' = [calls EXCEPT ![c] = k]
  BY <1>1, <1>5 DEF TimeOut
<1>7. k \in Call /\ CallOK(k) /\ k.added = {} /\ k.gone = {} /\ ~Wrote(k)
      /\ k.pc # "renamed"
  <2>1. CASE old.pc = "send"
    <3>1. k = [old EXCEPT !.open = FALSE, !.added = {}, !.gone = {},
                          !.cut = {}, !.put = {}]
      BY <1>5, <2>1
    <3>2. /\ k \in Call /\ k.op = old.op /\ k.id = old.id /\ k.read = old.read
          /\ k.user = old.user /\ k.told = old.told /\ k.open = FALSE
          /\ k.added = {} /\ k.gone = {} /\ k.row = old.row
          /\ k.cut = {} /\ k.put = {} /\ k.fresh = old.fresh
          /\ k.want = old.want /\ k.todo = old.todo /\ k.pc = "send"
          /\ k.body = old.body /\ k.area = old.area
      <4>1. PICK rows \in SUBSET Row, pairs \in SUBSET (Ids \X Areas) :
               rows = {} /\ pairs = {}
        OBVIOUS
      <4>2. PICK open \in BOOLEAN : open = FALSE
        OBVIOUS
      <4>3. k = [old EXCEPT !.open = open, !.added = rows, !.gone = rows,
                            !.cut = pairs, !.put = pairs]
        BY <3>1, <4>1, <4>2
      <4>4. old \in Call
        BY <1>2
      <4>5. /\ k \in Call /\ k.op = old.op /\ k.id = old.id /\ k.read = old.read
            /\ k.user = old.user /\ k.told = old.told /\ k.open = open
            /\ k.added = rows /\ k.gone = rows /\ k.row = old.row
            /\ k.cut = pairs /\ k.put = pairs /\ k.fresh = old.fresh
            /\ k.want = old.want /\ k.todo = old.todo /\ k.pc = old.pc
            /\ k.body = old.body /\ k.area = old.area
        <5>1. PICK j : j = [old EXCEPT !.open = open, !.added = rows, !.gone = rows]
          OBVIOUS
        <5>2. k = [j EXCEPT !.cut = pairs, !.put = pairs]
          BY <4>3, <4>4, <5>1 DEF Call
        <5>3. /\ j \in Call /\ j.op = old.op /\ j.id = old.id /\ j.read = old.read
              /\ j.user = old.user /\ j.told = old.told /\ j.open = open
              /\ j.added = rows /\ j.gone = rows /\ j.row = old.row
              /\ j.fresh = old.fresh /\ j.want = old.want /\ j.todo = old.todo
              /\ j.pc = old.pc /\ j.body = old.body /\ j.area = old.area
          BY <4>4, <5>1 DEF Call
        <5> QED
          BY <5>2, <5>3 DEF Call
      <4> QED
        BY <2>1, <4>1, <4>2, <4>5
    <3>3. Shape(k)
      BY <1>2, <2>1, <3>2 DEF CallOK, Shape
    <3>4. k.op # "replace"
      BY <3>2, <3>3 DEF Shape
    <3> QED
      BY <3>2, <3>3, <3>4
         DEF CallOK, AddedOK, GoneOK, WroteOK, Wrote, SureOK
  <2>2. CASE old.pc # "send"
    <3>1. k = Idle
      BY <1>5, <2>2
    <3> QED
      BY <3>1, IdleOK
  <2> QED
    BY <2>1, <2>2
<1> QED
  BY <1>1, <1>4, <1>6, <1>7, FreeStep

LEMMA BreakDeadlockStep ==
    ASSUME RolesInv, NEW c \in Calls, BreakDeadlock(c)
    PROVE  RolesInv'
<1>1. Blockers(c) # {}
  BY DEF BreakDeadlock
<1>2. calls[c].pc # "renamed"
  BY <1>1 DEF Blockers
<1> QED
  BY <1>2, EndStep DEF BreakDeadlock

-----------------------------------------------------------------------------
(* LDAP is told of a change of a role. *)

\* An entry that leaves the group of a role is of a role concerned.
LEMMA GroupConcerned ==
    ASSUME RolesInv, NEW call, NEW scope, NEW r \in DOMAIN roles, NEW n,
           Listed(r, n), NEW u, <<u, n, None>> \in GroupOf(call, scope)
    PROVE  r \in Concerned(call) /\ n = call.read.name
BY DEF GroupOf, Concerned

LEMMA ConcernedType ==
    ASSUME RolesInv, NEW call, call.id \in Ids
    PROVE  Concerned(call) \subseteq Ids
BY DEF RolesInv, TypeOK, Concerned

LEMMA SendDeleteStep ==
    ASSUME RolesInv, NEW c \in Calls, SendDelete(c)
    PROVE  RolesInv'
<1>1. PICK old : old = calls[c]
  OBVIOUS
<1>2. /\ old \in Call /\ CallOK(old) /\ old.pc = "send" /\ old.op = "remove"
      /\ old.id \in Ids /\ old.added = {} /\ old.row = None
  BY <1>1 DEF RolesInv, TypeOK, SendDelete, CallOK, Shape
<1>3. CASE End(c)
  BY <1>1, <1>2, <1>3, EndStep
<1>4. CASE ~End(c)
  <2>1. PICK k : k = IF old.open THEN [old EXCEPT !.pc = "erase"] ELSE Idle
    OBVIOUS
  <2>2. /\ ldap' = ldap \ GroupOf(old, old.read.scope)
        /\ astray' = astray \cup Concerned(old)
        /\ calls' = [calls EXCEPT ![c] = k]
        /\ UNCHANGED <<roles, offers, members, asked, requests>>
    BY <1>1, <1>4, <2>1 DEF SendDelete
  <2>3. /\ k \in Call /\ CallOK(k) /\ k.added = {} /\ k.gone \subseteq old.gone
        /\ ~Wrote(k) /\ k.pc # "renamed"
    <3>1. CASE old.open
      <4>1. k = [old EXCEPT !.pc = "erase"]
        BY <2>1, <3>1
      <4>2. /\ k \in Call /\ k.op = old.op /\ k.id = old.id /\ k.read = old.read
            /\ k.user = old.user /\ k.told = old.told /\ k.open = old.open
            /\ k.added = old.added /\ k.gone = old.gone /\ k.row = old.row
            /\ k.cut = old.cut /\ k.put = old.put /\ k.fresh = old.fresh
            /\ k.want = old.want /\ k.todo = old.todo /\ k.pc = "erase"
        <5>1. old \in Call
          BY <1>2
        <5> QED
          BY <4>1, <5>1 DEF Call, Points
      <4>3. Shape(k)
        BY <1>2, <3>1, <4>2 DEF CallOK, Shape
      <4> QED
        BY <1>2, <4>2, <4>3
           DEF CallOK, AddedOK, GoneOK, WroteOK, Wrote, SureOK
    <3>2. CASE ~old.open
      BY <2>1, <3>2, IdleOK
    <3> QED
      BY <3>1, <3>2
  <2>4. ASSUME NEW d \in Calls \ {c}
        PROVE  Apart(k, calls[d]) /\ Apart(calls[d], k)
    <3>1. Apart(old, calls[d]) /\ Apart(calls[d], old)
      BY <1>1, <2>4 DEF RolesInv
    <3> QED
      BY <1>2, <2>3, <3>1 DEF Apart, Rekeys
  <2>5. astray' \subseteq Ids
    BY <1>2, <2>2, ConcernedType DEF RolesInv, TypeOK
  <2>6. ASSUME NEW row \in members, NEW n \in Names, Known(row)',
               Listed(row.of.role, n)'
        PROVE  <<row.of.user, n, None>> \in ldap'
    <3>1. PICK r : r = row.of.role
      OBVIOUS
    <3>2. r \in DOMAIN roles /\ Known(row) /\ r \notin Concerned(old)
      BY <2>2, <2>6, <3>1 DEF Known, RolesInv, TypeOK
    <3>3. /\ \A d \in Calls : Renames(calls'[d], r) = Renames(calls[d], r)
          /\ \A d \in Calls : Renames(calls[d], r) => calls'[d].row = calls[d].row
      <4>1. calls'[c] = k /\ \A d \in Calls \ {c} : calls'[d] = calls[d]
        BY <2>2 DEF RolesInv, TypeOK
      <4>2. ~Renames(calls[c], r) /\ ~Renames(k, r)
        BY <1>1, <1>2, <2>3 DEF Renames
      <4>3. ASSUME NEW d \in Calls
            PROVE  /\ Renames(calls'[d], r) = Renames(calls[d], r)
                   /\ Renames(calls[d], r) => calls'[d].row = calls[d].row
        <5>1. CASE d = c
          BY <4>1, <4>2, <5>1 DEF Renames
        <5>2. CASE d # c
          BY <4>1, <5>2
        <5> QED
          BY <5>1, <5>2
      <4> QED
        BY <4>3
    <3>4. Listed(r, n)' = Listed(r, n)
      BY <2>2, <3>3, ListedSame
    <3>5. Listed(r, n)
      BY <2>6, <3>1, <3>4
    <3>6. <<row.of.user, n, None>> \in ldap
      BY <3>1, <3>2, <3>5 DEF RolesInv, DirectoryKnowsMembers
    <3> QED
      BY <2>2, <3>2, <3>5, <3>6, GroupConcerned
  <2>7. DirectoryKnowsMembers'
    BY <2>2, <2>6 DEF DirectoryKnowsMembers
  <2>8. ldap' \subseteq Users \X Names \X (Areas \cup {None})
        /\ requests' \in 0 .. MaxRequests
    BY <2>2 DEF RolesInv, TypeOK
  <2>9. RowsFit(k)
    BY <2>3 DEF RowsFit
  <2> QED
    BY <2>2, <2>3, <2>4, <2>5, <2>7, <2>8, <2>9, LocalStep
<1> QED
  BY <1>3, <1>4

\* A rename that LDAP has carried out while the transaction lives.
LEMMA RenameKeeps ==
    ASSUME RolesInv, NEW c \in Calls, NEW old, old = calls[c],
           old.op = "update", old.pc = "send", old.open,
           ldap' = (ldap \ GroupOf(old, old.row.scope))
                     \cup {<<e[1], old.body.name, e[3]>> :
                              e \in GroupOf(old, old.row.scope)},
           ~Stale(old), ~Rescopes(old),
           NEW row \in members, NEW n, Known(row), row.of.role = old.id,
           n = old.row.name
    PROVE  <<row.of.user, n, None>> \in ldap'
<1>1. old \in Call /\ CallOK(old) /\ old.row # None /\ Wrote(old)
      /\ old.row.name = old.body.name
      /\ (old.row.scope = "GLOBAL" => old.area = None)
  BY DEF RolesInv, TypeOK, CallOK, Shape, Wrote
<1>2. /\ old.id \in DOMAIN roles /\ roles[old.id] = old.read
      /\ old.row.scope = roles[old.id].scope
  BY DEF Stale, Rescopes
<1>3. old.row.scope = "GLOBAL" /\ old.area = None
  BY <1>1, <1>2 DEF RolesInv
<1>4. ASSUME NEW d \in Calls
      PROVE  ~Renames(calls[d], old.id)
  <2>1. CASE d = c
    BY <2>1 DEF Renames
  <2>2. CASE d # c /\ Renames(calls[d], old.id)
    <3>1. calls[d] \in Call /\ Shape(calls[d]) /\ calls[d].pc = "renamed"
      BY <2>2 DEF Renames, RolesInv, TypeOK, CallOK
    <3>2. Wrote(calls[d])
      BY <3>1, RenamedWrote
    <3> QED
      BY <1>1, <2>2, <3>2 DEF RolesInv, Apart, Renames
  <2> QED
    BY <2>1, <2>2
<1>5. Listed(old.id, old.read.name)
  BY <1>2, <1>4 DEF Listed
<1>6. old.read.name \in Names
  BY <1>2 DEF RolesInv, TypeOK, Role
<1>7. PICK u, name : u = row.of.user /\ name = old.read.name
  OBVIOUS
<1>8. <<u, name, None>> \in ldap
  BY <1>5, <1>6, <1>7 DEF RolesInv, DirectoryKnowsMembers
<1>9. PICK e : e = <<u, name, None>>
  OBVIOUS
<1>10. e \in GroupOf(old, old.row.scope)
  BY <1>3, <1>7, <1>8, <1>9 DEF GroupOf
<1>11. <<e[1], old.body.name, e[3]>> \in ldap'
  BY <1>10
<1> QED
  BY <1>1, <1>7, <1>9, <1>11

LEMMA SendRenameStep ==
    ASSUME RolesInv, NEW c \in Calls, SendRename(c)
    PROVE  RolesInv'
<1>1. PICK old : old = calls[c]
  OBVIOUS
<1>2. /\ old \in Call /\ CallOK(old) /\ old.pc = "send" /\ old.op = "update"
      /\ old.id \in Ids /\ old.added = {} /\ old.row # None
      /\ old.row.name = old.body.name
  BY <1>1 DEF RolesInv, TypeOK, SendRename, CallOK, Shape
<1>3. CASE End(c)
  BY <1>1, <1>2, <1>3, EndStep
<1>4. CASE ~End(c)
  <2>1. PICK k : k = IF old.open THEN [old EXCEPT !.pc = "renamed"] ELSE Idle
    OBVIOUS
  <2>2. PICK group : group = GroupOf(old, old.row.scope)
    OBVIOUS
  <2>3. /\ ldap' = (ldap \ group)
                     \cup {<<e[1], old.body.name, e[3]>> : e \in group}
        /\ astray' = IF ~old.open \/ Stale(old) \/ Rescopes(old)
                     THEN astray \cup Concerned(old) ELSE astray
        /\ calls' = [calls EXCEPT ![c] = k]
        /\ UNCHANGED <<roles, offers, members, asked, requests>>
    BY <1>1, <1>4, <2>1, <2>2 DEF SendRename
  <2>4. /\ k \in Call /\ CallOK(k) /\ k.added = {}
        /\ k.pc = "renamed" => /\ k.id = old.id /\ k.row = old.row /\ old.open
                               /\ k.open = old.open /\ k.gone = old.gone
        /\ k.pc # "renamed" => k.gone = {} /\ ~Wrote(k)
        /\ k.pc = "renamed" <=> old.open
    <3>1. CASE old.open
      <4>1. k = [old EXCEPT !.pc = "renamed"]
        BY <2>1, <3>1
      <4>2. /\ k \in Call /\ k.op = old.op /\ k.id = old.id /\ k.read = old.read
            /\ k.user = old.user /\ k.told = old.told /\ k.open = old.open
            /\ k.added = old.added /\ k.gone = old.gone /\ k.row = old.row
            /\ k.cut = old.cut /\ k.put = old.put /\ k.fresh = old.fresh
            /\ k.want = old.want /\ k.todo = old.todo /\ k.pc = "renamed"
            /\ k.body = old.body /\ k.area = old.area
        <5>1. old \in Call
          BY <1>2
        <5> QED
          BY <4>1, <5>1 DEF Call, Points
      <4>3. Shape(k)
        BY <1>2, <3>1, <4>2 DEF CallOK, Shape
      <4>4. WroteOK(k)
        <5>1. Recuts(k, k.row) = Recuts(old, old.row)
          BY <4>2 DEF Recuts
        <5>2. Wrote(k) = Wrote(old)
          BY <4>2 DEF Wrote
        <5> QED
          BY <1>2, <4>2, <5>1, <5>2 DEF CallOK, WroteOK
      <4>5. CallOK(k)
        BY <1>2, <4>2, <4>3, <4>4 DEF CallOK, AddedOK, GoneOK, SureOK
      <4> QED
        BY <1>2, <3>1, <4>2, <4>5
    <3>2. CASE ~old.open
      BY <2>1, <3>2, IdleOK
    <3> QED
      BY <3>1, <3>2
  <2>5. ASSUME NEW d \in Calls \ {c}
        PROVE  Apart(k, calls[d]) /\ Apart(calls[d], k)
    <3>1. Apart(old, calls[d]) /\ Apart(calls[d], old)
      BY <1>1, <2>5 DEF RolesInv
    <3>2. CASE k.pc = "renamed"
      BY <1>2, <2>4, <3>1, <3>2 DEF Apart, Rekeys, Wrote
    <3>3. CASE k.pc # "renamed"
      BY <2>4, <3>3 DEF Apart, Rekeys
    <3> QED
      BY <3>2, <3>3
  <2>6. astray \subseteq astray' /\ astray' \subseteq Ids
    BY <1>2, <2>3, ConcernedType DEF RolesInv, TypeOK
  <2>7. calls'[c] = k /\ \A d \in Calls \ {c} : calls'[d] = calls[d]
    BY <2>3 DEF RolesInv, TypeOK
  <2>8. ASSUME NEW row \in members, NEW n \in Names, Known(row)',
               Listed(row.of.role, n)'
        PROVE  <<row.of.user, n, None>> \in ldap'
    <3>1. PICK r : r = row.of.role
      OBVIOUS
    <3>2. r \in DOMAIN roles /\ Known(row) /\ r \notin astray'
      BY <2>6, <2>8, <3>1 DEF Known, RolesInv, TypeOK
    <3>3. CASE k.pc = "renamed" /\ r = old.id
      <4>1. ~Stale(old) /\ ~Rescopes(old)
        BY <2>3, <3>2, <3>3 DEF Concerned
      <4>2. n = old.row.name
        <5>1. Renames(calls'[c], r)
          BY <2>4, <2>7, <3>3 DEF Renames
        <5>2. PICK d \in Calls : Renames(calls'[d], r) /\ calls'[d].row.name = n
          BY <2>8, <3>1, <5>1 DEF Listed
        <5>3. CASE d = c
          BY <2>4, <2>7, <3>3, <5>2, <5>3
        <5>4. CASE d # c
          <6>1. /\ calls[d] \in Call /\ Shape(calls[d])
                /\ calls[d].pc = "renamed" /\ calls[d].id = r
            BY <2>7, <5>2, <5>4 DEF Renames, RolesInv, TypeOK, CallOK
          <6>2. Wrote(calls[d]) /\ Wrote(old)
            BY <1>2, <2>4, <3>3, <6>1, RenamedWrote DEF Wrote
          <6> QED
            BY <1>1, <3>3, <5>4, <6>1, <6>2 DEF RolesInv, Apart
        <5> QED
          BY <5>3, <5>4
      <4>3. ldap' = (ldap \ GroupOf(old, old.row.scope))
                     \cup {<<e[1], old.body.name, e[3]>> :
                              e \in GroupOf(old, old.row.scope)}
        BY <2>2, <2>3
      <4>4. old = calls[c] /\ old.op = "update" /\ old.pc = "send" /\ old.open
        BY <1>1, <1>2, <2>4, <3>3
      <4>5. Known(row) /\ row.of.role = old.id
        BY <3>1, <3>2, <3>3
      <4> QED
        BY <4>1, <4>2, <4>3, <4>4, <4>5, RenameKeeps
    <3>4. CASE ~(k.pc = "renamed" /\ r = old.id)
      <4>1. ~Renames(k, r) /\ ~Renames(old, r)
        BY <1>2, <2>4, <3>4 DEF Renames
      <4>2. ASSUME NEW d \in Calls
            PROVE  /\ Renames(calls'[d], r) = Renames(calls[d], r)
                   /\ Renames(calls[d], r) => calls'[d].row = calls[d].row
        <5>1. CASE d = c
          BY <1>1, <2>7, <4>1, <5>1 DEF Renames
        <5>2. CASE d # c
          BY <2>7, <5>2
        <5> QED
          BY <5>1, <5>2
      <4>3. Listed(r, n)' = Listed(r, n)
        BY <2>3, <4>2, ListedSame
      <4>4. Listed(r, n)
        BY <2>8, <3>1, <4>3
      <4>5. <<row.of.user, n, None>> \in ldap
        BY <3>1, <3>2, <4>4 DEF RolesInv, DirectoryKnowsMembers
      <4>6. <<row.of.user, n, None>> \notin group
        <5>1. CASE ~old.open \/ Stale(old) \/ Rescopes(old)
          BY <2>2, <2>3, <3>2, <4>4, <5>1, GroupConcerned
        <5>2. CASE old.open /\ ~Stale(old)
          <6>1. old.id \in DOMAIN roles /\ roles[old.id].name = old.read.name
            BY <5>2 DEF Stale
          <6>2. <<row.of.user, n, None>> \in group => n = old.read.name
            BY <2>2, <3>2, <4>4, GroupConcerned
          <6>3. r # old.id
            BY <2>4, <3>4, <5>2
          <6> QED
            BY <3>2, <4>4, <6>1, <6>2, <6>3, OnlyByName
        <5> QED
          BY <5>1, <5>2
      <4> QED
        BY <2>3, <4>5, <4>6
    <3> QED
      BY <3>3, <3>4
  <2>9. DirectoryKnowsMembers'
    BY <2>3, <2>8 DEF DirectoryKnowsMembers
  <2>10. ldap' \subseteq Users \X Names \X (Areas \cup {None})
         /\ requests' \in 0 .. MaxRequests
    <3>1. old.body.name \in Names
      BY <1>2, RolesAssumption DEF Call, Role
    <3>2. group \subseteq Users \X Names \X (Areas \cup {None})
      BY <2>2 DEF GroupOf, RolesInv, TypeOK
    <3>3. ldap \subseteq Users \X Names \X (Areas \cup {None})
          /\ requests \in 0 .. MaxRequests
      BY DEF RolesInv, TypeOK
    <3> QED
      BY <2>3, <3>1, <3>2, <3>3
  <2>11. RowsFit(k)
    BY <2>4 DEF RowsFit
  <2> QED
    BY <2>3, <2>4, <2>5, <2>6, <2>9, <2>10, <2>11, LocalStep
<1> QED
  BY <1>3, <1>4

-----------------------------------------------------------------------------
(* Users get roles and lose them. *)

\* The rows of a handler enter the table with its commit.
LEMMA AddedFit ==
    ASSUME RolesInv, NEW c \in Calls,
           members' = (members \ calls[c].gone) \cup calls[c].added
    PROVE  /\ \A row, x \in members' : Clash(row, x) => row = x
           /\ \A d \in Calls \ {c} :
                /\ calls[d].gone \subseteq members'
                /\ \A row \in members' \ members, x \in calls[d].added :
                      ~Clash(row, x)
<1>1. \A row, x : Clash(row, x) => Clash(x, row)
  BY DEF Clash
<1>2. \A row, x \in members' : Clash(row, x) => row = x
  <2>1. /\ \A row, x \in members : Clash(row, x) => row = x
        /\ \A row \in members, x \in calls[c].added :
              Clash(row, x) => row \in calls[c].gone
        /\ \A row, x \in calls[c].added : Clash(row, x) => row = x
    BY DEF RolesInv, RowsOK
  <2> QED
    BY <1>1, <2>1
<1>3. ASSUME NEW d \in Calls \ {c}
      PROVE  /\ calls[d].gone \subseteq members'
             /\ \A row \in members' \ members, x \in calls[d].added :
                   ~Clash(row, x)
  <2>1. Apart(calls[c], calls[d]) /\ calls[d].gone \subseteq members
    BY <1>3 DEF RolesInv, CallOK, GoneOK
  <2> QED
    BY <2>1 DEF Apart
<1> QED
  BY <1>2, <1>3

\* The tables of roles keep what holds of them.
LEMMA RolesKept ==
    ASSUME RolesInv, UNCHANGED <<roles, offers, asked>>
    PROVE  /\ AreasOfLastUpdate' /\ NamesDiffer'
           /\ \A d \in Calls : \A k : k = calls[d] =>
                /\ \A row \in k.added : row.of.role \in DOMAIN roles'
                /\ Wrote(k) => /\ k.id \in DOMAIN roles'
                               /\ roles'[k.id] = roles[k.id]
                               /\ NameFree(k.row.name, k.id)'
                               /\ AreasOf(k.id)' = AreasOf(k.id)
<1>1. AreasOfLastUpdate' /\ NamesDiffer'
  BY DEF RolesInv, AreasOfLastUpdate, AreasOf, NamesDiffer
<1>2. ASSUME NEW d \in Calls, NEW k, k = calls[d]
      PROVE  /\ \A row \in k.added : row.of.role \in DOMAIN roles'
             /\ Wrote(k) => /\ k.id \in DOMAIN roles'
                            /\ roles'[k.id] = roles[k.id]
                            /\ NameFree(k.row.name, k.id)'
                            /\ AreasOf(k.id)' = AreasOf(k.id)
  <2>1. AddedOK(k) /\ WroteOK(k)
    BY <1>2 DEF RolesInv, CallOK
  <2> QED
    BY <2>1 DEF AddedOK, WroteOK, NameFree, AreasOf
<1> QED
  BY <1>1, <1>2

LEMMA SendAssignStep ==
    ASSUME RolesInv, NEW c \in Calls, SendAssign(c)
    PROVE  RolesInv'
<1>1. PICK old : old = calls[c]
  OBVIOUS
<1>2. /\ old \in Call /\ CallOK(old) /\ old.pc = "send" /\ old.op = "assign"
      /\ old.id \in Ids /\ old.gone = {} /\ old.read \in Role
      /\ old.added \subseteq Row /\ old.told \subseteq Item
  <2>1. old \in Call /\ CallOK(old)
    BY <1>1 DEF RolesInv, TypeOK
  <2>2. old.pc = "send" /\ old.op = "assign"
    BY <1>1 DEF SendAssign
  <2>3. old.added \subseteq Row /\ old.told \subseteq Item
    BY <2>1, CallFields
  <2> QED
    BY <2>1, <2>2, <2>3 DEF CallOK, Shape
<1>3. CASE End(c)
  BY <1>1, <1>2, <1>3, EndStep
<1>4. CASE ~End(c)
  <2>1. /\ ldap' = ldap \cup {<<i.user, old.read.name, i.area>> : i \in old.told}
        /\ members' = members \cup old.added
        /\ astray' = IF old.added # {} /\ Stale(old)
                     THEN astray \cup {old.id} ELSE astray
        /\ calls' = Committed(c, old.added)
        /\ UNCHANGED <<roles, offers, asked, requests>>
    BY <1>1, <1>4 DEF SendAssign
  <2>2. \A row \in old.added :
           /\ row.of.role = old.id /\ row.of.role \in DOMAIN roles
           /\ row.of \in old.told
           /\ (row.of.area = None) = (old.read.scope = "GLOBAL")
    BY <1>2 DEF CallOK, AddedOK, Shape
  <2>3. TablesOK'
    <3>1. \A i \in old.told : <<i.user, old.read.name, i.area>>
                                 \in Users \X Names \X (Areas \cup {None})
      BY <1>2 DEF Item, Role
    <3> QED
      BY <1>2, <2>1, <2>2, <3>1 DEF RolesInv, TypeOK, TablesOK
  <2>4. ASSUME NEW row \in members', Known(row)'
        PROVE  /\ roles[row.of.role].scope = "GLOBAL"
               /\ \A n \in Names : Listed(row.of.role, n)'
                    => <<row.of.user, n, None>> \in ldap'
    <3>1. PICK r : r = row.of.role
      OBVIOUS
    <3>2. \A n : Listed(r, n)' = Listed(r, n)
      <4>1. ~Renames(calls[c], r) /\ roles'[r] = roles[r]
        BY <1>1, <1>2, <2>1 DEF Renames
      <4> QED
        BY <2>1, <4>1, CommittedListed
    <3>3. CASE row \in members
      <4>1. Known(row)
        BY <2>1, <2>4 DEF Known
      <4>2. roles[r].scope = "GLOBAL"
        BY <3>1, <3>3, <4>1 DEF RolesInv
      <4>3. \A n \in Names : Listed(r, n) => <<row.of.user, n, None>> \in ldap
        BY <3>1, <3>3, <4>1 DEF RolesInv, DirectoryKnowsMembers
      <4> QED
        BY <2>1, <3>1, <3>2, <4>2, <4>3
    <3>4. CASE row \in old.added
      <4>1. row.of.area = None /\ r \notin astray'
        BY <2>4, <3>1 DEF Known
      <4>2. r = old.id /\ ~Stale(old)
        BY <2>1, <2>2, <3>1, <3>4, <4>1
      <4>3. r \in DOMAIN roles /\ roles[r] = old.read
        BY <4>2 DEF Stale
      <4>4. roles[r].scope = "GLOBAL"
        BY <2>2, <3>4, <4>1, <4>3
      <4>5. ASSUME NEW n, Listed(r, n)
            PROVE  n = old.read.name
        <5>1. CASE roles[r].name = n
          BY <4>3, <5>1
        <5>2. CASE \E d \in Calls : Renames(calls[d], r) /\ calls[d].row.name = n
          <6>1. PICK d \in Calls : Renames(calls[d], r) /\ calls[d].row.name = n
            BY <5>2
          <6>2. PICK k : k = calls[d]
            OBVIOUS
          <6>3. /\ k \in Call /\ Shape(k) /\ k.pc = "renamed" /\ k.id = r
                /\ d # c
            BY <1>1, <1>2, <6>1, <6>2 DEF Renames, RolesInv, TypeOK, CallOK
          <6>4. Wrote(k) /\ Apart(k, old)
            BY <1>1, <6>2, <6>3, RenamedWrote DEF RolesInv
          <6>5. ~Rekeys(k)
            BY <2>2, <3>1, <3>4, <6>3, <6>4 DEF Apart
          <6> QED
            BY <4>3, <6>1, <6>2, <6>3, <6>4, <6>5 DEF Rekeys
        <5> QED
          BY <4>5, <5>1, <5>2 DEF Listed
      <4>6. PICK i : i = row.of
        OBVIOUS
      <4>7. i \in old.told /\ i.area = None
        BY <2>2, <3>4, <4>1, <4>6
      <4>8. <<i.user, old.read.name, None>> \in ldap'
        BY <2>1, <4>7
      <4> QED
        BY <3>1, <3>2, <4>4, <4>5, <4>6, <4>8
    <3> QED
      BY <2>1, <3>3, <3>4
  <2>5. DirectoryKnowsMembers' /\ ScopesOK'
    BY <2>1, <2>4 DEF DirectoryKnowsMembers, ScopesOK
  <2>6. members' = (members \ old.gone) \cup old.added
    BY <1>2, <2>1
  <2>7. \A d \in Calls \ {c} : \A k : k = calls[d] =>
           /\ k.gone \subseteq members'
           /\ \A row \in members' \ members, x \in k.added : ~Clash(row, x)
    BY <1>1, <2>6, AddedFit
  <2>8. \A row, x \in members' : Clash(row, x) => row = x
    BY <1>1, <2>6, AddedFit
  <2>9. \A row \in members' : row \in members \cup old.added
    BY <2>1
  <2> QED
    BY <1>1, <2>1, <2>3, <2>5, <2>7, <2>8, <2>9, RolesKept, TableStep
<1> QED
  BY <1>3, <1>4

LEMMA SameItem ==
    ASSUME NEW i \in Item, NEW j \in Item, i.user = j.user, i.role = j.role,
           i.area = j.area
    PROVE  i = j
BY DEF Item

LEMMA SendUnassignStep ==
    ASSUME RolesInv, NEW c \in Calls, SendUnassign(c)
    PROVE  RolesInv'
<1>1. PICK old : old = calls[c]
  OBVIOUS
<1>2. /\ old \in Call /\ CallOK(old) /\ old.pc = "send" /\ old.op = "unassign"
      /\ old.id \in Ids /\ old.added = {} /\ old.read \in Role
      /\ old.told \subseteq Item
  <2>1. old \in Call /\ CallOK(old)
    BY <1>1 DEF RolesInv, TypeOK
  <2>2. old.pc = "send" /\ old.op = "unassign"
    BY <1>1 DEF SendUnassign
  <2>3. old.added \subseteq Row /\ old.told \subseteq Item
    BY <2>1, CallFields
  <2> QED
    BY <2>1, <2>2, <2>3 DEF CallOK, Shape
<1>3. CASE End(c)
  BY <1>1, <1>2, <1>3, EndStep
<1>4. CASE ~End(c)
  <2>1. PICK ok \in BOOLEAN :
        /\ ldap' = IF ok
                   THEN ldap \ {<<i.user, old.read.name, i.area>> : i \in old.told}
                   ELSE ldap
        /\ astray' = IF ok /\ (Stale(old) \/ ~old.open)
                     THEN astray \cup Concerned(old) ELSE astray
        /\ members' = members \ old.gone
        /\ calls' = Committed(c, {})
        /\ UNCHANGED <<roles, offers, asked, requests>>
    BY <1>1, <1>4 DEF SendUnassign
  <2>2. Concerned(old) \subseteq Ids
    BY <1>2, ConcernedType
  <2>3. TablesOK'
    BY <2>1, <2>2 DEF RolesInv, TypeOK, TablesOK
  <2>4. ASSUME NEW row \in members', Known(row)'
        PROVE  /\ roles[row.of.role].scope = "GLOBAL"
               /\ \A n \in Names : Listed(row.of.role, n)'
                    => <<row.of.user, n, None>> \in ldap'
    <3>1. PICK r, u : r = row.of.role /\ u = row.of.user
      OBVIOUS
    <3>2. \A n : Listed(r, n)' = Listed(r, n)
      <4>1. ~Renames(calls[c], r) /\ roles'[r] = roles[r]
        BY <1>1, <1>2, <2>1 DEF Renames
      <4> QED
        BY <2>1, <4>1, CommittedListed
    <3>3. /\ Known(row) /\ row \in members /\ row \notin old.gone
          /\ r \notin astray' /\ row.of.area = None /\ r \in DOMAIN roles
      BY <2>1, <2>4, <3>1 DEF Known, RolesInv, TypeOK
    <3>4. roles[r].scope = "GLOBAL"
      BY <3>1, <3>3 DEF RolesInv
    <3>5. ASSUME NEW n \in Names, Listed(r, n)
          PROVE  <<u, n, None>> \in ldap'
      <4>1. <<u, n, None>> \in ldap
        BY <3>1, <3>3, <3>5 DEF RolesInv, DirectoryKnowsMembers
      <4>2. ASSUME ok, NEW i \in old.told, i.user = u, old.read.name = n,
                   i.area = None
            PROVE  FALSE
        <5>1. r \notin Concerned(old) \/ (~Stale(old) /\ old.open)
          BY <2>1, <3>3, <4>2
        <5>2. r \in Concerned(old)
          BY <3>3, <3>5, <4>2 DEF Concerned
        <5>3. /\ old.open /\ old.id \in DOMAIN roles
              /\ roles[old.id].name = n
          BY <4>2, <5>1, <5>2 DEF Stale
        <5>4. r = old.id
          BY <3>3, <3>5, <5>3, OnlyByName
        <5>5. i.role = old.id /\ old.read.scope = "GLOBAL" /\ i \in Item
          BY <1>2, <4>2 DEF CallOK, Shape
        <5>6. Has(old.gone, i)
          BY <1>2, <4>2, <5>3, <5>5 DEF CallOK, GoneOK
        <5>7. PICK x \in old.gone : x.of = i
          BY <5>6 DEF Has
        <5>8. row.of \in Item
          BY <3>3 DEF RolesInv, TypeOK, Row
        <5>9. row.of = i
          BY <3>1, <3>3, <4>2, <5>4, <5>5, <5>8, SameItem
        <5>10. x \in members
          BY <1>2, <5>7 DEF CallOK, GoneOK
        <5>11. Clash(row, x)
          BY <3>3, <5>7, <5>9 DEF Clash
        <5> QED
          BY <3>3, <5>7, <5>10, <5>11 DEF RolesInv, RowsOK
      <4> QED
        BY <2>1, <4>1, <4>2
    <3> QED
      BY <3>1, <3>2, <3>4, <3>5
  <2>5. DirectoryKnowsMembers' /\ ScopesOK'
    BY <2>1, <2>4 DEF DirectoryKnowsMembers, ScopesOK
  <2>6. members' = (members \ old.gone) \cup old.added
    BY <1>2, <2>1
  <2>7. \A d \in Calls \ {c} : \A k : k = calls[d] =>
           /\ k.gone \subseteq members'
           /\ \A row \in members' \ members, x \in k.added : ~Clash(row, x)
    BY <1>1, <2>6, AddedFit
  <2>8. \A row, x \in members' : Clash(row, x) => row = x
    BY <1>1, <2>6, AddedFit
  <2>9. \A row \in members' : row \in members \cup {}
    BY <2>1
  <2> QED
    BY <1>1, <2>1, <2>3, <2>5, <2>7, <2>8, <2>9, RolesKept, TableStep
<1> QED
  BY <1>3, <1>4

LEMMA CommitReplaceStep ==
    ASSUME RolesInv, NEW c \in Calls, CommitReplace(c)
    PROVE  RolesInv'
<1>1. PICK old : old = calls[c]
  OBVIOUS
<1>2. /\ old \in Call /\ CallOK(old) /\ old.pc = "commit" /\ old.op = "replace"
      /\ old.added \subseteq Row
  BY <1>1, CallFields DEF RolesInv, TypeOK, CommitReplace
<1>3. /\ members' = (members \ old.gone) \cup old.added
      /\ calls' = Committed(c, old.added)
      /\ UNCHANGED <<roles, offers, ldap, asked, astray, requests>>
  BY <1>1 DEF CommitReplace, Seen
<1>4. \A row \in old.added : row.of.role \in DOMAIN roles /\ ~row.told
  BY <1>2 DEF CallOK, AddedOK
<1>5. TablesOK'
  BY <1>2, <1>3, <1>4 DEF RolesInv, TypeOK, TablesOK
<1>6. ASSUME NEW row \in members', Known(row)'
      PROVE  /\ roles[row.of.role].scope = "GLOBAL"
             /\ \A n \in Names : Listed(row.of.role, n)'
                  => <<row.of.user, n, None>> \in ldap
  <2>1. PICK r : r = row.of.role
    OBVIOUS
  <2>2. \A n : Listed(r, n)' = Listed(r, n)
    <3>1. ~Renames(calls[c], r) /\ roles'[r] = roles[r]
      BY <1>1, <1>2, <1>3 DEF Renames
    <3> QED
      BY <1>3, <3>1, CommittedListed
  <2>3. row \in members /\ Known(row)
    BY <1>3, <1>4, <1>6 DEF Known
  <2>4. roles[r].scope = "GLOBAL"
    BY <2>1, <2>3 DEF RolesInv
  <2>5. \A n \in Names : Listed(r, n) => <<row.of.user, n, None>> \in ldap
    BY <2>1, <2>3 DEF RolesInv, DirectoryKnowsMembers
  <2> QED
    BY <2>1, <2>2, <2>4, <2>5
<1>7. DirectoryKnowsMembers' /\ ScopesOK'
  BY <1>3, <1>6 DEF DirectoryKnowsMembers, ScopesOK
<1>8. \A d \in Calls \ {c} : \A k : k = calls[d] =>
         /\ k.gone \subseteq members'
         /\ \A row \in members' \ members, x \in k.added : ~Clash(row, x)
  BY <1>1, <1>3, AddedFit
<1>9. \A row, x \in members' : Clash(row, x) => row = x
  BY <1>1, <1>3, AddedFit
<1>10. \A row \in members' : row \in members \cup old.added
  BY <1>3
<1> QED
  BY <1>1, <1>3, <1>5, <1>7, <1>8, <1>9, <1>10, RolesKept, TableStep

\* A request that is a single statement leaves no locals.
LEMMA NothingCommitted ==
    ASSUME RolesInv, NEW c \in Calls, calls[c] = Idle, calls' = calls
    PROVE  calls' = Committed(c, {})
<1>1. ASSUME NEW d \in Calls
      PROVE  calls[d] = IF d = c THEN Idle
                        ELSE [calls[d] EXCEPT !.fresh =
                                @ /\ \A row \in {} : row.of.user # calls[d].user]
  <2>1. PICK k : k = calls[d]
    OBVIOUS
  <2>2. k \in Call
    BY <2>1 DEF RolesInv, TypeOK
  <2>3. [k EXCEPT !.fresh = @ /\ \A row \in {} : row.of.user # k.user] = k
    BY <2>2 DEF Call
  <2> QED
    BY <2>1, <2>3
<1>2. calls = [d \in Calls |-> calls[d]]
  BY DEF RolesInv, TypeOK
<1> QED
  BY <1>1, <1>2 DEF Committed

LEMMA DropRoleStep ==
    ASSUME RolesInv, NEW c \in Calls, DropRole(c)
    PROVE  RolesInv'
<1>1. PICK gone \in members :
         /\ \A d \in Calls : gone \notin calls[d].gone
         /\ members' = members \ {gone}
  BY DEF DropRole
<1>2. /\ calls[c] = Idle /\ calls' = calls
      /\ UNCHANGED <<roles, offers, ldap, asked, astray>>
      /\ requests' = requests + 1 /\ requests < MaxRequests
  BY DEF DropRole
<1>3. requests' \in 0 .. MaxRequests
  BY <1>2, RolesAssumption DEF RolesInv, TypeOK
<1>4. TablesOK'
  BY <1>1, <1>2, <1>3 DEF RolesInv, TypeOK, TablesOK
<1>5. calls' = Committed(c, {})
  BY <1>2, NothingCommitted
<1>6. DirectoryKnowsMembers' /\ ScopesOK'
  BY <1>1, <1>2 DEF RolesInv, DirectoryKnowsMembers, ScopesOK, Known, Listed, Renames
<1>7. \A row, x \in members' : Clash(row, x) => row = x
  BY <1>1 DEF RolesInv, RowsOK
<1>8. \A d \in Calls \ {c} : \A k : k = calls[d] =>
         /\ k.gone \subseteq members'
         /\ \A row \in members' \ members, x \in k.added : ~Clash(row, x)
  BY <1>1 DEF RolesInv, CallOK, GoneOK
<1>9. \A row \in members' : row \in members \cup {}
  BY <1>1
<1> QED
  BY <1>2, <1>4, <1>5, <1>6, <1>7, <1>8, <1>9, RolesKept, TableStep

-----------------------------------------------------------------------------
(* Roles come, change and go. *)

\* The areas of pairs with one role.
LEMMA Seconds ==
    ASSUME NEW r, NEW S
    PROVE  {o[2] : o \in {r} \X S} = S
<1>1. ASSUME NEW s \in S
      PROVE  s \in {o[2] : o \in {r} \X S}
  <2>1. PICK o : o = <<r, s>>
    OBVIOUS
  <2>2. o \in {r} \X S /\ o[2] = s
    BY <2>1
  <2> QED
    BY <2>2
<1>2. \A o \in {r} \X S : o[2] \in S
  OBVIOUS
<1> QED
  BY <1>1, <1>2

LEMMA CreateRoleStep ==
    ASSUME RolesInv, NEW c \in Calls, CreateRole(c)
    PROVE  RolesInv'
<1>1. PICK r \in Ids \ DOMAIN asked, new \in Role, areas \in SUBSET Areas :
         /\ NameFree(new.name, r)
         /\ \A d \in Calls : ~Claims(calls[d], new.name)
         /\ roles' = [q \in DOMAIN roles \cup {r} |->
                        IF q = r THEN new ELSE roles[q]]
         /\ offers' = offers \cup ({r} \X areas)
         /\ asked' = [q \in DOMAIN asked \cup {r} |->
                        IF q = r THEN areas ELSE asked[q]]
  BY DEF CreateRole
<1>2. /\ calls[c] = Idle /\ calls' = calls
      /\ UNCHANGED <<members, ldap, astray>>
      /\ requests' = requests + 1 /\ requests < MaxRequests
  BY DEF CreateRole
<1>3. requests' \in 0 .. MaxRequests
  BY <1>2, RolesAssumption DEF RolesInv, TypeOK
<1>4. /\ r \notin DOMAIN roles /\ DOMAIN roles' = DOMAIN roles \cup {r}
      /\ roles'[r] = new /\ \A q \in DOMAIN roles : roles'[q] = roles[q]
      /\ DOMAIN asked' = DOMAIN asked \cup {r}
      /\ asked'[r] = areas /\ \A q \in DOMAIN asked : asked'[q] = asked[q]
  BY <1>1 DEF RolesInv, TypeOK
<1>5. /\ DOMAIN roles \subseteq DOMAIN asked /\ DOMAIN asked \subseteq Ids
      /\ roles \in [DOMAIN roles -> Role]
      /\ asked \in [DOMAIN asked -> SUBSET Areas]
      /\ offers \subseteq (DOMAIN roles) \X Areas
  BY DEF RolesInv, TypeOK
<1>6. TablesOK'
  <2>1. roles' \in [DOMAIN roles' -> Role]
    BY <1>1, <1>4, <1>5
  <2>2. asked' \in [DOMAIN asked' -> SUBSET Areas]
    BY <1>1, <1>4, <1>5
  <2>3. offers' \subseteq (DOMAIN roles') \X Areas
    BY <1>1, <1>4, <1>5
  <2>4. DOMAIN roles' \subseteq DOMAIN asked' /\ DOMAIN asked' \subseteq Ids
    BY <1>1, <1>4, <1>5
  <2> QED
    BY <1>2, <1>3, <1>4, <2>1, <2>2, <2>3, <2>4 DEF RolesInv, TypeOK, TablesOK
<1>7. /\ AreasOf(r)' = {r} \X areas
      /\ \A q \in DOMAIN roles : AreasOf(q)' = AreasOf(q)
  BY <1>1, <1>4, <1>5 DEF AreasOf
<1>8. AreasOfLastUpdate'
  <2>1. {o[2] : o \in {r} \X areas} = areas
    BY Seconds
  <2>2. \A q \in DOMAIN roles : {o[2] : o \in AreasOf(q)} = asked[q]
    BY DEF RolesInv, AreasOfLastUpdate
  <2> QED
    BY <1>4, <1>5, <1>7, <2>1, <2>2 DEF AreasOfLastUpdate
<1>9. NamesDiffer'
  BY <1>1, <1>4 DEF RolesInv, NamesDiffer, NameFree
<1>10. DirectoryKnowsMembers' /\ ScopesOK'
  <2>1. ASSUME NEW row \in members
        PROVE  /\ row.of.role \in DOMAIN roles
               /\ \A n : Listed(row.of.role, n)' = Listed(row.of.role, n)
    <3>1. row.of.role \in DOMAIN roles
      BY <2>1 DEF RolesInv, TypeOK
    <3> QED
      BY <1>2, <1>4, <3>1 DEF Listed, Renames
  <2> QED
    BY <1>2, <1>4, <2>1 DEF RolesInv, DirectoryKnowsMembers, ScopesOK, Known
<1>11. ASSUME NEW d \in Calls \ {c}, NEW k, k = calls[d]
       PROVE  /\ \A row \in k.added : row.of.role \in DOMAIN roles'
              /\ k.gone \subseteq members'
              /\ Wrote(k) => /\ k.id \in DOMAIN roles'
                             /\ roles'[k.id] = roles[k.id]
                             /\ NameFree(k.row.name, k.id)'
                             /\ AreasOf(k.id)' = AreasOf(k.id)
              /\ \A row \in members' \ members, x \in k.added : ~Clash(row, x)
  <2>1. CallOK(k) /\ ~Claims(k, new.name)
    BY <1>1, <1>11 DEF RolesInv
  <2>2. Wrote(k) => k.id \in DOMAIN roles /\ NameFree(k.row.name, k.id)'
    <3>1. Wrote(k) => /\ k.id \in DOMAIN roles /\ NameFree(k.row.name, k.id)
                      /\ k.row.name # new.name
      BY <2>1 DEF CallOK, WroteOK, Claims
    <3> QED
      BY <1>4, <3>1 DEF NameFree
  <2>3. (\A row \in k.added : row.of.role \in DOMAIN roles')
        /\ k.gone \subseteq members'
    BY <1>2, <1>4, <2>1 DEF CallOK, AddedOK, GoneOK
  <2> QED
    BY <1>2, <1>4, <1>7, <2>2, <2>3
<1>12. calls' = Committed(c, {})
  BY <1>2, NothingCommitted
<1>13. \A row, x \in members' : Clash(row, x) => row = x
  BY <1>2 DEF RolesInv, RowsOK
<1>14. \A row \in members' : row \in members \cup {}
  BY <1>2
<1> QED
  BY <1>6, <1>8, <1>9, <1>10, <1>11, <1>12, <1>13, <1>14, TableStep

LEMMA CommitUpdateStep ==
    ASSUME RolesInv, NEW c \in Calls, CommitUpdate(c)
    PROVE  RolesInv'
<1>1. PICK old, r : old = calls[c] /\ r = old.id
  OBVIOUS
<1>2. /\ old \in Call /\ CallOK(old) /\ old.pc \in {"commit", "renamed"}
      /\ old.op = "update"
  BY <1>1 DEF RolesInv, TypeOK, CommitUpdate
<1>3. old.row # None /\ Wrote(old) /\ old.row \in Role /\ old.body \in Body
      /\ r \in Ids
  <2>1. old.row # None /\ Wrote(old) /\ old.body \in Body /\ r \in Ids
    BY <1>1, <1>2 DEF CallOK, Shape, Wrote
  <2> QED
    BY <1>2, <2>1, WroteRow
<1>4. /\ roles' = [roles EXCEPT ![r] = old.row]
      /\ offers' = (offers \ old.cut) \cup old.put
      /\ asked' = IF Recuts(old, old.row)
                  THEN [asked EXCEPT ![r] = old.body.areas] ELSE asked
      /\ astray' = IF Rescopes(old) \/ (old.pc = "commit" /\ Rekeys(old))
                   THEN astray \cup {r} ELSE astray
      /\ calls' = Committed(c, {})
      /\ UNCHANGED <<members, ldap, requests>>
  BY <1>1 DEF CommitUpdate
<1>5. /\ r \in DOMAIN roles /\ NameFree(old.row.name, r)
      /\ IF Recuts(old, old.row)
         THEN old.cut = AreasOf(r) /\ old.put = {r} \X old.body.areas
         ELSE old.cut = {} /\ old.put = {}
  BY <1>1, <1>2, <1>3 DEF CallOK, WroteOK
<1>6. Recuts(old, old.row) => old.body.areas \subseteq Areas
  BY <1>3 DEF Recuts, Body
<1>7. /\ DOMAIN roles \subseteq DOMAIN asked /\ DOMAIN asked \subseteq Ids
      /\ roles \in [DOMAIN roles -> Role]
      /\ asked \in [DOMAIN asked -> SUBSET Areas]
      /\ offers \subseteq (DOMAIN roles) \X Areas
  BY DEF RolesInv, TypeOK
<1>8. /\ DOMAIN roles' = DOMAIN roles /\ roles'[r] = old.row
      /\ \A q \in DOMAIN roles : q # r => roles'[q] = roles[q]
      /\ DOMAIN asked' = DOMAIN asked
      /\ \A q \in DOMAIN asked : q # r => asked'[q] = asked[q]
      /\ Recuts(old, old.row) => asked'[r] = old.body.areas
      /\ ~Recuts(old, old.row) => asked'[r] = asked[r]
  BY <1>4, <1>5, <1>7
<1>9. /\ Recuts(old, old.row) => AreasOf(r)' = {r} \X old.body.areas
      /\ ~Recuts(old, old.row) => AreasOf(r)' = AreasOf(r)
      /\ \A q : q # r => AreasOf(q)' = AreasOf(q)
  BY <1>4, <1>5 DEF AreasOf
<1>10. TablesOK'
  <2>1. roles' \in [DOMAIN roles' -> Role]
    BY <1>3, <1>4, <1>7, <1>8
  <2>2. asked' \in [DOMAIN asked' -> SUBSET Areas]
    BY <1>4, <1>6, <1>7, <1>8
  <2>3. offers' \subseteq (DOMAIN roles') \X Areas
    BY <1>4, <1>5, <1>6, <1>7, <1>8
  <2> QED
    BY <1>3, <1>4, <1>8, <2>1, <2>2, <2>3 DEF RolesInv, TypeOK, TablesOK
<1>11. AreasOfLastUpdate'
  <2>1. \A q \in DOMAIN roles : {o[2] : o \in AreasOf(q)} = asked[q]
    BY DEF RolesInv, AreasOfLastUpdate
  <2>2. {o[2] : o \in AreasOf(r)'} = asked'[r]
    <3>1. CASE Recuts(old, old.row)
      <4>1. PICK S : S = old.body.areas
        OBVIOUS
      <4>2. AreasOf(r)' = {r} \X S /\ asked'[r] = S
        BY <1>8, <1>9, <3>1, <4>1
      <4> QED
        BY <4>2, Seconds
    <3>2. CASE ~Recuts(old, old.row)
      BY <1>5, <1>8, <1>9, <2>1, <3>2
    <3> QED
      BY <3>1, <3>2
  <2>3. \A q \in DOMAIN roles : q # r =>
          {o[2] : o \in AreasOf(q)'} = asked'[q]
    BY <1>7, <1>8, <1>9, <2>1
  <2> QED
    BY <1>8, <2>2, <2>3 DEF AreasOfLastUpdate
<1>12. NamesDiffer'
  BY <1>5, <1>8 DEF RolesInv, NamesDiffer, NameFree
<1>13. ASSUME NEW row \in members, Known(row)'
       PROVE  /\ roles'[row.of.role].scope = "GLOBAL"
              /\ \A n \in Names : Listed(row.of.role, n)'
                   => <<row.of.user, n, None>> \in ldap
  <2>1. PICK q : q = row.of.role
    OBVIOUS
  <2>2. /\ q \in DOMAIN roles /\ Known(row) /\ q \notin astray'
        /\ roles[q].scope = "GLOBAL"
        /\ \A n \in Names : Listed(q, n) => <<row.of.user, n, None>> \in ldap
    BY <1>4, <1>13, <2>1 DEF Known, RolesInv, TypeOK, DirectoryKnowsMembers
  <2>3. CASE q # r
    <3>1. roles'[q] = roles[q] /\ ~Renames(calls[c], q)
      BY <1>1, <1>8, <2>2, <2>3 DEF Renames
    <3>2. \A n : Listed(q, n)' = Listed(q, n)
      BY <1>4, <3>1, CommittedListed
    <3> QED
      BY <2>1, <2>2, <3>1, <3>2
  <2>4. CASE q = r
    <3>1. ~Rescopes(old) /\ ~(old.pc = "commit" /\ Rekeys(old))
      BY <1>4, <2>2, <2>4
    <3>2. roles'[r].scope = "GLOBAL"
      BY <1>1, <1>8, <2>2, <2>4, <3>1 DEF Rescopes
    <3>3. ASSUME NEW d \in Calls \ {c}
          PROVE  ~Renames(calls[d], r)
      <4>1. ASSUME Renames(calls[d], r)
            PROVE  FALSE
        <5>1. /\ calls[d] \in Call /\ Shape(calls[d])
              /\ calls[d].pc = "renamed" /\ calls[d].id = r
          BY <4>1 DEF Renames, RolesInv, TypeOK, CallOK
        <5>2. Wrote(calls[d])
          BY <5>1, RenamedWrote
        <5> QED
          BY <1>1, <1>3, <5>1, <5>2 DEF RolesInv, Apart
      <4> QED
        BY <4>1
    <3>4. ASSUME NEW n, Listed(r, n)'
          PROVE  n = old.row.name
      <4>1. ASSUME NEW d \in Calls
            PROVE  ~Renames(calls'[d], r)
        <5>1. CASE d = c
          <6>1. calls'[c] = Idle
            BY <1>4, CommittedAlike
          <6> QED
            BY <5>1, <6>1, IdleOK DEF Renames
        <5>2. CASE d # c
          <6>1. PICK k, kk : k = calls[d] /\ kk = calls'[d]
            OBVIOUS
          <6>2. Alike(k, kk)
            BY <1>4, <5>2, <6>1, CommittedAlike
          <6> QED
            BY <3>3, <5>2, <6>1, <6>2 DEF Renames, Alike
        <5> QED
          BY <5>1, <5>2
      <4> QED
        BY <1>8, <3>4, <4>1 DEF Listed, Renames
    <3>5. Listed(r, old.row.name)
      <4>1. CASE old.pc = "renamed"
        BY <1>1, <4>1 DEF Listed, Renames
      <4>2. CASE old.pc = "commit"
        <5>1. old.row.name = roles[r].name
          BY <1>1, <1>3, <1>5, <3>1, <4>2 DEF Rekeys
        <5>2. ~Renames(calls[c], r)
          BY <1>1, <4>2 DEF Renames
        <5> QED
          BY <3>3, <5>1, <5>2 DEF Listed
      <4> QED
        BY <1>2, <4>1, <4>2
    <3> QED
      BY <2>1, <2>2, <2>4, <3>2, <3>4, <3>5
  <2> QED
    BY <2>3, <2>4
<1>14. DirectoryKnowsMembers' /\ ScopesOK'
  BY <1>4, <1>13 DEF DirectoryKnowsMembers, ScopesOK
<1>15. ASSUME NEW d \in Calls \ {c}, NEW k, k = calls[d]
       PROVE  /\ \A row \in k.added : row.of.role \in DOMAIN roles'
              /\ k.gone \subseteq members'
              /\ Wrote(k) => /\ k.id \in DOMAIN roles'
                             /\ roles'[k.id] = roles[k.id]
                             /\ NameFree(k.row.name, k.id)'
                             /\ AreasOf(k.id)' = AreasOf(k.id)
              /\ \A row \in members' \ members, x \in k.added : ~Clash(row, x)
  <2>1. CallOK(k) /\ Apart(old, k)
    BY <1>1, <1>15 DEF RolesInv
  <2>2. ASSUME Wrote(k)
        PROVE  /\ k.id \in DOMAIN roles /\ k.id # r
               /\ NameFree(k.row.name, k.id)'
    <3>1. /\ k.id \in DOMAIN roles /\ NameFree(k.row.name, k.id)
          /\ k.id # r /\ k.row.name # old.row.name
      BY <1>1, <1>3, <2>1, <2>2 DEF CallOK, WroteOK, Apart
    <3> QED
      BY <1>8, <3>1 DEF NameFree
  <2>3. (\A row \in k.added : row.of.role \in DOMAIN roles')
        /\ k.gone \subseteq members'
    BY <1>4, <1>8, <2>1 DEF CallOK, AddedOK, GoneOK
  <2> QED
    BY <1>4, <1>8, <1>9, <2>2, <2>3
<1>16. \A row, x \in members' : Clash(row, x) => row = x
  BY <1>4 DEF RolesInv, RowsOK
<1>17. \A row \in members' : row \in members \cup {}
  BY <1>4
<1> QED
  BY <1>4, <1>10, <1>11, <1>12, <1>14, <1>15, <1>16, <1>17, TableStep

LEMMA EraseRoleStep ==
    ASSUME RolesInv, NEW c \in Calls, EraseRole(c)
    PROVE  RolesInv'
<1>1. PICK old, r : old = calls[c] /\ r = old.id
  OBVIOUS
<1>2. old \in Call /\ CallOK(old) /\ old.pc = "erase" /\ Blockers(c) = {}
  BY <1>1 DEF RolesInv, TypeOK, EraseRole
<1>3. CASE End(c)
  BY <1>1, <1>2, <1>3, EndStep
<1>4. CASE ~End(c)
  <2>1. /\ r \in DOMAIN roles
        /\ roles' = [q \in DOMAIN roles \ {r} |-> roles[q]]
        /\ offers' = {o \in offers : o[1] # r}
        /\ members' = {row \in members : row.of.role # r}
        /\ calls' = Committed(c, {})
        /\ UNCHANGED <<ldap, asked, astray, requests>>
    BY <1>1, <1>4 DEF EraseRole
  <2>2. /\ DOMAIN roles' = DOMAIN roles \ {r}
        /\ \A q \in DOMAIN roles' : roles'[q] = roles[q]
    BY <2>1
  <2>3. \A q \in DOMAIN roles' : AreasOf(q)' = AreasOf(q)
    BY <2>1, <2>2 DEF AreasOf
  <2>4. TablesOK'
    BY <2>1, <2>2 DEF RolesInv, TypeOK, TablesOK
  <2>5. AreasOfLastUpdate'
    BY <2>1, <2>2, <2>3 DEF RolesInv, AreasOfLastUpdate
  <2>6. NamesDiffer'
    BY <2>2 DEF RolesInv, NamesDiffer
  <2>7. DirectoryKnowsMembers' /\ ScopesOK'
    <3>1. ASSUME NEW row \in members', Known(row)'
          PROVE  /\ roles'[row.of.role].scope = "GLOBAL"
                 /\ \A n \in Names : Listed(row.of.role, n)'
                      => <<row.of.user, n, None>> \in ldap
      <4>1. PICK q : q = row.of.role
        OBVIOUS
      <4>2. /\ q \in DOMAIN roles' /\ q # r /\ Known(row) /\ row \in members
            /\ roles[q].scope = "GLOBAL"
            /\ \A n \in Names : Listed(q, n) => <<row.of.user, n, None>> \in ldap
        BY <2>1, <2>2, <3>1, <4>1 DEF Known, RolesInv, TypeOK, DirectoryKnowsMembers
      <4>3. ~Renames(calls[c], q) /\ roles'[q] = roles[q]
        BY <1>1, <1>2, <2>2, <4>2 DEF Renames
      <4>4. \A n : Listed(q, n)' = Listed(q, n)
        BY <2>1, <4>3, CommittedListed
      <4> QED
        BY <4>1, <4>2, <4>3, <4>4
    <3> QED
      BY <2>1, <3>1 DEF DirectoryKnowsMembers, ScopesOK
  <2>8. ASSUME NEW d \in Calls \ {c}, NEW k, k = calls[d]
        PROVE  /\ \A row \in k.added : row.of.role \in DOMAIN roles'
               /\ k.gone \subseteq members'
               /\ Wrote(k) => /\ k.id \in DOMAIN roles'
                              /\ roles'[k.id] = roles[k.id]
                              /\ NameFree(k.row.name, k.id)'
                              /\ AreasOf(k.id)' = AreasOf(k.id)
               /\ \A row \in members' \ members, x \in k.added : ~Clash(row, x)
    <3>1. ~EraseWaits(old, k)
      BY <1>1, <1>2, <2>8 DEF Blockers
    <3>2. /\ Wrote(k) => k.id # r
          /\ \A row \in k.added \cup k.gone : row.of.role # r
      BY <1>1, <3>1 DEF EraseWaits
    <3>3. CallOK(k)
      BY <2>8 DEF RolesInv
    <3>4. /\ \A row \in k.added : row.of.role \in DOMAIN roles'
          /\ k.gone \subseteq members'
      BY <2>1, <2>2, <3>2, <3>3 DEF CallOK, AddedOK, GoneOK
    <3>5. Wrote(k) => k.id \in DOMAIN roles' /\ NameFree(k.row.name, k.id)'
      BY <2>2, <3>2, <3>3 DEF CallOK, WroteOK, NameFree
    <3> QED
      BY <2>1, <2>2, <2>3, <3>4, <3>5
  <2>9. \A row, x \in members' : Clash(row, x) => row = x
    BY <2>1 DEF RolesInv, RowsOK
  <2>10. \A row \in members' : row \in members \cup {}
    BY <2>1
  <2> QED
    BY <2>1, <2>4, <2>5, <2>6, <2>7, <2>8, <2>9, <2>10, TableStep
<1> QED
  BY <1>3, <1>4

-----------------------------------------------------------------------------
(* Inserts. *)

LEMMA InsertedAlike ==
    ASSUME RolesInv, NEW c \in Calls, NEW next \in Call, NEW item,
           calls' = Inserted(c, next, item)
    PROVE  /\ calls' \in [Calls -> Call] /\ calls'[c] = next
           /\ \A d \in Calls \ {c} : \A k, kk :
                 k = calls[d] /\ kk = calls'[d] =>
                   /\ Alike(k, kk)
                   /\ kk.sure => ~(k.pc = "insert" /\ k.item = item)
                   /\ kk.fresh => next.open \/ k.user # item.user
<1>1. ASSUME NEW d \in Calls \ {c}, NEW k, NEW kk, k = calls[d], kk = calls'[d]
      PROVE  /\ Alike(k, kk)
             /\ kk.sure => ~(k.pc = "insert" /\ k.item = item)
             /\ kk.fresh => next.open \/ k.user # item.user
  <2>1. k \in Call
    BY <1>1 DEF RolesInv, TypeOK
  <2>2. PICK sure, fresh :
           /\ sure = (k.sure /\ ~(k.pc = "insert" /\ k.item = item))
           /\ fresh = (k.fresh /\ (next.open \/ k.user # item.user))
    OBVIOUS
  <2>3. sure \in BOOLEAN /\ fresh \in BOOLEAN
    BY <2>2
  <2>4. kk = [k EXCEPT !.sure = sure, !.fresh = fresh]
    BY <1>1, <2>1, <2>2 DEF Inserted, Call
  <2>5. kk \in Call /\ kk.sure = sure /\ kk.fresh = fresh
    <3>1. PICK a : a = [k EXCEPT !.sure = sure]
      OBVIOUS
    <3>2. a \in Call /\ a.sure = sure
      BY <2>1, <2>3, <3>1 DEF Call
    <3>3. kk = [a EXCEPT !.fresh = fresh]
      BY <2>1, <2>4, <3>1 DEF Call
    <3> QED
      BY <2>3, <3>2, <3>3 DEF Call
  <2>6. /\ kk.op = k.op /\ kk.pc = k.pc /\ kk.id = k.id /\ kk.read = k.read
        /\ kk.area = k.area /\ kk.user = k.user /\ kk.body = k.body
        /\ kk.want = k.want /\ kk.todo = k.todo /\ kk.told = k.told
        /\ kk.item = k.item /\ kk.open = k.open /\ kk.added = k.added
        /\ kk.gone = k.gone /\ kk.row = k.row /\ kk.cut = k.cut
        /\ kk.put = k.put
    BY <2>1, <2>4 DEF Call
  <2> QED
    BY <2>2, <2>5, <2>6 DEF Alike
<1>2. \A d \in Calls : calls'[d] \in Call
  <2>1. calls'[c] = next
    BY DEF Inserted
  <2> QED
    BY <1>1, <2>1 DEF Alike
<1> QED
  BY <1>1, <1>2 DEF Inserted

\* The row an insert makes clashes only with what the handler has deleted.
LEMMA NewRowFits ==
    ASSUME NEW old \in Call, NEW row, CallOK(old), old.pc = "insert",
           row.of = old.item, row.sure = old.sure, ~Refused(old),
           NEW x \in Rows, Clash(row, x) \/ Clash(x, row),
           x \in members \/ x \in old.added \/ old.item.area # None
    PROVE  x \in old.gone /\ x \notin old.added
<1>1. x.of = old.item
  BY DEF Clash
<1>2. CASE old.item.area = None
  BY <1>1, <1>2 DEF Refused, Has, Seen
<1>3. CASE old.item.area # None
  <2>1. old.sure
    BY <1>3 DEF Clash
  <2> QED
    BY <1>1, <2>1 DEF CallOK, SureOK
<1> QED
  BY <1>2, <1>3

LEMMA InsertStep ==
    ASSUME RolesInv, NEW c \in Calls, Insert(c)
    PROVE  RolesInv'
<1>1. PICK old, item : old = calls[c] /\ item = old.item
  OBVIOUS
<1>2. old \in Call
  BY <1>1 DEF RolesInv, TypeOK
<1>3. CallOK(old) /\ Shape(old) /\ old.pc = "insert" /\ Blockers(c) = {}
  BY <1>1 DEF RolesInv, CallOK, Insert
<1>4. CASE End(c)
  BY <1>1, <1>3, <1>4, EndStep
<1>5. CASE ~End(c)
  <2>1. PICK row : row = NewRow(old)
    OBVIOUS
  <2>2. PICK added : added = IF old.open THEN old.added \cup {row} ELSE old.added
    OBVIOUS
  <2>3. PICK next : next = [old EXCEPT !.pc = "look", !.todo = @ \ {item},
                              !.item = None, !.sure = FALSE, !.added = added]
    OBVIOUS
  <2>4. /\ ~Refused(old) /\ row.id \in RowIds
        /\ members' = IF old.open THEN members ELSE members \cup {row}
        /\ calls' = Inserted(c, next, item)
        /\ UNCHANGED <<roles, offers, ldap, asked, astray, requests>>
    BY <1>1, <1>2, <1>5, <2>1, <2>2, <2>3 DEF Insert, Call
  <2>5. /\ old.op \in {"assign", "replace", "grant"} /\ item \in old.todo
        /\ item \in Item /\ item.role \in DOMAIN roles /\ old.row = None
        /\ old.open \in BOOLEAN /\ old.sure \in BOOLEAN
    BY <1>1, <1>2, <1>3, <2>4, CallFields DEF Shape, Refused
  <2>6. /\ row.of = item /\ row.told = (old.op = "assign")
        /\ row.sure = old.sure /\ row \in Row
    BY <1>1, <2>1, <2>4, <2>5 DEF NewRow, Row
  <2>7. /\ added \in SUBSET Row
        /\ next \in Call
        /\ next.op = old.op /\ next.pc = "look" /\ next.todo = old.todo \ {item}
        /\ next.added = added /\ next.sure = FALSE
    <3>1. added \in SUBSET Row
      BY <1>2, <2>2, <2>6, CallFields
    <3>2. PICK pc \in Points : pc = "look"
      BY DEF Points
    <3>3. PICK todo \in SUBSET Item : todo = old.todo \ {item}
      BY <1>2, CallFields
    <3>4. PICK one \in Item \cup {None} : one = None
      OBVIOUS
    <3>5. PICK sure \in BOOLEAN : sure = FALSE
      OBVIOUS
    <3>6. PICK a : a = [old EXCEPT !.pc = pc, !.todo = todo, !.item = one]
      OBVIOUS
    <3>7. a \in Call /\ a.op = old.op /\ a.pc = pc /\ a.todo = todo
      BY <1>2, <3>6 DEF Call
    <3>8. next = [a EXCEPT !.sure = sure, !.added = added]
      BY <1>2, <2>3, <3>2, <3>3, <3>4, <3>5, <3>6 DEF Call
    <3>9. next \in Call
      BY <3>1, <3>7, <3>8 DEF Call
    <3>10. /\ next.op = a.op /\ next.pc = a.pc /\ next.todo = a.todo
           /\ next.added = added /\ next.sure = sure
      BY <3>7, <3>8 DEF Call
    <3> QED
      BY <3>1, <3>2, <3>3, <3>5, <3>7, <3>9, <3>10
  <2>8. /\ next.id = old.id /\ next.read = old.read /\ next.area = old.area
        /\ next.user = old.user /\ next.body = old.body /\ next.want = old.want
        /\ next.told = old.told /\ next.fresh = old.fresh
        /\ next.open = old.open /\ next.gone = old.gone /\ next.row = None
        /\ next.cut = old.cut /\ next.put = old.put
    BY <1>2, <2>3, <2>5 DEF Call
  <2>9. /\ calls' \in [Calls -> Call] /\ calls'[c] = next
        /\ \A d \in Calls \ {c} : \A k, kk :
              k = calls[d] /\ kk = calls'[d] =>
                /\ Alike(k, kk)
                /\ kk.sure => ~(k.pc = "insert" /\ k.item = item)
                /\ kk.fresh => old.open \/ k.user # item.user
    BY <2>4, <2>7, <2>8, InsertedAlike
  <2>10. ~Wrote(next) /\ ~Wrote(next)'
    BY <2>8 DEF Wrote
  <2>11. \A x \in Rows' : x \in Rows \/ x = row
    <3>1. \A d \in Calls : \A x \in calls'[d].added :
             x \in calls[d].added \/ x = row
      BY <1>1, <2>2, <2>7, <2>9 DEF Alike
    <3> QED
      BY <2>4, <3>1 DEF Rows
  <2>12. CallOK(next)'
    <3>1. Shape(next)
      <4>1. next.open \/ {next.added, next.gone, next.cut, next.put} = {{}}
        BY <1>3, <2>2, <2>7, <2>8 DEF Shape
      <4> QED
        BY <1>3, <2>5, <2>7, <2>8, <4>1 DEF Shape
    <3>2. AddedOK(next)'
      BY <1>3, <2>2, <2>4, <2>5, <2>6, <2>7, <2>8 DEF CallOK, AddedOK, Shape
    <3>3. GoneOK(next)'
      BY <1>3, <2>4, <2>5, <2>7, <2>8 DEF CallOK, GoneOK, Shape
    <3>4. WroteOK(next)' /\ SureOK(next)'
      BY <2>7, <2>10 DEF WroteOK, SureOK
    <3>5. Shape(next)'
      BY <3>1 DEF Shape
    <3> QED
      BY <3>2, <3>3, <3>4, <3>5 DEF CallOK
  <2>13. RowsFit(old)
    BY <1>1 DEF RolesInv, RowsOK, RowsFit
  <2>14. members \subseteq Rows /\ old.added \subseteq Rows
    BY <1>1 DEF Rows
  <2>15. \A x \in members \cup old.added :
            Clash(row, x) \/ Clash(x, row) => x \in old.gone /\ x \notin old.added
    BY <1>1, <1>2, <1>3, <2>4, <2>6, <2>14, NewRowFits
  <2>16. RowsFit(next)'
    <3>1. CASE old.open
      BY <2>2, <2>4, <2>7, <2>8, <2>13, <2>15, <3>1 DEF RowsFit, Clash
    <3>2. CASE ~old.open
      <4>1. next.added = {}
        BY <1>3, <2>2, <2>7, <3>2 DEF Shape
      <4> QED
        BY <4>1 DEF RowsFit
    <3> QED
      BY <3>1, <3>2
  <2>17. old.open \/ (old.gone = {} /\ row.told = FALSE)
    BY <1>3, <2>5, <2>6 DEF Shape
  <2>18. TablesOK' /\ AreasOfLastUpdate' /\ NamesDiffer'
    BY <2>4, <2>5, <2>6
       DEF RolesInv, TypeOK, TablesOK, AreasOfLastUpdate, AreasOf, NamesDiffer
  <2>19. ASSUME NEW x \in members', Known(x)'
         PROVE  x \in members /\ Known(x)
    BY <2>4, <2>17, <2>19 DEF Known
  <2>20. ScopesOK'
    BY <2>4, <2>19 DEF RolesInv, ScopesOK
  <2>21. ASSUME NEW r, NEW n
         PROVE  Listed(r, n)' = Listed(r, n)
    <3>1. ASSUME NEW d \in Calls
          PROVE  /\ Renames(calls'[d], r) = Renames(calls[d], r)
                 /\ Renames(calls[d], r) => calls'[d].row = calls[d].row
      <4>1. CASE d = c
        BY <1>1, <1>3, <2>7, <2>9, <4>1 DEF Renames
      <4>2. CASE d # c
        BY <2>9, <4>2 DEF Renames, Alike
      <4> QED
        BY <4>1, <4>2
    <3> QED
      BY <2>4, <3>1, ListedSame
  <2>22. DirectoryKnowsMembers'
    BY <2>4, <2>19, <2>21 DEF RolesInv, DirectoryKnowsMembers
  <2>23. \A z, x \in members' : Clash(z, x) => z = x
    BY <2>4, <2>15, <2>17 DEF RolesInv, RowsOK
  <2>24. ASSUME NEW d \in Calls \ {c}, NEW k, NEW kk, k = calls[d],
                kk = calls'[d]
         PROVE  /\ Alike(k, kk) /\ Kept(k, kk)
                /\ \A z \in members' \ members, x \in k.added : ~Clash(z, x)
                /\ Apart(next, kk)' /\ Apart(kk, next)'
    <3>1. /\ Alike(k, kk)
          /\ kk.sure => ~(k.pc = "insert" /\ k.item = item)
          /\ kk.fresh => old.open \/ k.user # item.user
      BY <2>9, <2>24
    <3>2. /\ k \in Call /\ CallOK(k) /\ Apart(old, k) /\ Apart(k, old)
          /\ RowsFit(k)
      BY <1>1, <2>24 DEF RolesInv, TypeOK, RowsOK, RowsFit
    <3>3. ~InsertWaits(old, k)
      BY <1>1, <1>3, <2>24 DEF Blockers
    <3>4. Kept(k, kk)
      <4>1. kk.fresh /\ k.op = "replace" =>
              {z \in members' : z.of.user = k.user}
                \subseteq {z \in members : z.of.user = k.user}
        BY <2>4, <2>6, <3>1
      <4>2. k.pc = "insert" /\ kk.sure =>
              \A z \in Rows' : z.of = k.item => z \in Rows
        BY <2>6, <2>11, <3>1
      <4>3. Wrote(k) => /\ k.id \in DOMAIN roles' /\ roles'[k.id] = roles[k.id]
                        /\ NameFree(k.row.name, k.id)'
                        /\ AreasOf(k.id)' = AreasOf(k.id)
        BY <2>4, <3>2 DEF CallOK, WroteOK, NameFree, AreasOf
      <4>4. (\A z \in k.added : z.of.role \in DOMAIN roles')
            /\ k.gone \subseteq members'
        BY <2>4, <3>2 DEF CallOK, AddedOK, GoneOK
      <4> QED
        BY <4>1, <4>2, <4>3, <4>4 DEF Kept
    <3>5. ASSUME NEW x \in k.added
          PROVE  ~Clash(row, x) /\ ~Clash(x, row)
      <4>1. SUFFICES ASSUME Clash(row, x) \/ Clash(x, row) PROVE FALSE
        OBVIOUS
      <4>2. x.of = item /\ x \in Rows
        BY <2>6, <2>24, <4>1 DEF Clash, Rows
      <4>3. item.area # None
        BY <1>1, <3>3, <4>2 DEF InsertWaits, Has
      <4>4. x \in old.gone
        BY <1>1, <1>2, <1>3, <2>4, <2>6, <4>1, <4>2, <4>3, NewRowFits
      <4>5. x \in members /\ Clash(x, x)
        BY <1>3, <2>6, <4>1, <4>2, <4>3, <4>4 DEF CallOK, GoneOK, Clash
      <4>6. x \in k.gone
        BY <3>2, <4>5 DEF RowsFit
      <4> QED
        BY <3>2, <4>4, <4>6 DEF Apart
    <3>6. \A z \in members' \ members, x \in k.added : ~Clash(z, x)
      BY <2>4, <3>5
    <3>7. Rekeys(kk)' => Rekeys(k)
      BY <2>4, <3>1 DEF Rekeys, Wrote, Alike
    <3>8. /\ kk.added = k.added /\ kk.gone = k.gone /\ kk.id = k.id
      BY <3>1 DEF Alike
    <3>9. \A z \in next.added : z \in old.added \/ z = row
      BY <2>2, <2>7
    <3>10. Apart(next, kk)'
      <4>1. next.gone \cap kk.gone = {}
        BY <2>8, <3>2, <3>8 DEF Apart
      <4>2. \A z \in next.added, x \in kk.added : ~Clash(z, x)
        BY <3>2, <3>5, <3>8, <3>9 DEF Apart
      <4> QED
        BY <2>10, <4>1, <4>2 DEF Apart, Clash, Rekeys
    <3>11. Apart(kk, next)'
      <4>1. kk.gone \cap next.gone = {}
        BY <2>8, <3>2, <3>8 DEF Apart
      <4>2. \A z \in kk.added, x \in next.added : ~Clash(z, x)
        BY <3>2, <3>5, <3>8, <3>9 DEF Apart
      <4>3. Rekeys(kk)' => \A z \in next.added : z.of.role # kk.id
        BY <1>1, <2>6, <3>2, <3>3, <3>7, <3>8, <3>9 DEF Apart, InsertWaits
      <4> QED
        BY <2>10, <4>1, <4>2, <4>3 DEF Apart, Clash
    <3> QED
      BY <3>1, <3>4, <3>6, <3>10, <3>11
  <2> QED
    BY <2>7, <2>9, <2>12, <2>16, <2>18, <2>20, <2>22, <2>23, <2>24, AnyStep
<1> QED
  BY <1>4, <1>5

-----------------------------------------------------------------------------
(* The theorems. *)

LEMMA InitOK ==
    Init => RolesInv
<1> SUFFICES ASSUME Init PROVE RolesInv
  OBVIOUS
<1>1. \A c \in Calls : calls[c] = Idle
  BY DEF Init
<1>2. TypeOK
  <2>1. DOMAIN Seeded \subseteq Ids /\ Seeded \in [DOMAIN Seeded -> Role]
        /\ Offered \subseteq (DOMAIN Seeded) \X Areas /\ MaxRequests \in Nat
    BY RolesAssumption
  <2> QED
    BY <2>1, IdleOK DEF Init, TypeOK
<1>3. DirectoryKnowsMembers
      /\ \A row \in members : Known(row) => roles[row.of.role].scope = "GLOBAL"
  BY DEF Init, DirectoryKnowsMembers
<1>4. AreasOfLastUpdate
  <2>1. Offered \subseteq (DOMAIN Seeded) \X Areas
    BY RolesAssumption
  <2>2. ASSUME NEW r \in DOMAIN roles
        PROVE  {o[2] : o \in AreasOf(r)} = {a \in Areas : <<r, a>> \in Offered}
    BY <2>1 DEF Init, AreasOf
  <2> QED
    BY <2>2 DEF Init, AreasOfLastUpdate
<1>5. \A r, q \in DOMAIN roles : roles[r].name = roles[q].name => r = q
  BY RolesAssumption DEF Init
<1>6. RowsOK
  BY <1>1, IdleOK DEF Init, RowsOK
<1>7. \A c \in Calls : CallOK(calls[c])
  BY <1>1, IdleOK
<1>8. \A c, d \in Calls : c # d => Apart(calls[c], calls[d])
  BY <1>1, IdleOK DEF Apart, Rekeys
<1> QED
  BY <1>2, <1>3, <1>4, <1>5, <1>6, <1>7, <1>8 DEF RolesInv

LEMMA NextStep ==
    RolesInv /\ [Next]_vars => RolesInv'
<1> SUFFICES ASSUME RolesInv, [Next]_vars PROVE RolesInv'
  OBVIOUS
<1>1. CASE UNCHANGED vars
  <2>1. UNCHANGED <<roles, offers, members, ldap, calls, asked, astray,
                    requests>>
    BY <1>1 DEF vars
  <2>2. TypeOK' /\ AreasOfLastUpdate' /\ RowsOK'
    BY <2>1 DEF RolesInv, TypeOK, AreasOfLastUpdate, AreasOf, RowsOK, Clash
  <2>3. /\ \A row \in members' : Known(row)'
               => roles'[row.of.role].scope = "GLOBAL"
        /\ \A r, q \in DOMAIN roles' : roles'[r].name = roles'[q].name => r = q
    BY <2>1 DEF RolesInv, Known
  <2>4. \A r, n : Listed(r, n)' = Listed(r, n)
    BY <2>1 DEF Listed, Renames
  <2>5. DirectoryKnowsMembers'
    BY <2>1, <2>4 DEF RolesInv, DirectoryKnowsMembers, Known
  <2>6. ASSUME NEW c \in Calls
        PROVE  CallOK(calls[c])'
    <3>1. PICK k : k = calls[c]
      OBVIOUS
    <3>2. k \in Call /\ CallOK(k) /\ calls'[c] = k
      BY <2>1, <3>1 DEF RolesInv, TypeOK
    <3>3. Rows' = Rows
      BY <2>1 DEF Rows
    <3>4. Kept(k, k)
      BY <2>1, <3>2, <3>3
         DEF Kept, CallOK, AddedOK, GoneOK, WroteOK, NameFree, AreasOf
    <3>5. CallOK(k)'
      BY <3>2, <3>4, AlikeRefl, AlikeOK
    <3> QED
      BY <3>2, <3>5
  <2>7. ASSUME NEW c \in Calls, NEW d \in Calls, c # d
        PROVE  Apart(calls[c], calls[d])'
    <3>1. Apart(calls[c], calls[d])
      BY <2>7 DEF RolesInv
    <3> QED
      BY <2>1, <3>1 DEF Apart, Rekeys, Wrote, Clash
  <2> QED
    BY <2>2, <2>3, <2>5, <2>6, <2>7 DEF RolesInv, Known
<1>2. ASSUME NEW c \in Calls, Onward(c)
      PROVE  RolesInv'
  BY <1>2, FilterStep, LookStep, InsertStep, DoneStep, SendAssignStep,
     DeleteRowsStep, SendUnassignStep, PurgeUserStep, CommitReplaceStep,
     WriteRoleStep, ReplaceAreasStep, ReadNameStep, CommitUpdateStep,
     SendRenameStep, PurgeRoleStep, SendDeleteStep, EraseRoleStep,
     BreakDeadlockStep
     DEF Onward
<1>3. ASSUME NEW c \in Calls, CallStep(c)
      PROVE  RolesInv'
  BY <1>2, <1>3, BeginAssignStep, BeginUnassignStep, BeginGrantStep,
     BeginReplaceStep, DropRoleStep, CreateRoleStep, BeginUpdateStep,
     BeginRemoveStep, TimeOutStep
     DEF CallStep
<1> QED
  BY <1>1, <1>3 DEF Next

(* What the handlers rely on holds in every state, however they overlap    *)
(* (roles.service.ts:68-380, users.service.ts:363-461).                    *)
THEOREM RolesInvariant == Spec => []RolesInv
<1> QED
  BY InitOK, NextStep, PTL DEF Spec

(* The state keeps its type; in particular nobody keeps a role that is     *)
(* gone (roles.service.ts:284-306, schema.prisma:117-129).                 *)
THEOREM RolesTypeOK == Spec => []TypeOK
<1>1. RolesInv => TypeOK
  BY DEF RolesInv
<1> QED
  BY <1>1, RolesInvariant, PTL

(* LDAP has in the group of a global role whoever the roles service has    *)
(* given it, as long as it was told the truth of the role                  *)
(* (roles.service.ts:154-168, 193-213).                                    *)
THEOREM DirectorySound == Spec => []DirectoryKnowsMembers
<1>1. RolesInv => DirectoryKnowsMembers
  BY DEF RolesInv
<1> QED
  BY <1>1, RolesInvariant, PTL

(* The areas of a role are those of the last request that was granted      *)
(* (roles.service.ts:193-207).                                             *)
THEOREM AreasSound == Spec => []AreasOfLastUpdate
<1>1. RolesInv => AreasOfLastUpdate
  BY DEF RolesInv
<1> QED
  BY <1>1, RolesInvariant, PTL

(* Nobody who could see all inserts of a role doubles it                   *)
(* (roles.service.ts:420-429, users.service.ts:827-833).                   *)
THEOREM DoubledSound == Spec => []DoubledOnlyByRace
<1>1. RolesInv => DoubledOnlyByRace
  BY DEF RolesInv, RowsOK, Clash, DoubledOnlyByRace
<1> QED
  BY <1>1, RolesInvariant, PTL

(* A replacement that nobody has overtaken leaves the user the roles of    *)
(* its request only (users.service.ts:451-458).                            *)
THEOREM ReplacesSound == Spec => ReplacesAll
<1>1. ASSUME RolesInv, NEW c \in Calls, CommitReplace(c), calls[c].fresh
      PROVE  {row \in members' : row.of.user = calls[c].user}
               \subseteq calls[c].added
  <2>1. GoneOK(calls[c]) /\ calls[c].op = "replace"
    BY <1>1 DEF RolesInv, CallOK, CommitReplace
  <2>2. members' = (members \ calls[c].gone) \cup calls[c].added
    BY <1>1 DEF CommitReplace, Seen
  <2> QED
    BY <1>1, <2>1, <2>2 DEF GoneOK
<1>2. RolesInv =>
        [\A c \in Calls :
           CommitReplace(c) /\ calls[c].fresh
             => {row \in members' : row.of.user = calls[c].user}
                  \subseteq calls[c].added]_vars
  BY <1>1
<1> QED
  BY <1>2, RolesInvariant, PTL DEF ReplacesAll

=============================================================================
