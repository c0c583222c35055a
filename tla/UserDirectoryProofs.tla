------------------------- MODULE UserDirectoryProofs -----------------------
(***************************************************************************)
(* The table and the directory match, for any number of users, addresses,  *)
(* passwords and concurrent handlers, as long as nothing gets lost.        *)
(* Whatever gets lost, a create leaves no user without an entry.           *)
(*                                                                         *)
(* For the first, DirectoryInv is inductive.  CallStep covers the steps    *)
(* that change nothing but the locals of one handler; the steps that write *)
(* a table, send a request or answer one have a lemma each.                *)
(*                                                                         *)
(* For the second, CreationInv is inductive, with no assumption but those  *)
(* on the constants.  CreationFrame and SentFrame say what a step of one   *)
(* handler leaves to the others and to the requests.                       *)
(***************************************************************************)
EXTENDS UserDirectory, TLAPS

-----------------------------------------------------------------------------
(* Rows, entries and patches. *)

\* None is no id, no address and no value of a column.
LEMMA NoneIsNoValue ==
    /\ None \notin Ids /\ None \notin Emails /\ None \notin Passwords
    /\ None \notin Attrs /\ None \notin Active /\ None \notin Calls
BY DirectoryAssumption

\* A patch makes of a row a row with the same address, of an entry an entry.
LEMMA PatchedTypes ==
    ASSUME NEW patch \in Patch
    PROVE  /\ \A row \in Row : /\ Patched(row, patch) \in Row
                               /\ Patched(row, patch).email = row.email
           /\ \A entry \in Entry : Patched(entry, patch) \in Entry
BY DEF Patched, Patch, Row, Entry, Or

\* The payload of a row is an entry, and an entry is its own payload.
LEMMA EntryOfRow ==
    ASSUME NEW row \in Row
    PROVE  EntryOf(row) \in Entry /\ EntryOf(EntryOf(row)) = EntryOf(row)
BY DEF EntryOf, Row, Entry

\* A create-user is a patch that sets every field.
LEMMA EntryIsPatch == Entry \subseteq Patch
BY DEF Entry, Patch

\* What the handlers send to the directory does to an entry what they have done
\* to the row, provided a password change has the current row to send.
LEMMA SentPatch ==
    ASSUME NEW op \in {"update", "remove", "activate", "changePassword"},
           NEW row \in Row, NEW old \in Row, NEW patch \in Patch,
           NEW whole \in BOOLEAN,
           op = "changePassword" => /\ patch.active = None /\ patch.attr = None
                                    /\ whole => old = row,
           NEW entry \in Entry,
           Same(entry, row, whole)
    PROVE  LET new == Patched(row, patch)
           IN  Same(Patched(entry, LdapPatch(op, patch, old, new)), new, whole)
<1> DEFINE new == Patched(row, patch)
           sent == LdapPatch(op, patch, old, new)
           got == Patched(entry, sent)
<1>1. /\ new.active = Or(patch.active, row.active)
      /\ new.password = Or(patch.password, row.password)
      /\ new.attr = Or(patch.attr, row.attr)
  BY DEF Patched, Row
<1>2. /\ got.active = Or(sent.active, entry.active)
      /\ got.password = Or(sent.password, entry.password)
      /\ got.attr = Or(sent.attr, entry.attr)
  BY DEF Patched, Entry
<1>3. sent.password = patch.password
  BY DEF LdapPatch
<1>4. entry.password = row.password
  BY DEF Same
<1>5. new \in Row /\ got \in Entry
  <2>1. new \in Row
    BY PatchedTypes
  <2>2. sent \in Patch
    <3>1. CASE op = "update"
      BY <2>1, <3>1 DEF LdapPatch, Patch, Row
    <3>2. CASE op = "changePassword"
      BY <3>2 DEF LdapPatch, Patch, Row
    <3>3. CASE op \in {"remove", "activate"}
      BY <3>3 DEF LdapPatch
    <3> QED
      BY <3>1, <3>2, <3>3
  <2> QED
    BY <2>1, <2>2, PatchedTypes
<1>6. ASSUME whole
      PROVE  got.active = new.active /\ got.attr = new.attr
  <2>1. entry.active = row.active /\ entry.attr = row.attr
    BY <1>6 DEF Same, EntryOf, Entry
  <2>2. CASE op = "update"
    <3>1. sent.active = new.active /\ sent.attr = new.attr
      BY <2>2 DEF LdapPatch
    <3> QED
      BY <1>2, <1>5, <3>1, NoneIsNoValue DEF Or, Row
  <2>3. CASE op = "changePassword"
    <3>1. sent.active = row.active /\ sent.attr = row.attr
      BY <1>6, <2>3 DEF LdapPatch
    <3> QED
      BY <1>1, <1>2, <2>3, <3>1, NoneIsNoValue DEF Or, Row
  <2>4. CASE op \in {"remove", "activate"}
    <3>1. sent = patch
      BY <2>4 DEF LdapPatch
    <3> QED
      BY <1>1, <1>2, <2>1, <3>1
  <2> QED
    BY <2>2, <2>3, <2>4
<1>7. got.password = new.password
  BY <1>1, <1>2, <1>3, <1>4
<1>8. whole => got = EntryOf(new)
  <2> HIDE DEF got, new
  <2> QED
    BY <1>5, <1>6, <1>7 DEF EntryOf, Entry
<1> HIDE DEF got, new
<1>9. Same(got, new, whole)
  BY <1>7, <1>8 DEF Same
<1> QED
  BY <1>9 DEF got, new

-----------------------------------------------------------------------------
(* A step that changes only the locals of one handler, which has no        *)
(* transaction open and no request under way.                              *)

LEMMA CallStep ==
    ASSUME DirectoryInv, NEW c \in Calls, NEW x \in Call,
           calls' = [calls EXCEPT ![c] = x],
           UNCHANGED <<users, locks, ldap, wire, stale, faults>>,
           ~At(c, "wait"), ~Holding(c), ~Holding(c)',
           NotYet(c) => NotYet(c)' /\ x.id = calls[c].id,
           \A k \in Calls \ {c} :
              calls[k].op = "create" /\ At(k, "insert") => x.id # calls[k].id,
           ControlOK(c)', CreateOK(c)', ChangeOK(c)'
    PROVE  DirectoryInv'
<1>1. TypeOK'
  BY DEF DirectoryInv, TypeOK
<1>2. calls'[c] = x /\ \A k \in Calls \ {c} : calls'[k] = calls[k]
  BY DEF DirectoryInv, TypeOK
<1>3. ASSUME NEW k \in Calls
      PROVE  ControlOK(k)' /\ CreateOK(k)' /\ ChangeOK(k)'
  <2>1. CASE k = c
    BY <2>1
  <2>2. CASE k # c
    <3>1. ControlOK(k) /\ CreateOK(k) /\ ChangeOK(k) /\ calls'[k] = calls[k]
      BY <1>2, <2>2 DEF DirectoryInv
    <3>2. ControlOK(k)' /\ ChangeOK(k)'
      BY <3>1 DEF ControlOK, ChangeOK, Changing, Holding, At
    <3>3. CreateOK(k)'
      BY <1>2, <2>2, <3>1 DEF CreateOK, NotYet, At
    <3> QED
      BY <3>2, <3>3
  <2> QED
    BY <2>1, <2>2
<1>4. LocksOK'
  BY <1>2, NoneIsNoValue DEF DirectoryInv, TypeOK, LocksOK, Holding, Changing
<1>5. ASSUME NEW m \in wire
      PROVE  RequestOK(m)'
  <2>1. RequestOK(m) /\ m.call \in Calls \ {c} /\ calls'[m.call] = calls[m.call]
    BY <1>2 DEF DirectoryInv, RequestOK, At
  <2> QED
    BY <2>1 DEF RequestOK, PatchOK, At
<1>6. EmailsUnique' /\ NoStrayEntry'
  BY DEF DirectoryInv, EmailsUnique, NoStrayEntry, EmailTaken
<1>7. ASSUME NEW i \in DOMAIN users
      PROVE  UserOK(i)'
  <2>1. UserOK(i) /\ i \in Ids
    BY DEF DirectoryInv, TypeOK
  <2>2. CASE \E k \in Calls : NotYet(k) /\ calls[k].id = i
    BY <1>2, <2>2 DEF UserOK, NotYet
  <2>3. CASE locks[i] # None /\ At(locks[i], "ok")
    <3>1. locks[i] \in Calls \ {c}
      BY <2>1, <2>3 DEF DirectoryInv, TypeOK, LocksOK
    <3> QED
      BY <1>2, <2>3, <3>1 DEF UserOK, At
  <2>4. CASE /\ users[i].email \in DOMAIN ldap
             /\ Same(ldap[users[i].email], users[i], i \notin stale)
    BY <2>4 DEF UserOK
  <2> QED
    BY <2>1, <2>2, <2>3, <2>4 DEF UserOK
<1> QED
  BY <1>1, <1>3, <1>4, <1>5, <1>6, <1>7 DEF DirectoryInv

-----------------------------------------------------------------------------
(* The steps of a create. *)

\* create has found the address free (lines 313-332).
LEMMA BeginCreateStep ==
    ASSUME DirectoryInv, NEW c \in Calls, BeginCreate(c)
    PROVE  DirectoryInv'
<1>1. PICK i \in Ids \ DOMAIN users, row \in Row :
         /\ \A k \in Calls : calls[k].id # i
         /\ calls' = [calls EXCEPT ![c] = [Idle EXCEPT
                        !.op = "create", !.pc = "insert", !.id = i,
                        !.email = row.email, !.old = row]]
  BY DEF BeginCreate
<1> DEFINE x == [Idle EXCEPT !.op = "create", !.pc = "insert", !.id = i,
                             !.email = row.email, !.old = row]
<1>2. /\ x \in Call /\ x.op = "create" /\ x.pc = "insert" /\ x.id = i
      /\ x.email = row.email /\ x.old = row
  BY DEF Idle, Call, Ops, Points, NoPatch, Patch, Row
<1> HIDE DEF x
<1>3. calls' = [calls EXCEPT ![c] = x]
  BY <1>1 DEF x
<1>4. calls'[c] = x /\ \A k \in Calls \ {c} : calls'[k] = calls[k]
  BY <1>3 DEF DirectoryInv, TypeOK
<1>5. At(c, "idle") /\ calls[c].op = "none"
  BY DEF BeginCreate, DirectoryInv, ControlOK, At
<1>6. ControlOK(c)' /\ CreateOK(c)' /\ ChangeOK(c)'
  BY <1>1, <1>2, <1>4 DEF ControlOK, CreateOK, ChangeOK, Changing, NotYet, At,
     BeginCreate
<1>7. ~At(c, "wait") /\ ~Holding(c) /\ ~Holding(c)' /\ ~NotYet(c)
  BY <1>2, <1>4, <1>5 DEF Holding, Changing, NotYet, At
<1>8. UNCHANGED <<users, locks, ldap, wire, stale, faults>>
  BY DEF BeginCreate
<1> QED
  BY <1>1, <1>2, <1>3, <1>6, <1>7, <1>8, CallStep

\* A handler ends that has no transaction open and has created nothing.
LEMMA IdleStep ==
    ASSUME DirectoryInv, NEW c \in Calls, Return(c),
           UNCHANGED <<users, locks, ldap, wire, stale, faults>>,
           ~At(c, "wait"), ~Holding(c), ~NotYet(c)
    PROVE  DirectoryInv'
<1>1. /\ Idle \in Call /\ Idle.op = "none" /\ Idle.pc = "idle" /\ Idle.id = None
  BY DEF Idle, Call, Ops, Points, NoPatch, Patch
<1>2. calls' = [calls EXCEPT ![c] = Idle] /\ calls'[c] = Idle
  BY DEF Return, DirectoryInv, TypeOK
<1>3. ControlOK(c)' /\ CreateOK(c)' /\ ChangeOK(c)' /\ ~Holding(c)'
  BY <1>1, <1>2 DEF ControlOK, CreateOK, ChangeOK, Holding, Changing, At
<1>4. \A k \in Calls : calls[k].op = "create" => calls[k].id \in Ids
  BY DEF DirectoryInv, ControlOK
<1> QED
  BY <1>1, <1>2, <1>3, <1>4, NoneIsNoValue, CallStep

\* The row of a new user: its address has no entry, since an entry has a user
\* (lines 333-344).
LEMMA InsertStep ==
    ASSUME DirectoryInv, NEW c \in Calls, InsertUser(c)
    PROVE  DirectoryInv'
<1> DEFINE i == calls[c].id
           x == [calls[c] EXCEPT !.pc = "post"]
<1>1. calls[c] \in Call /\ calls[c].pc = "insert" /\ calls[c].op = "create"
  <2>1. calls[c] \in Call /\ ControlOK(c) /\ calls[c].pc = "insert"
    BY DEF InsertUser, At, DirectoryInv, TypeOK
  <2> QED
    BY <2>1 DEF ControlOK, Changing, Answers
<1>2. ~At(c, "wait") /\ ~Holding(c) /\ ~NotYet(c)
  BY <1>1 DEF Holding, Changing, NotYet, At
<1>3. CASE EmailTaken(calls[c].email, None)
  <2>1. Return(c) /\ UNCHANGED <<users, locks, ldap, wire, stale, faults>>
    BY <1>3 DEF InsertUser
  <2> QED
    BY <1>2, <2>1, IdleStep
<1>4. CASE ~EmailTaken(calls[c].email, None)
  <2>1. /\ users' = Put(users, i, calls[c].old)
        /\ calls' = [calls EXCEPT ![c] = x]
        /\ UNCHANGED <<locks, ldap, wire, stale, faults>>
    BY <1>4 DEF InsertUser, Goto
  <2>2. /\ x \in Call /\ x.op = "create" /\ x.pc = "post" /\ x.id = i
        /\ x.email = calls[c].email /\ x.old = calls[c].old
    BY <1>1 DEF Call, Points
  <2> HIDE DEF x
  <2>3. calls'[c] = x /\ \A k \in Calls \ {c} : calls'[k] = calls[k]
    BY <2>1 DEF DirectoryInv, TypeOK
  <2>4. /\ i \in Ids \ DOMAIN users /\ calls[c].old \in Row
        /\ calls[c].email = calls[c].old.email
        /\ \A k \in Calls \ {c} : calls[k].id # i
    BY <1>1 DEF DirectoryInv, ControlOK, CreateOK, At
  <2>5. /\ DOMAIN users' = DOMAIN users \cup {i} /\ users'[i] = calls[c].old
        /\ \A j \in DOMAIN users : j # i /\ users'[j] = users[j]
    BY <2>1, <2>4 DEF Put
  <2>6. \A j \in DOMAIN users : j \in Ids /\ users[j].email # calls[c].email
    BY <1>4, NoneIsNoValue DEF EmailTaken, DirectoryInv, TypeOK
  <2>7. TypeOK'
    BY <2>1, <2>2, <2>4, <2>5 DEF DirectoryInv, TypeOK
  <2>8. calls[c].email \notin DOMAIN ldap
    BY <1>4 DEF DirectoryInv, NoStrayEntry
  <2>9. ASSUME NEW k \in Calls
        PROVE  ControlOK(k)' /\ CreateOK(k)' /\ ChangeOK(k)'
    <3>1. CASE k = c
      <4>1. ControlOK(c)' /\ ChangeOK(c)'
        BY <2>2, <2>3, <2>4 DEF ControlOK, ChangeOK, Changing
      <4>2. CreateOK(c)'
        BY <2>1, <2>2, <2>3, <2>4, <2>5, <2>8 DEF CreateOK, NotYet, At
      <4> QED
        BY <3>1, <4>1, <4>2
    <3>2. CASE k # c
      <4>1. /\ ControlOK(k) /\ CreateOK(k) /\ ChangeOK(k)
            /\ calls'[k] = calls[k] /\ calls[k].id # i
        BY <2>3, <2>4, <3>2 DEF DirectoryInv
      <4>2. ControlOK(k)'
        BY <4>1 DEF ControlOK, Changing
      <4>3. ChangeOK(k)'
        BY <2>1, <2>5, <4>1 DEF ChangeOK, Holding, Changing, At
      <4>4. CreateOK(k)'
        BY <2>1, <2>2, <2>3, <2>5, <4>1 DEF CreateOK, NotYet, At
      <4> QED
        BY <4>2, <4>3, <4>4
    <3> QED
      BY <3>1, <3>2
  <2>10. LocksOK'
    BY <1>2, <2>1, <2>3, NoneIsNoValue DEF DirectoryInv, TypeOK, LocksOK,
       Holding, Changing
  <2>11. ASSUME NEW m \in wire'
         PROVE  RequestOK(m)'
    <3>1. /\ m \in wire /\ RequestOK(m) /\ m.call \in Calls \ {c}
          /\ calls'[m.call] = calls[m.call]
      BY <1>2, <2>1, <2>3 DEF DirectoryInv, RequestOK, At
    <3>2. ~m.creates => users'[calls[m.call].id] = users[calls[m.call].id]
      <4>1. ASSUME ~m.creates
            PROVE  Holding(m.call)
        BY <3>1, <4>1 DEF RequestOK, Holding, Changing, At, DirectoryInv, ControlOK
      <4> QED
        BY <2>5, <3>1, <4>1 DEF DirectoryInv, ChangeOK, Holding
    <3> QED
      BY <2>1, <3>1, <3>2 DEF RequestOK, PatchOK, At
  <2>12. EmailsUnique'
    BY <2>4, <2>5, <2>6 DEF DirectoryInv, EmailsUnique
  <2>13. NoStrayEntry'
    BY <2>1, <2>5 DEF DirectoryInv, NoStrayEntry, EmailTaken
  <2>14. ASSUME NEW j \in DOMAIN users'
         PROVE  UserOK(j)'
    <3>1. CASE j = i
      BY <2>2, <2>3, <3>1 DEF UserOK, NotYet
    <3>2. CASE j # i
      <4>1. j \in DOMAIN users /\ UserOK(j) /\ users'[j] = users[j] /\ j \in Ids
        BY <2>5, <2>6, <3>2 DEF DirectoryInv
      <4>2. CASE \E k \in Calls : NotYet(k) /\ calls[k].id = j
        BY <1>2, <2>3, <4>2 DEF UserOK, NotYet
      <4>3. CASE locks[j] # None /\ At(locks[j], "ok")
        <5>1. locks[j] \in Calls \ {c}
          BY <1>2, <4>1, <4>3 DEF DirectoryInv, TypeOK, LocksOK
        <5> QED
          BY <2>1, <2>3, <4>3, <5>1 DEF UserOK, At
      <4>4. CASE /\ users[j].email \in DOMAIN ldap
                 /\ Same(ldap[users[j].email], users[j], j \notin stale)
        BY <2>1, <4>1, <4>4 DEF UserOK
      <4> QED
        BY <4>1, <4>2, <4>3, <4>4 DEF UserOK
    <3> QED
      BY <3>1, <3>2
  <2> QED
    BY <2>7, <2>9, <2>10, <2>11, <2>12, <2>13, <2>14 DEF DirectoryInv
<1> QED
  BY <1>3, <1>4

\* create asks the microservice for the entry (lines 345-351).
LEMMA PostStep ==
    ASSUME DirectoryInv, NEW c \in Calls, PostUser(c)
    PROVE  DirectoryInv'
<1> DEFINE i == calls[c].id
           old == calls[c].old
           x == [calls[c] EXCEPT !.pc = "wait"]
           request == [call |-> c, email |-> users[i].email, creates |-> TRUE,
                       patch |-> [EntryOf(users[i]) EXCEPT !.password = old.password]]
<1>1. calls[c] \in Call /\ calls[c].pc = "post" /\ calls[c].op = "create"
  <2>1. calls[c] \in Call /\ ControlOK(c) /\ calls[c].pc = "post"
    BY DEF PostUser, At, DirectoryInv, TypeOK
  <2> QED
    BY <2>1 DEF ControlOK, Changing, Answers
<1>2. NotYet(c) /\ ~At(c, "wait") /\ ~Holding(c)
  BY <1>1 DEF Holding, Changing, NotYet, At
<1>3. /\ wire' = wire \cup {request} /\ calls' = [calls EXCEPT ![c] = x]
      /\ UNCHANGED <<users, locks, ldap, stale, faults>>
  BY DEF PostUser, Goto
<1>4. /\ x \in Call /\ x.op = "create" /\ x.pc = "wait" /\ x.id = i
      /\ x.email = calls[c].email /\ x.old = old
  BY <1>1 DEF Call, Points
<1>5. i \in DOMAIN users /\ users[i] = old /\ old \in Row /\ calls[c].email = old.email
  BY <1>1, <1>2 DEF DirectoryInv, ControlOK, CreateOK
<1>6. PICK m \in Request : /\ m = request /\ m.call = c /\ m.creates
                           /\ m.email = calls[c].email /\ m.patch = EntryOf(old)
  <2>1. EntryOf(old) \in Patch /\ EntryOf(old).password = old.password
    BY <1>5, EntryOfRow, EntryIsPatch DEF EntryOf
  <2>2. [EntryOf(users[i]) EXCEPT !.password = old.password] = EntryOf(old)
    BY <1>5, <2>1 DEF EntryOf
  <2>3. /\ request \in Request /\ request.call = c /\ request.creates
        /\ request.email = calls[c].email /\ request.patch = EntryOf(old)
    <3> HIDE DEF old
    <3> QED
      BY <1>5, <2>1, <2>2 DEF Request, Row
  <2> QED
    BY <2>3
<1> HIDE DEF x, request
<1>7. calls'[c] = x /\ \A k \in Calls \ {c} : calls'[k] = calls[k]
  BY <1>3 DEF DirectoryInv, TypeOK
<1>8. TypeOK'
  BY <1>3, <1>4, <1>6 DEF DirectoryInv, TypeOK
<1>9. ASSUME NEW k \in Calls
      PROVE  ControlOK(k)' /\ CreateOK(k)' /\ ChangeOK(k)'
  <2>1. ControlOK(k) /\ CreateOK(k) /\ ChangeOK(k)
    BY DEF DirectoryInv
  <2>2. CASE k = c
    <3>1. ControlOK(c)' /\ ChangeOK(c)'
      BY <1>1, <1>4, <1>5, <1>7, <2>1, <2>2 DEF ControlOK, ChangeOK, Changing
    <3>2. CreateOK(c)'
      BY <1>1, <1>2, <1>3, <1>4, <1>7, <2>1, <2>2 DEF CreateOK, NotYet, At
    <3> QED
      BY <2>2, <3>1, <3>2
  <2>3. CASE k # c
    <3>1. calls'[k] = calls[k]
      BY <1>7, <2>3
    <3>2. ControlOK(k)' /\ ChangeOK(k)'
      BY <1>3, <2>1, <3>1 DEF ControlOK, ChangeOK, Changing, Holding, At
    <3>3. CreateOK(k)'
      BY <1>1, <1>3, <1>4, <1>7, <2>1, <2>3, <3>1 DEF CreateOK, NotYet, At
    <3> QED
      BY <3>2, <3>3
  <2> QED
    BY <2>2, <2>3
<1>10. LocksOK'
  BY <1>2, <1>3, <1>7, NoneIsNoValue DEF DirectoryInv, TypeOK, LocksOK,
     Holding, Changing
<1>11. ASSUME NEW n \in wire
       PROVE  RequestOK(n)' /\ n.call # c
  <2>1. RequestOK(n) /\ n.call \in Calls \ {c} /\ calls'[n.call] = calls[n.call]
    BY <1>2, <1>7 DEF DirectoryInv, RequestOK, At
  <2> QED
    BY <1>3, <1>6, <2>1 DEF RequestOK, PatchOK, At
<1>12. RequestOK(m)'
  <2>1. \A n \in wire' : n.call = c => n = m
    BY <1>3, <1>6, <1>11
  <2> QED
    BY <1>4, <1>6, <1>7, <2>1 DEF RequestOK, At
<1>13. EmailsUnique' /\ NoStrayEntry'
  BY <1>3 DEF DirectoryInv, EmailsUnique, NoStrayEntry, EmailTaken
<1>14. ASSUME NEW j \in DOMAIN users
       PROVE  UserOK(j)'
  <2>1. UserOK(j) /\ j \in Ids
    BY DEF DirectoryInv, TypeOK
  <2>2. CASE \E k \in Calls : NotYet(k) /\ calls[k].id = j
    BY <1>4, <1>7, <2>2 DEF UserOK, NotYet
  <2>3. CASE locks[j] # None /\ At(locks[j], "ok")
    <3>1. locks[j] \in Calls \ {c}
      BY <1>2, <2>1, <2>3 DEF DirectoryInv, TypeOK, LocksOK
    <3> QED
      BY <1>3, <1>7, <2>3, <3>1 DEF UserOK, At
  <2>4. CASE /\ users[j].email \in DOMAIN ldap
             /\ Same(ldap[users[j].email], users[j], j \notin stale)
    BY <1>3, <2>4 DEF UserOK
  <2> QED
    BY <2>1, <2>2, <2>3, <2>4 DEF UserOK
<1> QED
  BY <1>3, <1>6, <1>8, <1>9, <1>10, <1>11, <1>12, <1>13, <1>14 DEF DirectoryInv

\* create has its answer (lines 350-360).
LEMMA EndCreateStep ==
    ASSUME DirectoryInv, NEW c \in Calls, EndCreate(c)
    PROVE  DirectoryInv'
<1> DEFINE x == [calls[c] EXCEPT !.pc = "erase"]
<1>1. calls[c] \in Call /\ ControlOK(c) /\ CreateOK(c) /\ calls[c].op = "create"
  BY DEF DirectoryInv, TypeOK, EndCreate
<1>2. /\ calls[c].pc \in {"ok", "error"}
      /\ UNCHANGED <<users, locks, ldap, wire, stale, faults>>
  BY <1>1 DEF EndCreate, ControlOK, Answers
<1>3. ~At(c, "wait") /\ ~Holding(c)
  BY <1>1, <1>2 DEF At, Holding, Changing
<1>4. CASE calls[c].pc = "ok"
  <2>1. Return(c) /\ ~NotYet(c)
    BY <1>4 DEF EndCreate, At, NotYet
  <2> QED
    BY <1>2, <1>3, <2>1, IdleStep
<1>5. CASE calls[c].pc = "error"
  <2>1. calls' = [calls EXCEPT ![c] = x] /\ NotYet(c)
    BY <1>1, <1>5 DEF EndCreate, At, Goto, NotYet
  <2>2. /\ x \in Call /\ x.op = "create" /\ x.pc = "erase" /\ x.id = calls[c].id
        /\ x.email = calls[c].email /\ x.old = calls[c].old
    BY <1>1 DEF Call, Points
  <2> HIDE DEF x
  <2>3. calls'[c] = x /\ \A k \in Calls \ {c} : calls'[k] = calls[k]
    BY <2>1 DEF DirectoryInv, TypeOK
  <2>4. NotYet(c)' /\ ~Holding(c)' /\ ControlOK(c)' /\ ChangeOK(c)'
    BY <1>1, <2>2, <2>3 DEF NotYet, Holding, ControlOK, ChangeOK, Changing
  <2>5. CreateOK(c)'
    BY <1>1, <1>2, <2>1, <2>2, <2>3 DEF CreateOK, NotYet, At
  <2>6. \A k \in Calls \ {c} :
           calls[k].op = "create" /\ At(k, "insert") => x.id # calls[k].id
    BY <1>1, <2>2 DEF CreateOK
  <2> QED
    BY <1>2, <1>3, <2>1, <2>2, <2>4, <2>5, <2>6, CallStep
<1> QED
  BY <1>2, <1>4, <1>5

\* create takes its row back: nobody holds it, and there is no entry (lines
\* 354-357).
LEMMA EraseStep ==
    ASSUME DirectoryInv, NEW c \in Calls, EraseUser(c)
    PROVE  DirectoryInv'
<1> DEFINE i == calls[c].id
<1>1. calls[c] \in Call /\ calls[c].pc = "erase" /\ calls[c].op = "create"
  <2>1. calls[c] \in Call /\ ControlOK(c) /\ calls[c].pc = "erase"
    BY DEF EraseUser, At, DirectoryInv, TypeOK
  <2> QED
    BY <2>1 DEF ControlOK, Changing, Answers
<1>2. NotYet(c) /\ ~At(c, "wait") /\ ~Holding(c)
  BY <1>1 DEF Holding, Changing, NotYet, At
<1>3. /\ users' = Remove(users, i) /\ calls' = [calls EXCEPT ![c] = Idle]
      /\ locks[i] = None /\ UNCHANGED <<locks, ldap, wire, stale, faults>>
  BY DEF EraseUser, Return
<1>4. Idle \in Call /\ Idle.op = "none" /\ Idle.pc = "idle" /\ Idle.id = None
  BY DEF Idle, Call, Ops, Points, NoPatch, Patch
<1>5. calls'[c] = Idle /\ \A k \in Calls \ {c} : calls'[k] = calls[k]
  BY <1>3 DEF DirectoryInv, TypeOK
<1>6. /\ i \in DOMAIN users /\ i \in Ids /\ users[i].email = calls[c].email
      /\ calls[c].email \notin DOMAIN ldap
      /\ \A k \in Calls \ {c} : calls[k].op = "create" => calls[k].id # i
  BY <1>1, <1>2 DEF DirectoryInv, ControlOK, CreateOK
<1>7. /\ DOMAIN users' = DOMAIN users \ {i}
      /\ \A j \in DOMAIN users \ {i} : users'[j] = users[j]
  BY <1>3 DEF Remove
<1>8. \A k \in Calls : Holding(k) => k # c /\ calls[k].id # i
  BY <1>2, <1>3, NoneIsNoValue DEF DirectoryInv, ChangeOK, Holding
<1>9. TypeOK'
  BY <1>3, <1>4, <1>7 DEF DirectoryInv, TypeOK
<1>10. ASSUME NEW k \in Calls
       PROVE  ControlOK(k)' /\ CreateOK(k)' /\ ChangeOK(k)'
  <2>1. CASE k = c
    BY <1>4, <1>5, <2>1 DEF ControlOK, CreateOK, ChangeOK, Changing
  <2>2. CASE k # c
    <3>1. ControlOK(k) /\ CreateOK(k) /\ ChangeOK(k) /\ calls'[k] = calls[k]
      BY <1>5, <2>2 DEF DirectoryInv
    <3>2. ControlOK(k)'
      BY <3>1 DEF ControlOK, Changing
    <3>3. ChangeOK(k)'
      <4>1. Holding(k) => calls[k].id # i
        BY <1>8
      <4> QED
        BY <1>3, <1>7, <3>1, <4>1 DEF ChangeOK, Changing, Holding, At
    <3>4. CreateOK(k)'
      BY <1>3, <1>4, <1>5, <1>6, <1>7, <2>2, <3>1, NoneIsNoValue
      DEF CreateOK, ControlOK, NotYet, At
    <3> QED
      BY <3>2, <3>3, <3>4
  <2> QED
    BY <2>1, <2>2
<1>11. LocksOK'
  BY <1>2, <1>3, <1>5, NoneIsNoValue DEF DirectoryInv, TypeOK, LocksOK,
     Holding, Changing
<1>12. ASSUME NEW m \in wire'
       PROVE  RequestOK(m)'
  <2>1. /\ m \in wire /\ RequestOK(m) /\ m.call \in Calls \ {c}
        /\ calls'[m.call] = calls[m.call]
    BY <1>2, <1>3, <1>5 DEF DirectoryInv, RequestOK, At
  <2>2. ~m.creates => users'[calls[m.call].id] = users[calls[m.call].id]
    <3>1. ASSUME ~m.creates
          PROVE  Holding(m.call)
      BY <2>1, <3>1 DEF RequestOK, Holding, Changing, At, DirectoryInv, ControlOK
    <3> QED
      BY <1>7, <1>8, <2>1, <3>1 DEF DirectoryInv, ChangeOK, Holding
  <2> QED
    BY <1>3, <2>1, <2>2 DEF RequestOK, PatchOK, At
<1>13. EmailsUnique'
  BY <1>7 DEF DirectoryInv, EmailsUnique
<1>14. NoStrayEntry'
  <2>1. SUFFICES ASSUME NEW e \in DOMAIN ldap
                 PROVE  EmailTaken(e, None)'
    BY <1>3 DEF NoStrayEntry
  <2>2. PICK j \in DOMAIN users \ {None} : users[j].email = e
    BY DEF DirectoryInv, NoStrayEntry, EmailTaken
  <2> QED
    BY <1>6, <1>7, <2>2 DEF EmailTaken
<1>15. ASSUME NEW j \in DOMAIN users'
       PROVE  UserOK(j)'
  <2>1. j \in DOMAIN users \ {i} /\ UserOK(j) /\ users'[j] = users[j] /\ j \in Ids
    BY <1>7 DEF DirectoryInv, TypeOK
  <2>2. CASE \E k \in Calls : NotYet(k) /\ calls[k].id = j
    BY <1>5, <2>1, <2>2 DEF UserOK, NotYet
  <2>3. CASE locks[j] # None /\ At(locks[j], "ok")
    <3>1. locks[j] \in Calls \ {c}
      BY <1>2, <2>1, <2>3 DEF DirectoryInv, TypeOK, LocksOK
    <3> QED
      BY <1>3, <1>5, <2>3, <3>1 DEF UserOK, At
  <2>4. CASE /\ users[j].email \in DOMAIN ldap
             /\ Same(ldap[users[j].email], users[j], j \notin stale)
    BY <1>3, <2>1, <2>4 DEF UserOK
  <2> QED
    BY <2>1, <2>2, <2>3, <2>4 DEF UserOK
<1> QED
  BY <1>9, <1>10, <1>11, <1>12, <1>13, <1>14, <1>15 DEF DirectoryInv

-----------------------------------------------------------------------------
(* The steps of the handlers that change a user. *)

\* A handler has read the user it is to change.
LEMMA BeginStep ==
    ASSUME DirectoryInv, NEW c \in Calls, NEW i \in DOMAIN users,
           NEW op \in {"update", "remove", "activate", "changePassword"},
           NEW patch \in Patch,
           op = "changePassword" => patch.active = None /\ patch.attr = None,
           Begin(c, op, i, patch, None)
    PROVE  DirectoryInv'
<1> DEFINE x == [Idle EXCEPT !.op = op, !.pc = "write", !.id = i,
                             !.email = users[i].email, !.newEmail = None,
                             !.patch = patch, !.old = users[i]]
<1>1. i \in Ids /\ users[i] \in Row /\ users[i].email \in Emails
  BY DEF DirectoryInv, TypeOK, Row
<1>2. /\ x \in Call /\ x.op = op /\ x.pc = "write" /\ x.id = i
      /\ x.email = users[i].email /\ x.newEmail = None /\ x.patch = patch
      /\ x.old = users[i]
  BY <1>1 DEF Idle, Call, Ops, Points, NoPatch, Patch
<1>3. /\ calls' = [calls EXCEPT ![c] = x]
      /\ UNCHANGED <<users, locks, ldap, wire, stale, faults>>
  BY DEF Begin
<1> HIDE DEF x
<1>4. calls'[c] = x /\ \A k \in Calls \ {c} : calls'[k] = calls[k]
  BY <1>3 DEF DirectoryInv, TypeOK
<1>5. At(c, "idle") /\ calls[c].op = "none"
  BY DEF Begin, DirectoryInv, ControlOK, At
<1>6. ControlOK(c)' /\ CreateOK(c)' /\ ChangeOK(c)'
  BY <1>1, <1>2, <1>3, <1>4
  DEF ControlOK, CreateOK, ChangeOK, Changing, Holding, Answers, At
<1>7. ~At(c, "wait") /\ ~Holding(c) /\ ~Holding(c)' /\ ~NotYet(c)
  BY <1>2, <1>4, <1>5 DEF Holding, Changing, NotYet, At, Answers
<1>8. \A k \in Calls \ {c} :
         calls[k].op = "create" /\ At(k, "insert") => x.id # calls[k].id
  BY <1>2 DEF DirectoryInv, CreateOK
<1> QED
  BY <1>2, <1>3, <1>6, <1>7, <1>8, CallStep

\* The four handlers that read a user, then change it.
LEMMA BeginChangeStep ==
    ASSUME Reliable, DirectoryInv, NEW c \in Calls,
           \/ BeginUpdate(c) \/ BeginRemove(c)
           \/ BeginActivate(c) \/ BeginChangePassword(c)
    PROVE  DirectoryInv'
<1>1. CASE BeginUpdate(c)
  <2>1. PICK i \in DOMAIN users, patch \in Patch, e \in NewEmails \cup {None} :
           Begin(c, "update", i, patch, e)
    BY <1>1 DEF BeginUpdate
  <2>2. e = None
    BY DEF Reliable
  <2> QED
    BY <2>1, <2>2, BeginStep
<1>2. CASE BeginRemove(c)
  <2>1. PICK i \in DOMAIN users :
           Begin(c, "remove", i, [NoPatch EXCEPT !.active = "inactive"], None)
    BY <1>2 DEF BeginRemove
  <2>2. [NoPatch EXCEPT !.active = "inactive"] \in Patch
    BY DEF NoPatch, Patch, Active
  <2> QED
    BY <2>1, <2>2, BeginStep
<1>3. CASE BeginActivate(c)
  <2>1. PICK i \in DOMAIN users :
           Begin(c, "activate", i, [NoPatch EXCEPT !.active = "active"], None)
    BY <1>3 DEF BeginActivate
  <2>2. [NoPatch EXCEPT !.active = "active"] \in Patch
    BY DEF NoPatch, Patch, Active
  <2> QED
    BY <2>1, <2>2, BeginStep
<1>4. CASE BeginChangePassword(c)
  <2>1. PICK i \in DOMAIN users, p \in Passwords :
           Begin(c, "changePassword", i, [NoPatch EXCEPT !.password = p], None)
    BY <1>4 DEF BeginChangePassword
  <2>2. [NoPatch EXCEPT !.password = p] \in Patch
    BY DEF NoPatch, Patch
  <2>3. /\ [NoPatch EXCEPT !.password = p].active = None
        /\ [NoPatch EXCEPT !.password = p].attr = None
    BY DEF NoPatch
  <2> QED
    BY <2>1, <2>2, <2>3, BeginStep
<1> QED
  BY <1>1, <1>2, <1>3, <1>4

\* No other handler that holds a lock works on a row that is not locked or
\* that one holds oneself.
LEMMA HolderOwns ==
    ASSUME DirectoryInv, NEW c \in Calls, NEW i,
           locks[i] = None \/ locks[i] = c
    PROVE  \A k \in Calls \ {c} : Holding(k) => calls[k].id # i
BY NoneIsNoValue DEF DirectoryInv, ChangeOK, Holding

\* The handler behind a request.
LEMMA Waits ==
    ASSUME DirectoryInv, NEW m \in wire
    PROVE  /\ RequestOK(m) /\ m.call \in Calls /\ At(m.call, "wait")
           /\ m.creates => calls[m.call].op = "create" /\ NotYet(m.call)
           /\ ~m.creates => Holding(m.call)
<1>1. RequestOK(m) /\ m.call \in Calls /\ At(m.call, "wait")
  BY DEF DirectoryInv, RequestOK
<1>2. ControlOK(m.call)
  BY <1>1 DEF DirectoryInv
<1> QED
  BY <1>1, <1>2 DEF RequestOK, NotYet, Holding, Changing, ControlOK, At

\* The UPDATE takes the lock and the request follows: what it asks for is what
\* the UPDATE has written (lines 392-424 and their like).
LEMMA WriteStep ==
    ASSUME DirectoryInv, NEW c \in Calls, WriteUser(c)
    PROVE  DirectoryInv'
<1> DEFINE call == calls[c]
           i == call.id
           row == [Patched(users[i], call.patch) EXCEPT !.email = Or(call.newEmail, @)]
           patch == LdapPatch(call.op, call.patch, call.old, row)
           request == [call |-> c, email |-> call.email, creates |-> FALSE,
                       patch |-> patch]
           x == [call EXCEPT !.pc = "wait", !.row = row]
<1>1. /\ call \in Call /\ ControlOK(c) /\ ChangeOK(c) /\ call.pc = "write"
      /\ call.op \in {"update", "remove", "activate", "changePassword"}
  <2>1. call \in Call /\ ControlOK(c) /\ ChangeOK(c) /\ call.pc = "write"
    BY DEF WriteUser, At, DirectoryInv, TypeOK
  <2>2. call.op \in Ops
    BY <2>1 DEF Call
  <2> QED
    BY <2>1, <2>2 DEF ControlOK, Ops
<1>2. ~At(c, "wait") /\ ~Holding(c) /\ ~NotYet(c) /\ Changing(c)
  BY <1>1 DEF Holding, Changing, NotYet, At, Answers
<1>3. call.newEmail = None /\ call.patch \in Patch /\ call.old \in Row
  BY <1>1, <1>2 DEF ChangeOK, ControlOK, Call
<1>4. CASE ~Found(c)
  <2>1. Return(c) /\ UNCHANGED <<users, locks, ldap, wire, stale, faults>>
    BY <1>4 DEF WriteUser
  <2> QED
    BY <1>2, <2>1, IdleStep
<1>5. CASE Found(c)
  <2>1. /\ locks[i] = None /\ locks' = [locks EXCEPT ![i] = c]
        /\ wire' = wire \cup {request}
        /\ stale' = IF call.op = "changePassword" /\ call.old # users[i]
                    THEN stale \cup {i} ELSE stale
        /\ calls' = [calls EXCEPT ![c] = x]
        /\ UNCHANGED <<users, ldap, faults>>
    BY <1>3, <1>5 DEF WriteUser
  <2>2. /\ i \in DOMAIN users /\ i \in Ids /\ users[i] \in Row
        /\ call.email = users[i].email
    BY <1>1, <1>2, <1>5 DEF Found, DirectoryInv, TypeOK, ChangeOK
  <2>3. row = Patched(users[i], call.patch) /\ row \in Row /\ row.email = call.email
    <3>1. /\ Patched(users[i], call.patch) \in Row
          /\ Patched(users[i], call.patch).email = users[i].email
      BY <1>3, <2>2, PatchedTypes
    <3>2. row = Patched(users[i], call.patch)
      <4> DEFINE new == Patched(users[i], call.patch)
      <4> HIDE DEF new
      <4>1. [new EXCEPT !.email = Or(call.newEmail, @)] = new
        BY <1>3, <3>1 DEF new, Or, Row
      <4> QED
        BY <4>1 DEF new
    <3> QED
      BY <2>2, <3>1, <3>2
  <2>4. patch \in Patch
    <3> HIDE DEF row
    <3>1. CASE call.op = "update"
      BY <1>3, <2>3, <3>1 DEF LdapPatch, Patch, Row
    <3>2. CASE call.op = "changePassword"
      BY <1>3, <3>2 DEF LdapPatch, Patch, Row
    <3>3. CASE call.op \in {"remove", "activate"}
      BY <1>3, <3>3 DEF LdapPatch
    <3> QED
      BY <1>1, <3>1, <3>2, <3>3
  <2>5. PICK m \in Request : /\ m = request /\ m.call = c /\ ~m.creates
                             /\ m.email = call.email /\ m.patch = patch
    <3>1. /\ request \in Request /\ request.call = c /\ ~request.creates
          /\ request.email = call.email /\ request.patch = patch
      <4> HIDE DEF patch
      <4>1. call.email \in Emails
        BY <2>2 DEF Row
      <4> QED
        BY <2>4, <4>1 DEF Request
    <3> QED
      BY <3>1
  <2>6. /\ x \in Call /\ x.pc = "wait" /\ x.row = row
        /\ x.op = call.op /\ x.id = i /\ x.email = call.email
        /\ x.newEmail = None /\ x.patch = call.patch /\ x.old = call.old
    <3> HIDE DEF row
    <3> QED
      BY <1>1, <1>3, <2>3 DEF Call, Points
  <2>7. \A entry \in Entry :
           Same(entry, users[i], i \notin stale')
           => Same(Patched(entry, m.patch), row, i \notin stale')
    <3>1. call.op = "changePassword" => /\ call.patch.active = None
                                        /\ call.patch.attr = None
                                        /\ i \notin stale' => call.old = users[i]
      BY <1>1, <1>2, <2>1 DEF ChangeOK
    <3>2. PICK whole \in BOOLEAN : whole = (i \notin stale')
      OBVIOUS
    <3> DEFINE new == Patched(users[i], call.patch)
    <3>3. m.patch = LdapPatch(call.op, call.patch, call.old, new) /\ row = new
      BY <2>3, <2>5
    <3>4. SUFFICES ASSUME NEW entry \in Entry, Same(entry, users[i], whole)
                   PROVE  Same(Patched(entry, m.patch), new, whole)
      BY <3>2, <3>3
    <3>5. Same(Patched(entry, LdapPatch(call.op, call.patch, call.old, new)),
               new, whole)
      <4> HIDE DEF call, i
      <4> QED
        BY <1>1, <1>3, <2>2, <3>1, <3>2, <3>4, SentPatch
    <3> HIDE DEF new, row, patch
    <3> QED
      BY <3>3, <3>5
  <2> HIDE DEF x, row, patch, request
  <2>8. calls'[c] = x /\ \A k \in Calls \ {c} : calls'[k] = calls[k]
    BY <2>1 DEF DirectoryInv, TypeOK
  <2>9. /\ locks'[i] = c /\ \A j \in Ids \ {i} : locks'[j] = locks[j]
        /\ stale \subseteq stale' /\ \A j \in stale' \ {i} : j \in stale
    BY <2>1, <2>2 DEF DirectoryInv, TypeOK
  <2>10. \A k \in Calls \ {c} : Holding(k) => calls[k].id # i
    BY <2>1, HolderOwns
  <2>11. TypeOK'
    BY <2>1, <2>2, <2>5, <2>6 DEF DirectoryInv, TypeOK
  <2>12. ASSUME NEW k \in Calls
         PROVE  ControlOK(k)' /\ CreateOK(k)' /\ ChangeOK(k)'
    <3>1. ControlOK(k) /\ CreateOK(k) /\ ChangeOK(k)
      BY DEF DirectoryInv
    <3>2. CASE k = c
      <4>1. ControlOK(c)' /\ CreateOK(c)'
        BY <1>1, <1>3, <2>2, <2>6, <2>8 DEF ControlOK, CreateOK, Changing
      <4>2. ChangeOK(c)'
        BY <1>1, <1>2, <2>1, <2>2, <2>3, <2>6, <2>8, <2>9
        DEF ChangeOK, Changing, Holding, At
      <4> QED
        BY <3>2, <4>1, <4>2
    <3>3. CASE k # c
      <4>1. calls'[k] = calls[k]
        BY <2>8, <3>3
      <4>2. ControlOK(k)'
        BY <3>1, <4>1 DEF ControlOK, Changing
      <4>3. CreateOK(k)'
        BY <1>1, <2>1, <2>6, <2>8, <3>1, <3>3, <4>1 DEF CreateOK, NotYet, At
      <4>4. ChangeOK(k)'
        <5>1. Changing(k) => calls[k].id \in Ids
          BY <3>1 DEF ControlOK, Changing
        <5>2. Holding(k) => calls[k].id # i
          BY <2>10, <3>3
        <5> QED
          BY <2>1, <2>9, <3>1, <4>1, <5>1, <5>2 DEF ChangeOK, Changing, Holding, At
      <4> QED
        BY <4>2, <4>3, <4>4
    <3> QED
      BY <3>2, <3>3
  <2>13. LocksOK'
    <3>1. ASSUME NEW j \in Ids, NEW h, h = locks'[j], h # None
          PROVE  Holding(h)' /\ calls'[h].id = j
      <4>1. CASE j = i
        BY <1>1, <2>6, <2>8, <2>9, <3>1, <4>1 DEF Holding, Changing
      <4>2. CASE j # i
        <5>1. h = locks[j] /\ h \in Calls \ {c}
          BY <1>2, <2>9, <3>1, <4>2 DEF DirectoryInv, TypeOK, LocksOK
        <5>2. Holding(h) /\ calls[h].id = j /\ calls'[h] = calls[h]
          BY <2>8, <3>1, <5>1 DEF DirectoryInv, LocksOK
        <5> QED
          BY <5>2 DEF Holding, Changing
      <4> QED
        BY <4>1, <4>2
    <3> QED
      BY <3>1 DEF LocksOK, Holding, Changing
  <2>14. ASSUME NEW n \in wire
         PROVE  RequestOK(n)' /\ n.call # c
    <3>1. /\ RequestOK(n) /\ n.call \in Calls \ {c} /\ calls'[n.call] = calls[n.call]
          /\ ~n.creates => Holding(n.call)
      BY <1>2, <2>8, Waits DEF At
    <3>2. ~n.creates => (calls[n.call].id \notin stale')
                          = (calls[n.call].id \notin stale)
      BY <2>9, <2>10, <3>1
    <3> QED
      BY <2>1, <2>5, <3>1, <3>2 DEF RequestOK, PatchOK, At
  <2>15. RequestOK(m)'
    <3>1. \A n \in wire' : n.call = c => n = m
      BY <2>1, <2>5, <2>14
    <3>2. PatchOK(c, m.patch)'
      BY <2>1, <2>6, <2>7, <2>8 DEF PatchOK
    <3> QED
      BY <1>1, <2>5, <2>6, <2>8, <3>1, <3>2 DEF RequestOK, At
  <2>16. EmailsUnique' /\ NoStrayEntry'
    BY <2>1 DEF DirectoryInv, EmailsUnique, NoStrayEntry, EmailTaken
  <2>17. ASSUME NEW j \in DOMAIN users
         PROVE  UserOK(j)'
    <3>1. UserOK(j) /\ j \in Ids
      BY DEF DirectoryInv, TypeOK
    <3>2. CASE \E k \in Calls : NotYet(k) /\ calls[k].id = j
      BY <1>2, <2>8, <3>2 DEF UserOK, NotYet
    <3>3. CASE locks[j] # None /\ At(locks[j], "ok")
      <4>1. locks[j] \in Calls \ {c} /\ j # i
        BY <1>2, <2>1, <3>1, <3>3 DEF DirectoryInv, TypeOK, LocksOK
      <4> QED
        BY <2>8, <2>9, <3>1, <3>3, <4>1 DEF UserOK, At
    <3>4. CASE /\ users[j].email \in DOMAIN ldap
               /\ Same(ldap[users[j].email], users[j], j \notin stale)
      <4>1. Same(ldap[users[j].email], users[j], j \notin stale')
        BY <2>9, <3>4 DEF Same
      <4> QED
        BY <2>1, <3>4, <4>1 DEF UserOK
    <3> QED
      BY <3>1, <3>2, <3>3, <3>4 DEF UserOK
  <2> QED
    BY <2>1, <2>5, <2>11, <2>12, <2>13, <2>14, <2>15, <2>16, <2>17 DEF DirectoryInv
<1> QED
  BY <1>4, <1>5

\* The end of a transaction: commit writes the row and the directory has it
\* already; rollback leaves the row, which the directory has never left.
LEMMA EndStep ==
    ASSUME DirectoryInv, NEW c \in Calls, Changing(c), NEW commit \in BOOLEAN,
           calls[c].pc \in Answers, commit <=> At(c, "ok"),
           EndTransaction(c, commit),
           UNCHANGED <<wire, faults>>
    PROVE  DirectoryInv'
<1> DEFINE i == calls[c].id
           row == calls[c].row
<1>1. calls[c] \in Call /\ ControlOK(c) /\ ChangeOK(c) /\ Holding(c) /\ ~NotYet(c)
      /\ ~At(c, "wait")
  BY DEF DirectoryInv, TypeOK, Holding, Changing, NotYet, Answers, At
<1>2. /\ i \in DOMAIN users /\ i \in Ids /\ locks[i] = c
      /\ row \in Row /\ row.email = calls[c].email /\ calls[c].email = users[i].email
  BY <1>1 DEF ChangeOK, Holding, DirectoryInv, TypeOK
<1>3. /\ users' = IF commit THEN [users EXCEPT ![i] = row] ELSE users
      /\ locks' = [locks EXCEPT ![i] = None]
      /\ calls' = [calls EXCEPT ![c] = Idle]
      /\ UNCHANGED <<ldap, wire, stale, faults>>
  BY <1>2 DEF EndTransaction, Return
<1>4. Idle \in Call /\ Idle.op = "none" /\ Idle.pc = "idle" /\ Idle.id = None
  BY DEF Idle, Call, Ops, Points, NoPatch, Patch
<1>5. calls'[c] = Idle /\ \A k \in Calls \ {c} : calls'[k] = calls[k]
  BY <1>3 DEF DirectoryInv, TypeOK
<1>6. /\ DOMAIN users' = DOMAIN users
      /\ \A j \in DOMAIN users \ {i} : users'[j] = users[j]
      /\ commit => users'[i] = row
      /\ ~commit => users'[i] = users[i]
      /\ \A j \in DOMAIN users : users'[j].email = users[j].email
  BY <1>2, <1>3
<1>7. locks'[i] = None /\ \A j \in Ids \ {i} : locks'[j] = locks[j]
  BY <1>2, <1>3 DEF DirectoryInv, TypeOK
<1>8. commit => /\ calls[c].email \in DOMAIN ldap
                /\ Same(ldap[calls[c].email], row, i \notin stale)
  BY <1>1 DEF ChangeOK
<1>9. \A k \in Calls \ {c} : Holding(k) => calls[k].id # i
  BY <1>2, HolderOwns
<1>10. TypeOK'
  BY <1>2, <1>3, <1>4, <1>6 DEF DirectoryInv, TypeOK
<1>11. \A k \in Calls : commit /\ NotYet(k) => calls[k].id # i
  <2>1. SUFFICES ASSUME NEW k \in Calls, commit, NotYet(k), calls[k].id = i
                 PROVE  FALSE
    OBVIOUS
  <2>2. CreateOK(k) /\ calls[k].op = "create"
    BY <2>1 DEF DirectoryInv, NotYet
  <2> QED
    BY <1>2, <1>8, <2>1, <2>2 DEF CreateOK
<1>12. ASSUME NEW k \in Calls
       PROVE  ControlOK(k)' /\ CreateOK(k)' /\ ChangeOK(k)'
  <2>1. CASE k = c
    BY <1>4, <1>5, <2>1 DEF ControlOK, CreateOK, ChangeOK, Changing
  <2>2. CASE k # c
    <3>1. ControlOK(k) /\ CreateOK(k) /\ ChangeOK(k) /\ calls'[k] = calls[k]
      BY <1>5, <2>2 DEF DirectoryInv
    <3>2. ControlOK(k)'
      BY <3>1 DEF ControlOK, Changing
    <3>3. ChangeOK(k)'
      <4>1. Changing(k) => calls[k].id \in Ids
        BY <3>1 DEF ControlOK, Changing
      <4>2. Holding(k) => calls[k].id # i
        BY <1>9, <2>2
      <4> QED
        BY <1>3, <1>6, <1>7, <3>1, <4>1, <4>2 DEF ChangeOK, Changing, Holding, At
    <3>4. CreateOK(k)'
      <4>1. calls[k].op = "create" => calls[k].id \in Ids
        BY <3>1 DEF ControlOK
      <4>2. NotYet(k) => users'[calls[k].id] = users[calls[k].id]
        BY <1>6, <1>11, <3>1 DEF CreateOK, NotYet
      <4> QED
        BY <1>3, <1>4, <1>5, <1>6, <2>2, <3>1, <4>1, <4>2, NoneIsNoValue
        DEF CreateOK, NotYet, At
    <3> QED
      BY <3>2, <3>3, <3>4
  <2> QED
    BY <2>1, <2>2
<1>13. LocksOK'
  <2>1. ASSUME NEW j \in Ids, NEW h, h = locks'[j], h # None
        PROVE  Holding(h)' /\ calls'[h].id = j
    <3>1. j # i /\ h = locks[j] /\ h \in Calls
      BY <1>7, <2>1 DEF DirectoryInv, TypeOK
    <3>2. Holding(h) /\ calls[h].id = j /\ calls'[h] = calls[h]
      BY <1>5, <2>1, <3>1 DEF DirectoryInv, LocksOK
    <3> QED
      BY <3>2 DEF Holding, Changing
  <2> QED
    BY <2>1 DEF LocksOK, Holding, Changing
<1>14. ASSUME NEW m \in wire
       PROVE  RequestOK(m)'
  <2>1. /\ RequestOK(m) /\ m.call \in Calls \ {c} /\ calls'[m.call] = calls[m.call]
        /\ ~m.creates => Holding(m.call)
    BY <1>1, <1>5, Waits DEF At
  <2>2. ~m.creates => users'[calls[m.call].id] = users[calls[m.call].id]
    BY <1>6, <1>9, <2>1 DEF DirectoryInv, ChangeOK, Holding
  <2> QED
    BY <1>3, <2>1, <2>2 DEF RequestOK, PatchOK, At
<1>15. EmailsUnique'
  BY <1>6 DEF DirectoryInv, EmailsUnique
<1>16. NoStrayEntry'
  BY <1>3, <1>6 DEF DirectoryInv, NoStrayEntry, EmailTaken
<1>17. ASSUME NEW j \in DOMAIN users
       PROVE  UserOK(j)'
  <2>1. UserOK(j) /\ j \in Ids
    BY DEF DirectoryInv, TypeOK
  <2>2. CASE j = i /\ commit
    BY <1>2, <1>3, <1>6, <1>8, <2>2 DEF UserOK
  <2>3. CASE ~(j = i /\ commit)
    <3>1. users'[j] = users[j]
      BY <1>6, <2>3
    <3>2. CASE \E k \in Calls : NotYet(k) /\ calls[k].id = j
      BY <1>1, <1>5, <3>2 DEF UserOK, NotYet
    <3>3. CASE locks[j] # None /\ At(locks[j], "ok")
      <4>1. j # i
        BY <1>2, <2>3, <3>3
      <4>2. locks[j] \in Calls \ {c}
        BY <2>1, <3>3, <4>1 DEF DirectoryInv, TypeOK, LocksOK
      <4> QED
        BY <1>5, <1>7, <2>1, <3>3, <4>1, <4>2 DEF UserOK, At
    <3>4. CASE /\ users[j].email \in DOMAIN ldap
               /\ Same(ldap[users[j].email], users[j], j \notin stale)
      BY <1>3, <3>1, <3>4 DEF UserOK
    <3> QED
      BY <2>1, <3>2, <3>3, <3>4 DEF UserOK
  <2> QED
    BY <2>2, <2>3
<1> QED
  BY <1>3, <1>6, <1>10, <1>12, <1>13, <1>14, <1>15, <1>16, <1>17 DEF DirectoryInv

\* The two ways a transaction ends.
LEMMA EndTransactionStep ==
    ASSUME DirectoryInv, NEW c \in Calls, Commit(c) \/ Rollback(c)
    PROVE  DirectoryInv'
<1>1. CASE Commit(c)
  BY <1>1, EndStep DEF Commit, At, Answers
<1>2. CASE Rollback(c)
  BY <1>2, EndStep DEF Rollback, At, Answers
<1> QED
  BY <1>1, <1>2

-----------------------------------------------------------------------------
(* The microservice answers the request m of handler c. *)

\* An answer moves one handler on and takes one request off the wire.
LEMMA AnswerFacts ==
    ASSUME DirectoryInv, NEW m \in wire, NEW answer \in Answers, Answer(m, answer)
    PROVE  /\ wire' = wire \ {m} /\ UNCHANGED <<users, locks, stale>>
           /\ calls'[m.call] = [calls[m.call] EXCEPT !.pc = answer]
           /\ calls'[m.call].pc = answer
           /\ calls'[m.call].op = calls[m.call].op
           /\ calls'[m.call].id = calls[m.call].id
           /\ calls'[m.call].email = calls[m.call].email
           /\ calls'[m.call].newEmail = calls[m.call].newEmail
           /\ calls'[m.call].patch = calls[m.call].patch
           /\ calls'[m.call].old = calls[m.call].old
           /\ calls'[m.call].row = calls[m.call].row
           /\ \A k \in Calls \ {m.call} : calls'[k] = calls[k]
           /\ calls' \in [Calls -> Call]
<1>1. m.call \in Calls /\ m.call # None
  BY Waits, NoneIsNoValue
<1>2. calls \in [Calls -> Call] /\ calls[m.call] \in Call
  BY <1>1 DEF DirectoryInv, TypeOK
<1>3. calls' = [calls EXCEPT ![m.call] = [calls[m.call] EXCEPT !.pc = answer]]
  BY <1>1 DEF Answer
<1> DEFINE x == [calls[m.call] EXCEPT !.pc = answer]
<1>4. /\ x \in Call /\ x.pc = answer /\ x.op = calls[m.call].op
      /\ x.id = calls[m.call].id /\ x.email = calls[m.call].email
      /\ x.newEmail = calls[m.call].newEmail /\ x.patch = calls[m.call].patch
      /\ x.old = calls[m.call].old /\ x.row = calls[m.call].row
  BY <1>2 DEF Call, Points
<1> HIDE DEF x
<1>5. calls' = [calls EXCEPT ![m.call] = x]
  BY <1>3 DEF x
<1>6. calls'[m.call] = x /\ calls' \in [Calls -> Call]
      /\ \A k \in Calls \ {m.call} : calls'[k] = calls[k]
  BY <1>1, <1>2, <1>4, <1>5
<1>7. wire' = wire \ {m} /\ UNCHANGED <<users, locks, stale>>
  BY DEF Answer
<1> QED
  BY <1>4, <1>6, <1>7 DEF x

\* What an answer leaves in place whatever it says: locks, other requests and
\* the uniqueness of addresses.
LEMMA AnswerFrame ==
    ASSUME DirectoryInv, NEW m \in wire, NEW answer \in Answers, Answer(m, answer)
    PROVE  /\ LocksOK' /\ EmailsUnique'
           /\ \A n \in wire' : RequestOK(n)'
<1> DEFINE c == m.call
<1>1. c \in Calls /\ RequestOK(m) /\ At(c, "wait")
  BY Waits
<1>2. LocksOK'
  <2>1. ASSUME NEW j \in Ids, NEW h, h = locks'[j], h # None
        PROVE  Holding(h)' /\ calls'[h].id = j
    <3>1. h = locks[j] /\ h \in Calls
      <4>1. UNCHANGED locks
        BY DEF Answer
      <4> QED
        BY <2>1, <4>1 DEF DirectoryInv, TypeOK
    <3>2. Holding(h) /\ calls[h].id = j
      BY <2>1, <3>1 DEF DirectoryInv, LocksOK
    <3>3. CASE h = c
      BY <3>2, <3>3, AnswerFacts DEF Holding, Changing
    <3>4. CASE h # c
      <4>1. calls'[h] = calls[h]
        BY <3>1, <3>4, AnswerFacts
      <4> QED
        BY <3>2, <4>1 DEF Holding, Changing
    <3> QED
      BY <3>3, <3>4
  <2> QED
    BY <2>1 DEF LocksOK, Holding, Changing
<1>3. EmailsUnique'
  BY AnswerFacts DEF DirectoryInv, EmailsUnique
<1>4. ASSUME NEW n \in wire'
      PROVE  RequestOK(n)'
  <2>1. n \in wire \ {m} /\ wire' \subseteq wire
    BY AnswerFacts
  <2>2. n.call # c /\ RequestOK(n) /\ n.call \in Calls
    BY <1>1, <2>1, Waits DEF RequestOK
  <2>3. calls'[n.call] = calls[n.call] /\ UNCHANGED <<users, stale>>
    BY <2>2, AnswerFacts
  <2> QED
    BY <2>1, <2>2, <2>3 DEF RequestOK, PatchOK, At
<1> QED
  BY <1>2, <1>3, <1>4

\* A request turned down leaves the directory as it was.
LEMMA RefuseStep ==
    ASSUME Reliable, DirectoryInv, NEW m \in wire, LdapRefuse(m)
    PROVE  DirectoryInv'
<1> DEFINE c == m.call
<1>1. PICK answer \in {"refused", "error"} :
         Answer(m, answer) /\ (m.creates => answer = "error")
  BY DEF LdapRefuse, Reliable
<1>2. answer \in Answers
  BY DEF Answers
<1>3. c \in Calls /\ RequestOK(m) /\ At(c, "wait") /\ UNCHANGED <<ldap, stale, faults>>
  BY Waits DEF LdapRefuse
<1> DEFINE y == calls'[c]
<1>4. /\ y.pc = answer /\ y.op = calls[c].op
      /\ y.id = calls[c].id /\ y.email = calls[c].email
      /\ y.newEmail = calls[c].newEmail /\ y.patch = calls[c].patch
      /\ y.old = calls[c].old /\ y.row = calls[c].row
      /\ \A k \in Calls \ {c} : calls'[k] = calls[k]
      /\ calls' \in [Calls -> Call]
      /\ wire' = wire \ {m} /\ UNCHANGED <<users, locks, stale>>
  BY <1>1, <1>2, AnswerFacts
<1> HIDE DEF y
<1>5. TypeOK'
  BY <1>3, <1>4 DEF DirectoryInv, TypeOK
<1>6. calls[c].op = "create" => answer = "error"
  BY <1>1, <1>3 DEF RequestOK
<1>7. ASSUME NEW k \in Calls
      PROVE  ControlOK(k)' /\ CreateOK(k)' /\ ChangeOK(k)'
  <2>1. ControlOK(k) /\ CreateOK(k) /\ ChangeOK(k)
    BY DEF DirectoryInv
  <2>2. CASE k = c
    <3>1. ControlOK(c)'
      BY <1>3, <1>4, <1>6, <2>1, <2>2 DEF y, ControlOK, Changing, Answers, At
    <3>2. CreateOK(c)'
      BY <1>3, <1>4, <1>6, <2>1, <2>2 DEF y, CreateOK, NotYet, At
    <3>3. ChangeOK(c)'
      BY <1>3, <1>4, <2>1, <2>2 DEF y, ChangeOK, Changing, Holding, Answers, At
    <3> QED
      BY <2>2, <3>1, <3>2, <3>3
  <2>3. CASE k # c
    <3>1. calls'[k] = calls[k]
      BY <1>4, <2>3
    <3>2. ControlOK(k)' /\ ChangeOK(k)'
      BY <1>3, <1>4, <2>1, <3>1 DEF ControlOK, ChangeOK, Changing, Holding, At
    <3>3. CreateOK(k)'
      BY <1>3, <1>4, <2>1, <2>3, <3>1 DEF y, CreateOK, NotYet, At
    <3> QED
      BY <3>2, <3>3
  <2> QED
    BY <2>2, <2>3
<1>8. NoStrayEntry'
  BY <1>3, <1>4 DEF DirectoryInv, NoStrayEntry, EmailTaken
<1>9. ASSUME NEW j \in DOMAIN users
      PROVE  UserOK(j)'
  <2>1. UserOK(j) /\ j \in Ids
    BY DEF DirectoryInv, TypeOK
  <2>2. CASE \E k \in Calls : NotYet(k) /\ calls[k].id = j
    <3>1. PICK k \in Calls : NotYet(k) /\ calls[k].id = j
      BY <2>2
    <3>2. NotYet(k)' /\ calls'[k].id = j
      BY <1>4, <1>6, <3>1 DEF y, NotYet
    <3> QED
      BY <3>2 DEF UserOK
  <2>3. CASE locks[j] # None /\ At(locks[j], "ok")
    <3>1. locks[j] \in Calls \ {c}
      BY <1>3, <2>1, <2>3 DEF DirectoryInv, TypeOK, At
    <3> QED
      BY <1>4, <2>3, <3>1 DEF UserOK, At
  <2>4. CASE /\ users[j].email \in DOMAIN ldap
             /\ Same(ldap[users[j].email], users[j], j \notin stale)
    BY <1>3, <1>4, <2>4 DEF UserOK
  <2> QED
    BY <2>1, <2>2, <2>3, <2>4 DEF UserOK
<1>10. LocksOK' /\ EmailsUnique' /\ \A n \in wire' : RequestOK(n)'
  BY <1>1, <1>2, AnswerFrame
<1> QED
  BY <1>4, <1>5, <1>7, <1>8, <1>9, <1>10 DEF DirectoryInv

\* The entry of a new user.
LEMMA ApplyCreateStep ==
    ASSUME DirectoryInv, NEW m \in wire, m.creates, LdapApply(m)
    PROVE  DirectoryInv'
<1> DEFINE c == m.call
           i == calls[c].id
           e == m.email
<1>1. /\ c \in Calls /\ RequestOK(m) /\ At(c, "wait") /\ NotYet(c)
      /\ calls[c].op = "create"
  BY Waits
<1>2. /\ i \in DOMAIN users /\ i \in Ids /\ users[i] = calls[c].old
      /\ calls[c].old \in Row /\ e = users[i].email /\ e = calls[c].email
      /\ e \notin DOMAIN ldap /\ m.patch = EntryOf(users[i])
  BY <1>1 DEF DirectoryInv, ControlOK, CreateOK, RequestOK
<1>3. /\ ldap' = Put(ldap, e, EntryOf(m.patch)) /\ Answer(m, "ok")
      /\ UNCHANGED faults
  BY DEF LdapApply, Applied
<1>4. EntryOf(m.patch) = EntryOf(users[i]) /\ EntryOf(users[i]) \in Entry
  BY <1>2, EntryOfRow
<1>5. /\ DOMAIN ldap' = DOMAIN ldap \cup {e} /\ ldap'[e] = EntryOf(users[i])
      /\ \A f \in DOMAIN ldap : ldap'[f] = ldap[f]
  BY <1>2, <1>3, <1>4 DEF Put
<1> DEFINE y == calls'[c]
<1>6. /\ y.pc = "ok" /\ y.op = calls[c].op
      /\ y.id = calls[c].id /\ y.email = calls[c].email /\ y.old = calls[c].old
      /\ \A k \in Calls \ {c} : calls'[k] = calls[k]
      /\ calls' \in [Calls -> Call]
      /\ wire' = wire \ {m} /\ UNCHANGED <<users, locks, stale>>
  <2>1. "ok" \in Answers
    BY DEF Answers
  <2> QED
    BY <1>3, <2>1, AnswerFacts
<1> HIDE DEF y
<1>7. TypeOK'
  BY <1>2, <1>3, <1>4, <1>5, <1>6 DEF DirectoryInv, TypeOK, Row
<1>8. ASSUME NEW k \in Calls
      PROVE  ControlOK(k)' /\ CreateOK(k)' /\ ChangeOK(k)'
  <2>1. ControlOK(k) /\ CreateOK(k) /\ ChangeOK(k)
    BY DEF DirectoryInv
  <2>2. CASE k = c
    <3>1. ControlOK(c)' /\ ChangeOK(c)'
      BY <1>1, <1>6, <2>1, <2>2 DEF y, ControlOK, ChangeOK, Changing
    <3>2. CreateOK(c)'
      BY <1>1, <1>6, <2>1, <2>2 DEF y, CreateOK, NotYet, At
    <3> QED
      BY <2>2, <3>1, <3>2
  <2>3. CASE k # c
    <3>1. calls'[k] = calls[k]
      BY <1>6, <2>3
    <3>2. ControlOK(k)'
      BY <2>1, <3>1 DEF ControlOK, Changing
    <3>3. ChangeOK(k)'
      BY <1>2, <1>5, <1>6, <2>1, <3>1 DEF ChangeOK, Changing, Holding, At
    <3>4. CreateOK(k)'
      <4>1. NotYet(k) => calls[k].email # e
        BY <1>1, <1>2, <2>1, <2>3 DEF CreateOK, NotYet, DirectoryInv, EmailsUnique
      <4> QED
        BY <1>1, <1>5, <1>6, <2>1, <2>3, <3>1, <4>1 DEF y, CreateOK, NotYet, At
    <3> QED
      BY <3>2, <3>3, <3>4
  <2> QED
    BY <2>2, <2>3
<1>9. NoStrayEntry'
  <2>1. EmailTaken(e, None)'
    BY <1>2, <1>6, NoneIsNoValue DEF EmailTaken
  <2> QED
    BY <1>5, <1>6, <2>1 DEF DirectoryInv, NoStrayEntry, EmailTaken
<1>10. ASSUME NEW j \in DOMAIN users
       PROVE  UserOK(j)'
  <2>1. UserOK(j) /\ j \in Ids
    BY DEF DirectoryInv, TypeOK
  <2>2. CASE j = i
    <3>1. Same(EntryOf(users[i]), users[i], TRUE)
      BY DEF Same, EntryOf
    <3>2. Same(ldap'[e], users[i], i \notin stale')
      BY <1>5, <3>1 DEF Same
    <3> QED
      BY <1>2, <1>5, <1>6, <2>2, <3>2 DEF UserOK
  <2>3. CASE j # i
    <3>1. CASE \E k \in Calls : NotYet(k) /\ calls[k].id = j
      <4>1. PICK k \in Calls : NotYet(k) /\ calls[k].id = j
        BY <3>1
      <4>2. k # c
        BY <2>3, <4>1
      <4>3. NotYet(k)' /\ calls'[k].id = j
        BY <1>6, <4>1, <4>2 DEF NotYet
      <4> QED
        BY <4>3 DEF UserOK
    <3>2. CASE locks[j] # None /\ At(locks[j], "ok")
      <4>1. locks[j] \in Calls \ {c}
        BY <1>1, <2>1, <3>2 DEF DirectoryInv, TypeOK, At
      <4> QED
        BY <1>6, <3>2, <4>1 DEF UserOK, At
    <3>3. CASE /\ users[j].email \in DOMAIN ldap
               /\ Same(ldap[users[j].email], users[j], j \notin stale)
      BY <1>5, <1>6, <3>3 DEF UserOK
    <3> QED
      BY <2>1, <3>1, <3>2, <3>3 DEF UserOK
  <2> QED
    BY <2>2, <2>3
<1>11. LocksOK' /\ EmailsUnique' /\ \A n \in wire' : RequestOK(n)'
  <2>1. "ok" \in Answers
    BY DEF Answers
  <2> QED
    BY <1>3, <2>1, AnswerFrame
<1> QED
  BY <1>6, <1>7, <1>8, <1>9, <1>10, <1>11 DEF DirectoryInv

\* The patch of a transaction that holds the row.
LEMMA ApplyChangeStep ==
    ASSUME DirectoryInv, NEW m \in wire, ~m.creates, LdapApply(m)
    PROVE  DirectoryInv'
<1> DEFINE c == m.call
           i == calls[c].id
           e == m.email
           row == calls[c].row
<1>1. /\ c \in Calls /\ RequestOK(m) /\ At(c, "wait") /\ Holding(c)
      /\ calls[c].op # "create" /\ m \in Request
  BY Waits DEF Holding, Changing, DirectoryInv, TypeOK
<1>2. /\ i \in DOMAIN users /\ i \in Ids /\ locks[i] = c
      /\ e = users[i].email /\ e = calls[c].email
      /\ row \in Row /\ row.email = e
  BY <1>1 DEF DirectoryInv, TypeOK, ChangeOK, Holding, RequestOK
<1>3. /\ ldap' = Put(ldap, e, Patched(ldap[e], m.patch)) /\ Answer(m, "ok")
      /\ e \in DOMAIN ldap /\ ldap[e] \in Entry /\ UNCHANGED faults
  BY DEF LdapApply, Applied, Applicable, DirectoryInv, TypeOK
<1>4. Patched(ldap[e], m.patch) \in Entry
  BY <1>1, <1>3, PatchedTypes DEF Request
<1>5. /\ DOMAIN ldap' = DOMAIN ldap /\ ldap'[e] = Patched(ldap[e], m.patch)
      /\ \A f \in DOMAIN ldap \ {e} : ldap'[f] = ldap[f]
  BY <1>3 DEF Put
<1> DEFINE y == calls'[c]
<1>6. /\ y.pc = "ok" /\ y.op = calls[c].op
      /\ y.id = calls[c].id /\ y.email = calls[c].email
      /\ y.newEmail = calls[c].newEmail /\ y.patch = calls[c].patch
      /\ y.old = calls[c].old /\ y.row = calls[c].row
      /\ \A k \in Calls \ {c} : calls'[k] = calls[k]
      /\ calls' \in [Calls -> Call]
      /\ wire' = wire \ {m} /\ UNCHANGED <<users, locks, stale>>
  <2>1. "ok" \in Answers
    BY DEF Answers
  <2> QED
    BY <1>3, <2>1, AnswerFacts
<1> HIDE DEF y
<1>7. TypeOK'
  BY <1>3, <1>4, <1>5, <1>6 DEF DirectoryInv, TypeOK
<1>8. Same(ldap[e], users[i], i \notin stale)
  <2>1. UserOK(i)
    BY <1>2 DEF DirectoryInv
  <2>2. ~At(locks[i], "ok")
    BY <1>1, <1>2 DEF At
  <2>3. ASSUME NEW k \in Calls, NotYet(k), calls[k].id = i
        PROVE  FALSE
    <3>1. CreateOK(k) /\ calls[k].op = "create"
      BY <2>3 DEF DirectoryInv, NotYet
    <3> QED
      BY <1>2, <1>3, <2>3, <3>1 DEF CreateOK
  <2> QED
    BY <1>2, <2>1, <2>2, <2>3 DEF UserOK
<1>9. Same(ldap'[e], row, i \notin stale')
  <2>1. PatchOK(c, m.patch)
    BY <1>1 DEF RequestOK
  <2>2. Same(Patched(ldap[e], m.patch), row, i \notin stale)
    BY <1>3, <1>8, <2>1 DEF PatchOK
  <2> QED
    BY <1>5, <1>6, <2>2
<1>10. ASSUME NEW k \in Calls
       PROVE  ControlOK(k)' /\ CreateOK(k)' /\ ChangeOK(k)'
  <2>1. ControlOK(k) /\ CreateOK(k) /\ ChangeOK(k)
    BY DEF DirectoryInv
  <2>2. CASE k = c
    <3>1. ControlOK(c)' /\ CreateOK(c)'
      BY <1>1, <1>6, <2>1, <2>2
      DEF y, ControlOK, CreateOK, Changing, Holding, Answers, At
    <3>2. ChangeOK(c)'
      BY <1>1, <1>2, <1>3, <1>5, <1>6, <1>9, <2>1, <2>2
      DEF y, ChangeOK, Changing, Holding, Answers, At
    <3> QED
      BY <2>2, <3>1, <3>2
  <2>3. CASE k # c
    <3>1. calls'[k] = calls[k]
      BY <1>6, <2>3
    <3>2. ControlOK(k)'
      BY <2>1, <3>1 DEF ControlOK, Changing
    <3>3. ChangeOK(k)'
      <4>1. Holding(k) => calls[k].email # e
        <5>1. SUFFICES ASSUME Holding(k)
                       PROVE  calls[k].email # e
          OBVIOUS
        <5>2. /\ calls[k].id \in DOMAIN users /\ locks[calls[k].id] = k
              /\ calls[k].email = users[calls[k].id].email
          BY <2>1, <5>1 DEF ChangeOK, Holding
        <5> QED
          BY <1>2, <2>3, <5>2 DEF DirectoryInv, EmailsUnique
      <4> QED
        BY <1>5, <1>6, <2>1, <3>1, <4>1 DEF ChangeOK, Changing, Holding, Answers, At
    <3>4. CreateOK(k)'
      BY <1>1, <1>5, <1>6, <2>1, <2>3, <3>1 DEF y, CreateOK, NotYet, At
    <3> QED
      BY <3>2, <3>3, <3>4
  <2> QED
    BY <2>2, <2>3
<1>11. NoStrayEntry'
  BY <1>5, <1>6 DEF DirectoryInv, NoStrayEntry, EmailTaken
<1>12. ASSUME NEW j \in DOMAIN users
       PROVE  UserOK(j)'
  <2>1. UserOK(j) /\ j \in Ids
    BY DEF DirectoryInv, TypeOK
  <2>2. CASE j = i
    <3>1. locks'[j] = c /\ calls'[c].pc = "ok"
      BY <1>2, <1>6, <2>2 DEF y
    <3> QED
      BY <1>1, <3>1, NoneIsNoValue DEF UserOK, At
  <2>3. CASE j # i
    <3>1. users[j].email # e
      BY <1>2, <2>3 DEF DirectoryInv, EmailsUnique
    <3>2. CASE \E k \in Calls : NotYet(k) /\ calls[k].id = j
      <4>1. PICK k \in Calls : NotYet(k) /\ calls[k].id = j
        BY <3>2
      <4>2. NotYet(k)' /\ calls'[k].id = j
        BY <1>1, <1>6, <4>1 DEF NotYet
      <4> QED
        BY <4>2 DEF UserOK
    <3>3. CASE locks[j] # None /\ At(locks[j], "ok")
      <4>1. locks[j] \in Calls \ {c}
        BY <1>1, <2>1, <3>3 DEF DirectoryInv, TypeOK, At
      <4> QED
        BY <1>6, <3>3, <4>1 DEF UserOK, At
    <3>4. CASE /\ users[j].email \in DOMAIN ldap
               /\ Same(ldap[users[j].email], users[j], j \notin stale)
      BY <1>5, <1>6, <3>1, <3>4 DEF UserOK
    <3> QED
      BY <2>1, <3>2, <3>3, <3>4 DEF UserOK
  <2> QED
    BY <2>2, <2>3
<1>13. LocksOK' /\ EmailsUnique' /\ \A n \in wire' : RequestOK(n)'
  <2>1. "ok" \in Answers
    BY DEF Answers
  <2> QED
    BY <1>3, <2>1, AnswerFrame
<1> QED
  BY <1>6, <1>7, <1>10, <1>11, <1>12, <1>13 DEF DirectoryInv

-----------------------------------------------------------------------------
(* The invariant and what follows from it. *)

\* The empty tables and the empty directory match.
LEMMA InitDirectory == Init => DirectoryInv
<1> SUFFICES ASSUME Init
             PROVE  DirectoryInv
  OBVIOUS
<1>1. Idle \in Call /\ Idle.op = "none" /\ Idle.pc = "idle"
  BY DEF Idle, Call, Ops, Points, NoPatch, Patch
<1>2. /\ users = <<>> /\ ldap = <<>> /\ wire = {} /\ stale = {} /\ faults = 0
      /\ DOMAIN users = {} /\ DOMAIN ldap = {}
      /\ calls \in [Calls -> Call] /\ \A c \in Calls : calls[c] = Idle
      /\ locks \in [Ids -> Calls \cup {None}] /\ \A i \in Ids : locks[i] = None
  BY <1>1 DEF Init
<1>3. TypeOK
  BY <1>2, DirectoryAssumption DEF TypeOK
<1>4. \A c \in Calls : ControlOK(c) /\ CreateOK(c) /\ ChangeOK(c)
  BY <1>1, <1>2 DEF ControlOK, CreateOK, ChangeOK, Changing
<1> QED
  BY <1>2, <1>3, <1>4 DEF DirectoryInv, LocksOK, EmailsUnique, NoStrayEntry

\* Every step keeps the invariant.
LEMMA NextDirectory ==
    ASSUME Reliable, DirectoryInv, [Next]_vars
    PROVE  DirectoryInv'
<1>1. CASE \E c \in Calls : BeginCreate(c)
  BY <1>1, BeginCreateStep
<1>2. CASE \E c \in Calls : \/ BeginUpdate(c) \/ BeginRemove(c)
                            \/ BeginActivate(c) \/ BeginChangePassword(c)
  BY <1>2, BeginChangeStep
<1>3. CASE \E c \in Calls : Step(c)
  <2>1. PICK c \in Calls : Step(c)
    BY <1>3
  <2> QED
    BY <2>1, InsertStep, PostStep, EndCreateStep, EraseStep, WriteStep,
       EndTransactionStep DEF Step
<1>4. CASE \E c \in Calls : TimeOut(c) \/ Abort(c)
  BY <1>4 DEF TimeOut, Abort, Reliable, DirectoryInv, TypeOK
<1>5. CASE \E m \in wire : LdapApply(m)
  BY <1>5, ApplyCreateStep, ApplyChangeStep
<1>6. CASE \E m \in wire : LdapRefuse(m)
  BY <1>6, RefuseStep
<1>7. CASE \E m \in wire : LdapLoseReply(m)
  BY <1>7 DEF LdapLoseReply, Reliable, DirectoryInv, TypeOK
<1>8. CASE UNCHANGED vars
  BY <1>8 DEF vars, DirectoryInv, TypeOK, ControlOK, CreateOK, ChangeOK, LocksOK,
     RequestOK, PatchOK, EmailsUnique, UserOK, NoStrayEntry, EmailTaken, Holding,
     Changing, NotYet, At
<1> QED
  BY <1>1, <1>2, <1>3, <1>4, <1>5, <1>6, <1>7, <1>8 DEF Next

\* If nothing gets lost, the invariant holds in every state the handlers of
\* users.service.ts and the microservice can reach.
THEOREM DirectoryInvariant ==
    ASSUME Reliable
    PROVE  Spec => []DirectoryInv
<1>1. Init => DirectoryInv
  BY InitDirectory
<1>2. DirectoryInv /\ [Next]_vars => DirectoryInv'
  BY NextDirectory
<1> QED
  BY <1>1, <1>2, PTL DEF Spec

\* A user whom no create has under way and whose row is free has an entry.
LEMMA SettledSame ==
    ASSUME DirectoryInv, NEW i \in DOMAIN users, Settled(i)
    PROVE  /\ users[i].email \in DOMAIN ldap
           /\ Same(ldap[users[i].email], users[i], i \notin stale)
BY DEF DirectoryInv, UserOK, Settled, NotYet

\* If nothing gets lost, a user nobody is changing has the same fields in the
\* table and in the directory, whatever handlers have raced and whatever the
\* microservice has turned down; after a password change from an old row, the
\* same password (create, update, remove, activate and changePasswordByEmail).
THEOREM DirectoryMatchesSound ==
    ASSUME Reliable
    PROVE  Spec => []DirectoryMatches
<1>1. DirectoryInv => DirectoryMatches
  BY SettledSame DEF DirectoryMatches, Same
<1> QED
  BY <1>1, DirectoryInvariant, PTL

\* If nothing gets lost, a create that is turned down leaves no entry behind
\* (create).
THEOREM NoStrayEntrySound ==
    ASSUME Reliable
    PROVE  Spec => []NoStrayEntry
<1>1. DirectoryInv => NoStrayEntry
  BY DEF DirectoryInv
<1> QED
  BY <1>1, DirectoryInvariant, PTL

-----------------------------------------------------------------------------
(* What a create leaves behind, whatever gets lost.                        *)

\* A handler other than c keeps its part of CreationInv if the entries stay, its
\* user stays, with its address unless that has an entry, and c works on it only
\* to change it.
LEMMA CreationFrame ==
    ASSUME CreationInv, NEW c, NEW k \in Calls \ {c},
           \A j \in Calls \ {c} : calls'[j] = calls[j],
           DOMAIN ldap \subseteq DOMAIN ldap',
           Creating(k) =>
             /\ calls[k].id \in DOMAIN users <=> calls[k].id \in DOMAIN users'
             /\ calls[k].id \in DOMAIN users =>
                  \/ users'[calls[k].id].email = users[calls[k].id].email
                  \/ calls[k].email \in DOMAIN ldap',
           c \in Calls /\ Creating(k) /\ calls'[c].op # "none"
             /\ calls'[c].id = calls[k].id =>
               /\ Changing(c)' /\ ~At(k, "insert")
               /\ calls'[c].email = calls[k].email \/ calls[k].email \in DOMAIN ldap'
    PROVE  PointsOK(k)' /\ CreationOK(k)'
<1>1. PointsOK(k) /\ CreationOK(k) /\ calls'[k] = calls[k]
  BY DEF CreationInv
<1>2. PointsOK(k)'
  BY <1>1 DEF PointsOK, Creating, Changing, Holding, At
<1>3. ASSUME Creating(k), NEW j \in Calls \ {k}, calls'[j].op # "none",
             calls'[j].id = calls[k].id
      PROVE  /\ Changing(j)' /\ ~At(k, "insert")
             /\ calls'[j].email = calls[k].email \/ calls[k].email \in DOMAIN ldap'
  <2>1. CASE j = c
    BY <1>3, <2>1
  <2>2. CASE j # c
    <3>1. calls'[j] = calls[j]
      BY <2>2
    <3>2. Changing(j) /\ ~At(k, "insert")
      BY <1>1, <1>3, <3>1 DEF CreationOK
    <3>3. calls[j].email = calls[k].email \/ calls[k].email \in DOMAIN ldap
      BY <1>1, <1>3, <3>1 DEF CreationOK
    <3> QED
      BY <3>1, <3>2, <3>3 DEF Changing
  <2> QED
    BY <2>1, <2>2
<1>4. CreationOK(k)'
  <2> SUFFICES ASSUME Creating(k)
               PROVE  CreationOK(k)'
    BY <1>1 DEF CreationOK, Creating
  <2>1. /\ calls[k].email = calls[k].old.email
        /\ At(k, "insert") <=> calls[k].id \notin DOMAIN users
        /\ ~At(k, "insert") => \/ users[calls[k].id].email = calls[k].email
                               \/ calls[k].email \in DOMAIN ldap
        /\ At(k, "ok") => calls[k].email \in DOMAIN ldap
    BY <1>1 DEF CreationOK
  <2>2. ~At(k, "insert") => \/ users'[calls[k].id].email = calls[k].email
                            \/ calls[k].email \in DOMAIN ldap'
    BY <2>1
  <2> QED
    BY <1>1, <1>3, <2>1, <2>2 DEF CreationOK, At
<1> QED
  BY <1>2, <1>4

\* A request nobody waits for, or another handler than c, stays as it should be.
LEMMA SentFrame ==
    ASSUME CreationInv, NEW c, NEW m \in wire, m.call # c,
           \A j \in Calls \ {c} : calls'[j] = calls[j],
           DOMAIN ldap \subseteq DOMAIN ldap',
           \A n \in wire' : n.call = m.call /\ m.call # None => n \in wire
    PROVE  SentOK(m)'
<1>1. SentOK(m) /\ m.call \in Calls \cup {None}
  BY DEF CreationInv, TypeOK, Request
<1>2. m.call # None => calls'[m.call] = calls[m.call]
  BY <1>1
<1> QED
  BY <1>1, <1>2 DEF SentOK, Creating, At

\* A handler ends.
LEMMA CreationReturn ==
    ASSUME CreationInv, NEW c \in Calls, Return(c), UNCHANGED ldap, TypeOK',
           \A k \in Calls \ {c} : Creating(k) =>
             /\ calls[k].id \in DOMAIN users <=> calls[k].id \in DOMAIN users'
             /\ calls[k].id \in DOMAIN users =>
                  \/ users'[calls[k].id].email = users[calls[k].id].email
                  \/ calls[k].email \in DOMAIN ldap,
           \A m \in wire' : SentOK(m)'
    PROVE  CreationInv'
<1>1. Idle.op = "none" /\ Idle.pc = "idle"
  BY DEF Idle
<1>2. calls'[c] = Idle /\ \A k \in Calls \ {c} : calls'[k] = calls[k]
  BY DEF Return, CreationInv, TypeOK
<1>3. PointsOK(c)' /\ CreationOK(c)'
  BY <1>1, <1>2 DEF PointsOK, CreationOK, Creating, Changing, Holding, At
<1>4. ASSUME NEW k \in Calls \ {c}
      PROVE  PointsOK(k)' /\ CreationOK(k)'
  BY <1>1, <1>2, CreationFrame
<1> QED
  BY <1>3, <1>4 DEF CreationInv

\* A handler ends that waits for no answer and has changed nothing.
LEMMA CreationLeave ==
    ASSUME CreationInv, NEW c \in Calls, Return(c), ~At(c, "wait"),
           UNCHANGED <<users, locks, ldap, wire, stale, faults>>
    PROVE  CreationInv'
<1>1. TypeOK'
  BY DEF CreationInv, TypeOK, Return, Idle, Call, Ops, Points, NoPatch, Patch
<1>2. calls' = [calls EXCEPT ![c] = Idle] /\ \A k \in Calls \ {c} : calls'[k] = calls[k]
  BY DEF Return, CreationInv, TypeOK
<1>3. ASSUME NEW m \in wire
      PROVE  SentOK(m)'
  <2>1. m.call # c
    BY NoneIsNoValue DEF CreationInv, SentOK
  <2> QED
    BY <1>2, <2>1, SentFrame
<1> QED
  BY <1>1, <1>3, CreationReturn

\* A handler goes on to the locals x, sends nothing and writes nothing.
LEMMA CreationGoto ==
    ASSUME CreationInv, NEW c \in Calls, NEW x \in Call, ~At(c, "wait"),
           calls' = [calls EXCEPT ![c] = x],
           UNCHANGED <<users, locks, ldap, wire, stale, faults>>,
           PointsOK(c)', CreationOK(c)',
           \A k \in Calls \ {c} : Creating(k) /\ x.op # "none" /\ x.id = calls[k].id =>
               /\ Changing(c)' /\ ~At(k, "insert")
               /\ x.email = calls[k].email \/ calls[k].email \in DOMAIN ldap
    PROVE  CreationInv'
<1>1. TypeOK'
  BY DEF CreationInv, TypeOK
<1>2. calls'[c] = x /\ \A k \in Calls \ {c} : calls'[k] = calls[k]
  BY DEF CreationInv, TypeOK
<1>3. ASSUME NEW m \in wire
      PROVE  SentOK(m)'
  <2>1. m.call # c
    BY NoneIsNoValue DEF CreationInv, SentOK
  <2> QED
    BY <1>2, <2>1, SentFrame
<1>4. ASSUME NEW k \in Calls \ {c}
      PROVE  PointsOK(k)' /\ CreationOK(k)'
  BY <1>2, CreationFrame
<1> QED
  BY <1>1, <1>3, <1>4 DEF CreationInv

\* The id of a new user is nobody's (lines 313-332).
LEMMA CreationBegins ==
    ASSUME CreationInv, NEW c \in Calls, BeginCreate(c)
    PROVE  CreationInv'
<1>1. PICK i \in Ids \ DOMAIN users, row \in Row :
         /\ \A k \in Calls : calls[k].id # i
         /\ calls' = [calls EXCEPT ![c] = [Idle EXCEPT
                        !.op = "create", !.pc = "insert", !.id = i,
                        !.email = row.email, !.old = row]]
  BY DEF BeginCreate
<1> DEFINE x == [Idle EXCEPT !.op = "create", !.pc = "insert", !.id = i,
                             !.email = row.email, !.old = row]
<1>2. /\ x \in Call /\ x.op = "create" /\ x.pc = "insert" /\ x.id = i
      /\ x.email = row.email /\ x.old = row /\ row.email \in Emails
  BY DEF Idle, Call, Ops, Points, NoPatch, Patch, Row
<1> HIDE DEF x
<1>3. calls' = [calls EXCEPT ![c] = x]
  BY <1>1 DEF x
<1>4. calls'[c] = x /\ \A k \in Calls \ {c} : calls'[k] = calls[k]
  BY <1>3 DEF CreationInv, TypeOK
<1>5. ~At(c, "wait") /\ UNCHANGED <<users, locks, ldap, wire, stale, faults>>
  BY DEF BeginCreate, At
<1>6. PointsOK(c)'
  BY <1>2, <1>4 DEF PointsOK, Creating, Changing, Holding, At
<1>7. CreationOK(c)'
  BY <1>1, <1>2, <1>4, <1>5 DEF CreationOK, Creating, At
<1> QED
  BY <1>1, <1>2, <1>3, <1>5, <1>6, <1>7, CreationGoto

\* A user that can be read is past its insert.
LEMMA ChangeBegins ==
    ASSUME CreationInv, NEW c \in Calls, NEW i \in DOMAIN users,
           NEW op \in {"update", "remove", "activate", "changePassword"},
           NEW patch \in Patch, NEW e \in NewEmails \cup {None},
           Begin(c, op, i, patch, e)
    PROVE  CreationInv'
<1> DEFINE x == [Idle EXCEPT !.op = op, !.pc = "write", !.id = i,
                             !.email = users[i].email, !.newEmail = e,
                             !.patch = patch, !.old = users[i]]
<1>1. /\ i \in Ids /\ users[i] \in Row /\ users[i].email \in Emails
      /\ e \in Emails \cup {None}
  BY DirectoryAssumption DEF CreationInv, TypeOK, Row
<1>2. /\ x \in Call /\ x.op = op /\ x.pc = "write" /\ x.id = i
      /\ x.email = users[i].email /\ x.old = users[i]
  BY <1>1 DEF Idle, Call, Ops, Points, NoPatch, Patch
<1>3. /\ calls' = [calls EXCEPT ![c] = x] /\ ~At(c, "wait")
      /\ UNCHANGED <<users, locks, ldap, wire, stale, faults>>
  BY DEF Begin, At
<1> HIDE DEF x
<1>4. calls'[c] = x
  BY <1>3 DEF CreationInv, TypeOK
<1>5. PointsOK(c)' /\ CreationOK(c)' /\ Changing(c)'
  BY <1>1, <1>2, <1>4 DEF PointsOK, CreationOK, Creating, Changing, Holding,
     Answers, At
<1>6. ASSUME NEW k \in Calls \ {c}, Creating(k), x.id = calls[k].id
      PROVE  /\ ~At(k, "insert")
             /\ x.email = calls[k].email \/ calls[k].email \in DOMAIN ldap
  BY <1>2, <1>6 DEF CreationInv, CreationOK
<1> QED
  BY <1>2, <1>3, <1>5, <1>6, CreationGoto

\* The four handlers that read a user.
LEMMA AnyChangeBegins ==
    ASSUME CreationInv, NEW c \in Calls,
           \/ BeginUpdate(c) \/ BeginRemove(c)
           \/ BeginActivate(c) \/ BeginChangePassword(c)
    PROVE  CreationInv'
<1>1. CASE BeginUpdate(c)
  BY <1>1, ChangeBegins DEF BeginUpdate
<1>2. CASE BeginRemove(c)
  <2>1. [NoPatch EXCEPT !.active = "inactive"] \in Patch
    BY DEF NoPatch, Patch, Active
  <2> QED
    BY <1>2, <2>1, ChangeBegins DEF BeginRemove
<1>3. CASE BeginActivate(c)
  <2>1. [NoPatch EXCEPT !.active = "active"] \in Patch
    BY DEF NoPatch, Patch, Active
  <2> QED
    BY <1>3, <2>1, ChangeBegins DEF BeginActivate
<1>4. CASE BeginChangePassword(c)
  <2>1. PICK i \in DOMAIN users, p \in Passwords :
           Begin(c, "changePassword", i, [NoPatch EXCEPT !.password = p], None)
    BY <1>4 DEF BeginChangePassword
  <2>2. [NoPatch EXCEPT !.password = p] \in Patch
    BY DEF NoPatch, Patch
  <2> QED
    BY <2>1, <2>2, ChangeBegins
<1> QED
  BY <1>1, <1>2, <1>3, <1>4

\* Nobody else works on the user while it is being inserted (lines 333-344).
LEMMA CreationInserts ==
    ASSUME CreationInv, NEW c \in Calls, InsertUser(c)
    PROVE  CreationInv'
<1> DEFINE i == calls[c].id
           x == [calls[c] EXCEPT !.pc = "post"]
<1>1. /\ calls[c] \in Call /\ calls[c].pc = "insert" /\ PointsOK(c) /\ CreationOK(c)
      /\ Creating(c)
  <2>1. calls[c] \in Call /\ calls[c].pc = "insert" /\ PointsOK(c) /\ CreationOK(c)
    BY DEF InsertUser, At, CreationInv, TypeOK
  <2> QED
    BY <2>1 DEF PointsOK, Creating, Changing, Answers, At
<1>2. ~At(c, "wait")
  BY <1>1 DEF At
<1>3. CASE EmailTaken(calls[c].email, None)
  BY <1>2, <1>3, CreationLeave DEF InsertUser
<1>4. CASE ~EmailTaken(calls[c].email, None)
  <2>1. /\ users' = Put(users, i, calls[c].old)
        /\ calls' = [calls EXCEPT ![c] = x]
        /\ UNCHANGED <<locks, ldap, wire, stale, faults>>
    BY <1>4 DEF InsertUser, Goto
  <2>2. /\ x \in Call /\ x.op = "create" /\ x.pc = "post" /\ x.id = i
        /\ x.email = calls[c].email /\ x.old = calls[c].old
    BY <1>1 DEF Call, Points, Creating
  <2> HIDE DEF x
  <2>3. calls'[c] = x /\ \A k \in Calls \ {c} : calls'[k] = calls[k]
    BY <2>1 DEF CreationInv, TypeOK
  <2>4. /\ i \in Ids \ DOMAIN users /\ calls[c].old \in Row
        /\ calls[c].email = calls[c].old.email /\ calls[c].email \in Emails
        /\ \A k \in Calls \ {c} : calls[k].op # "none" => calls[k].id # i
    BY <1>1 DEF PointsOK, CreationOK, Creating, At
  <2>5. /\ DOMAIN users' = DOMAIN users \cup {i} /\ users'[i] = calls[c].old
        /\ \A j \in DOMAIN users : j # i /\ users'[j] = users[j]
    BY <2>1, <2>4 DEF Put
  <2>6. TypeOK'
    BY <2>1, <2>2, <2>4, <2>5 DEF CreationInv, TypeOK
  <2>7. PointsOK(c)'
    BY <2>2, <2>3, <2>4 DEF PointsOK, Creating, Changing, Holding, At
  <2>8. CreationOK(c)'
    BY <2>1, <2>2, <2>3, <2>4, <2>5 DEF CreationOK, Creating, At
  <2>9. ASSUME NEW k \in Calls \ {c}
        PROVE  PointsOK(k)' /\ CreationOK(k)'
    <3>1. Creating(k) => calls[k].id # i
      BY <2>4 DEF Creating
    <3>2. Creating(k) => (calls[k].id \in DOMAIN users <=> calls[k].id \in DOMAIN users')
      BY <2>5, <3>1
    <3>3. calls[k].id \in DOMAIN users => users'[calls[k].id] = users[calls[k].id]
      BY <2>5
    <3> QED
      BY <2>1, <2>2, <2>3, <3>1, <3>2, <3>3, CreationFrame
  <2>10. ASSUME NEW m \in wire
         PROVE  SentOK(m)'
    <3>1. m.call # c
      BY <1>2, NoneIsNoValue DEF CreationInv, SentOK
    <3> QED
      BY <2>1, <2>3, <3>1, SentFrame
  <2> QED
    BY <2>1, <2>6, <2>7, <2>8, <2>9, <2>10 DEF CreationInv
<1> QED
  BY <1>3, <1>4

\* The request of a create is for the address its user has by then (lines
\* 345-351).
LEMMA CreationPosts ==
    ASSUME CreationInv, NEW c \in Calls, PostUser(c)
    PROVE  CreationInv'
<1> DEFINE i == calls[c].id
           x == [calls[c] EXCEPT !.pc = "wait"]
           payload == [EntryOf(users[i]) EXCEPT !.password = calls[c].old.password]
           request == [call |-> c, email |-> users[i].email, creates |-> TRUE,
                       patch |-> payload]
<1>1. /\ calls[c] \in Call /\ calls[c].pc = "post" /\ PointsOK(c) /\ CreationOK(c)
      /\ Creating(c)
  <2>1. calls[c] \in Call /\ calls[c].pc = "post" /\ PointsOK(c) /\ CreationOK(c)
    BY DEF PostUser, At, CreationInv, TypeOK
  <2> QED
    BY <2>1 DEF PointsOK, Creating, Changing, Answers, At
<1>2. ~At(c, "wait") /\ ~At(c, "insert") /\ ~At(c, "ok")
  BY <1>1 DEF At
<1>3. /\ i \in DOMAIN users /\ i \in Ids /\ users[i] \in Row /\ users[i].email \in Emails
      /\ calls[c].old \in Row /\ calls[c].email \in Emails
      /\ users[i].email = calls[c].email \/ calls[c].email \in DOMAIN ldap
  BY <1>1, <1>2 DEF CreationOK, PointsOK, Creating, CreationInv, TypeOK, Row
<1>4. payload \in Entry
  BY <1>3 DEF EntryOf, Row, Entry
<1>5. PICK m \in Request : /\ m = request /\ m.call = c /\ m.creates
                           /\ m.email = users[i].email /\ m.patch \in Entry
  <2> HIDE DEF payload
  <2>1. /\ request \in Request /\ request.call = c /\ request.creates
        /\ request.email = users[i].email /\ request.patch \in Entry
    BY <1>3, <1>4, EntryIsPatch DEF Request
  <2> QED
    BY <2>1
<1>6. /\ wire' = wire \cup {m} /\ calls' = [calls EXCEPT ![c] = x]
      /\ UNCHANGED <<users, locks, ldap, stale, faults>>
  BY <1>5 DEF PostUser, Goto
<1>7. /\ x \in Call /\ x.op = "create" /\ x.pc = "wait" /\ x.id = i
      /\ x.email = calls[c].email /\ x.old = calls[c].old
  BY <1>1 DEF Call, Points, Creating
<1> HIDE DEF x, request, payload
<1>8. calls'[c] = x /\ \A k \in Calls \ {c} : calls'[k] = calls[k]
  BY <1>6 DEF CreationInv, TypeOK
<1>9. TypeOK'
  BY <1>5, <1>6, <1>7 DEF CreationInv, TypeOK
<1>10. PointsOK(c)' /\ CreationOK(c)'
  <2>1. PointsOK(c)'
    BY <1>3, <1>7, <1>8 DEF PointsOK, Creating, Changing, Holding, At
  <2>2. CreationOK(c)'
    BY <1>1, <1>2, <1>3, <1>6, <1>7, <1>8 DEF CreationOK, Creating, Changing, At
  <2> QED
    BY <2>1, <2>2
<1>11. \A n \in wire : n.call # c
  BY <1>2, NoneIsNoValue DEF CreationInv, SentOK
<1>12. ASSUME NEW k \in Calls \ {c}
       PROVE  PointsOK(k)' /\ CreationOK(k)'
  <2>1. Creating(k) => calls[k].id # i
    BY <1>1 DEF CreationOK, Creating, Changing
  <2> QED
    BY <1>6, <1>7, <1>8, <2>1, CreationFrame
<1>13. ASSUME NEW n \in wire'
       PROVE  SentOK(n)'
  <2>1. CASE n = m
    <3>1. Creating(c)' /\ At(c, "wait")' /\ calls'[c].email = calls[c].email
      BY <1>7, <1>8 DEF Creating, At
    <3> QED
      BY <1>3, <1>5, <1>6, <1>11, <2>1, <3>1 DEF SentOK
  <2>2. CASE n \in wire
    <3>1. n.call # c
      BY <1>11, <2>2
    <3> QED
      BY <1>5, <1>6, <1>8, <2>2, <3>1, SentFrame
  <2> QED
    BY <1>6, <2>1, <2>2
<1> QED
  BY <1>9, <1>10, <1>12, <1>13 DEF CreationInv

\* Only an error makes a create take its row back (lines 350-360).
LEMMA CreationEnds ==
    ASSUME CreationInv, NEW c \in Calls, EndCreate(c)
    PROVE  CreationInv'
<1>1. /\ calls[c] \in Call /\ calls[c].pc \in Answers /\ PointsOK(c) /\ CreationOK(c)
      /\ Creating(c) /\ ~At(c, "wait") /\ ~At(c, "insert")
      /\ UNCHANGED <<users, locks, ldap, wire, stale, faults>>
  BY DEF EndCreate, At, CreationInv, TypeOK, Creating, Answers
<1>2. CASE ~At(c, "error")
  BY <1>1, <1>2, CreationLeave DEF EndCreate
<1>3. CASE At(c, "error")
  <2> DEFINE x == [calls[c] EXCEPT !.pc = "erase"]
  <2>1. /\ x \in Call /\ x.op = "create" /\ x.pc = "erase" /\ x.id = calls[c].id
        /\ x.email = calls[c].email /\ x.old = calls[c].old
    BY <1>1 DEF Call, Points, Creating
  <2>2. calls' = [calls EXCEPT ![c] = x]
    BY <1>3 DEF EndCreate, Goto
  <2> HIDE DEF x
  <2>3. calls'[c] = x /\ \A k \in Calls \ {c} : calls'[k] = calls[k]
    BY <2>2 DEF CreationInv, TypeOK
  <2>4. PointsOK(c)'
    BY <1>1, <2>1, <2>3 DEF PointsOK, Creating, Changing, Holding, At
  <2>5. CreationOK(c)'
    BY <1>1, <2>1, <2>3 DEF CreationOK, Creating, Changing, At
  <2>6. \A k \in Calls \ {c} : Creating(k) => x.id # calls[k].id
    BY <1>1, <2>1 DEF CreationOK, Creating, Changing
  <2> QED
    BY <1>1, <2>1, <2>2, <2>4, <2>5, <2>6, CreationGoto
<1> QED
  BY <1>2, <1>3

\* The row that is taken back is that of no other create (lines 354-357).
LEMMA CreationErases ==
    ASSUME CreationInv, NEW c \in Calls, EraseUser(c)
    PROVE  CreationInv'
<1> DEFINE i == calls[c].id
<1>1. /\ calls[c].pc = "erase" /\ PointsOK(c) /\ CreationOK(c) /\ Creating(c)
      /\ ~At(c, "wait")
  <2>1. calls[c] \in Call /\ calls[c].pc = "erase" /\ PointsOK(c) /\ CreationOK(c)
    BY DEF EraseUser, At, CreationInv, TypeOK
  <2> QED
    BY <2>1 DEF PointsOK, Creating, Changing, Answers, At
<1>2. /\ users' = Remove(users, i) /\ Return(c)
      /\ UNCHANGED <<locks, ldap, wire, stale, faults>>
  BY DEF EraseUser
<1>3. /\ DOMAIN users' = DOMAIN users \ {i}
      /\ \A j \in DOMAIN users' : users'[j] = users[j]
  BY <1>2 DEF Remove
<1>4. TypeOK'
  BY <1>2, <1>3 DEF CreationInv, TypeOK, Return, Idle, Call, Ops, Points, NoPatch, Patch
<1>5. \A k \in Calls \ {c} : calls'[k] = calls[k]
  BY <1>2 DEF Return, CreationInv, TypeOK
<1>6. ASSUME NEW k \in Calls \ {c}, Creating(k)
      PROVE  calls[k].id # i
  BY <1>1, <1>6 DEF CreationOK, Creating, Changing
<1>7. ASSUME NEW m \in wire
      PROVE  SentOK(m)'
  <2>1. m.call # c
    BY <1>1, NoneIsNoValue DEF CreationInv, SentOK
  <2> QED
    BY <1>2, <1>5, <2>1, SentFrame
<1> QED
  BY <1>2, <1>3, <1>4, <1>6, <1>7, CreationReturn

\* The row written is a row, and the request is for the address as read (lines
\* 392-424 and their like).
LEMMA ChangeWrites ==
    ASSUME CreationInv, NEW c \in Calls, WriteUser(c)
    PROVE  CreationInv'
<1> DEFINE call == calls[c]
           i == call.id
           row == [Patched(users[i], call.patch) EXCEPT !.email = Or(call.newEmail, @)]
           patch == LdapPatch(call.op, call.patch, call.old, row)
           request == [call |-> c, email |-> call.email, creates |-> FALSE,
                       patch |-> patch]
           x == [call EXCEPT !.pc = "wait", !.row = row]
<1>1. /\ call \in Call /\ PointsOK(c) /\ call.pc = "write" /\ ~At(c, "wait")
      /\ call.op \in {"update", "remove", "activate", "changePassword"}
  <2>1. call \in Call /\ PointsOK(c) /\ call.pc = "write"
    BY DEF WriteUser, At, CreationInv, TypeOK
  <2>2. call.op \in Ops /\ "write" \notin CreateRefusals
    BY <2>1, DirectoryAssumption DEF Call, Answers
  <2> QED
    BY <2>1, <2>2 DEF PointsOK, Creating, Ops, At
<1>2. /\ call.patch \in Patch /\ call.old \in Row /\ i \in Ids
      /\ call.email \in Emails /\ call.newEmail \in Emails \cup {None}
  BY <1>1 DEF PointsOK, Call
<1>3. CASE \/ ~Found(c)
           \/ call.newEmail # None /\ EmailTaken(call.newEmail, i)
  <2>1. Return(c) /\ UNCHANGED <<users, locks, ldap, wire, stale, faults>>
    BY <1>3 DEF WriteUser
  <2> QED
    BY <1>1, <2>1, CreationLeave
<1>4. CASE /\ Found(c)
           /\ ~(call.newEmail # None /\ EmailTaken(call.newEmail, i))
  <2>1. /\ locks' = [locks EXCEPT ![i] = c]
        /\ wire' = wire \cup {request}
        /\ stale' \in {stale \cup {i}, stale}
        /\ calls' = [calls EXCEPT ![c] = x]
        /\ UNCHANGED <<users, ldap, faults>>
    BY <1>4 DEF WriteUser
  <2>2. users[i] \in Row
    BY <1>4 DEF Found, CreationInv, TypeOK
  <2>3. row \in Row
    <3> DEFINE new == Patched(users[i], call.patch)
    <3>1. new \in Row
      BY <1>2, <2>2, PatchedTypes
    <3>2. Or(call.newEmail, new.email) \in Emails
      BY <1>2, <3>1 DEF Or, Row
    <3> HIDE DEF new
    <3>3. [new EXCEPT !.email = Or(call.newEmail, @)] \in Row
      BY <3>1, <3>2 DEF Row
    <3> QED
      BY <3>3 DEF new
  <2>4. patch \in Patch
    <3> HIDE DEF row
    <3>1. CASE call.op = "update"
      BY <1>2, <2>3, <3>1 DEF LdapPatch, Patch, Row
    <3>2. CASE call.op = "changePassword"
      BY <1>2, <3>2 DEF LdapPatch, Patch, Row
    <3>3. CASE call.op \in {"remove", "activate"}
      BY <1>2, <3>3 DEF LdapPatch
    <3> QED
      BY <1>1, <3>1, <3>2, <3>3
  <2>5. PICK m \in Request : /\ m = request /\ m.call = c /\ ~m.creates
                             /\ m.email = call.email
    <3> HIDE DEF patch
    <3>1. /\ request \in Request /\ request.call = c /\ ~request.creates
          /\ request.email = call.email
      BY <1>2, <2>4 DEF Request
    <3> QED
      BY <3>1
  <2>6. /\ x \in Call /\ x.pc = "wait" /\ x.row = row /\ x.op = call.op /\ x.id = i
        /\ x.email = call.email /\ x.old = call.old
    <3> HIDE DEF row
    <3> QED
      BY <1>1, <2>3 DEF Call, Points
  <2> HIDE DEF x, row, patch, request
  <2>7. calls'[c] = x /\ \A k \in Calls \ {c} : calls'[k] = calls[k]
    BY <2>1 DEF CreationInv, TypeOK
  <2>8. TypeOK'
    BY <1>2, <2>1, <2>5, <2>6 DEF CreationInv, TypeOK
  <2>9. PointsOK(c)' /\ CreationOK(c)' /\ Changing(c)'
    BY <1>1, <1>2, <2>3, <2>6, <2>7
    DEF PointsOK, CreationOK, Creating, Changing, Holding, At
  <2>10. \A n \in wire : n.call # c
    BY <1>1, NoneIsNoValue DEF CreationInv, SentOK
  <2>11. ASSUME NEW k \in Calls \ {c}
         PROVE  PointsOK(k)' /\ CreationOK(k)'
    <3>1. CreationOK(k)
      BY DEF CreationInv
    <3>2. Creating(k) /\ i = calls[k].id =>
            /\ ~At(k, "insert")
            /\ call.email = calls[k].email \/ calls[k].email \in DOMAIN ldap
      BY <1>1, <3>1 DEF CreationOK
    <3> QED
      BY <2>1, <2>6, <2>7, <2>9, <3>2, CreationFrame
  <2>12. ASSUME NEW n \in wire'
         PROVE  SentOK(n)'
    <3>1. CASE n = m
      <4>1. ~Creating(c)' /\ At(c, "wait")' /\ calls'[c].email = call.email
        BY <1>1, <2>6, <2>7 DEF Creating, At
      <4> QED
        BY <2>1, <2>5, <2>10, <3>1, <4>1 DEF SentOK
    <3>2. CASE n \in wire
      <4>1. n.call # c
        BY <2>10, <3>2
      <4> QED
        BY <2>1, <2>5, <2>7, <3>2, <4>1, SentFrame
    <3> QED
      BY <2>1, <2>5, <3>1, <3>2
  <2> QED
    BY <2>8, <2>9, <2>11, <2>12 DEF CreationInv
<1> QED
  BY <1>3, <1>4

\* A transaction ends: a change whose request has been carried out commits, and
\* its address has an entry, so it is the address of no create that has none.
LEMMA ChangeEnds ==
    ASSUME CreationInv, NEW c \in Calls, NEW commit \in BOOLEAN,
           ~At(c, "idle"), commit => Changing(c) /\ At(c, "ok"),
           EndTransaction(c, commit), faults' \in 0..MaxFaults,
           wire' \subseteq Request,
           \A m \in wire' : SentOK(m)'
    PROVE  CreationInv'
<1> DEFINE i == calls[c].id
<1>1. PointsOK(c) /\ calls[c].op # "none" /\ i \in Ids
  BY DEF CreationInv, PointsOK
<1>2. /\ users' = IF commit THEN [users EXCEPT ![i] = calls[c].row] ELSE users
      /\ locks' = [locks EXCEPT ![i] = IF @ = c THEN None ELSE @]
      /\ Return(c) /\ UNCHANGED <<ldap, stale>>
  BY DEF EndTransaction
<1>3. DOMAIN users' = DOMAIN users
  BY <1>2
<1>4. commit => calls[c].row \in Row /\ calls[c].email \in DOMAIN ldap
  BY <1>1 DEF PointsOK, Holding, Answers, At
<1>5. ASSUME NEW j \in DOMAIN users
      PROVE  users'[j] = users[j] \/ (commit /\ j = i /\ users'[j] = calls[c].row)
  <2>1. CASE commit /\ j = i
    BY <1>2, <2>1
  <2>2. CASE ~(commit /\ j = i)
    BY <1>2, <2>2
  <2> QED
    BY <2>1, <2>2
<1>6. TypeOK'
  <2>1. locks' \in [Ids -> Calls \cup {None}]
    BY <1>2 DEF CreationInv, TypeOK
  <2>2. calls' \in [Calls -> Call]
    BY <1>2 DEF CreationInv, TypeOK, Return, Idle, Call, Ops, Points, NoPatch, Patch
  <2> QED
    BY <1>2, <1>3, <1>4, <1>5, <2>1, <2>2 DEF CreationInv, TypeOK
<1>7. ASSUME NEW k \in Calls \ {c}, Creating(k), calls[k].id \in DOMAIN users
      PROVE  \/ users'[calls[k].id].email = users[calls[k].id].email
             \/ calls[k].email \in DOMAIN ldap
  <2>1. CASE users'[calls[k].id] = users[calls[k].id]
    BY <2>1
  <2>2. CASE commit /\ calls[k].id = i
    <3>1. calls[c].email = calls[k].email \/ calls[k].email \in DOMAIN ldap
      BY <1>1, <1>7, <2>2 DEF CreationInv, CreationOK
    <3> QED
      BY <1>4, <2>2, <3>1
  <2> QED
    BY <1>5, <1>7, <2>1, <2>2
<1> QED
  BY <1>2, <1>3, <1>6, <1>7, CreationReturn

\* The transaction is committed or rolled back (lines 426-434 and their like).
LEMMA ChangeCommits ==
    ASSUME CreationInv, NEW c \in Calls, Commit(c) \/ Rollback(c)
    PROVE  CreationInv'
<1>1. /\ Changing(c) /\ ~At(c, "wait") /\ ~At(c, "idle")
      /\ \/ EndTransaction(c, TRUE) /\ At(c, "ok")
         \/ EndTransaction(c, FALSE)
      /\ UNCHANGED <<wire, faults>>
  BY DEF Commit, Rollback, At
<1>2. \A k \in Calls \ {c} : calls'[k] = calls[k]
  BY <1>1 DEF EndTransaction, Return, CreationInv, TypeOK
<1>3. ASSUME NEW m \in wire
      PROVE  SentOK(m)'
  <2>1. m.call # c
    BY <1>1, NoneIsNoValue DEF CreationInv, SentOK
  <2> QED
    BY <1>1, <1>2, <2>1, SentFrame DEF EndTransaction
<1>4. faults' \in 0..MaxFaults /\ wire' \subseteq Request
  BY <1>1 DEF CreationInv, TypeOK
<1> QED
  BY <1>1, <1>3, <1>4, ChangeEnds

\* A handler that gives up leaves its request on the way.
LEMMA HandlerGivesUp ==
    ASSUME CreationInv, NEW c \in Calls, TimeOut(c) \/ Abort(c)
    PROVE  CreationInv'
<1>1. /\ ~At(c, "idle") /\ EndTransaction(c, FALSE)
      /\ wire' = {IF m.call = c THEN [m EXCEPT !.call = None] ELSE m : m \in wire}
  BY DEF TimeOut, Abort, GiveUp, At
<1>2. faults' \in 0..MaxFaults
  <2>1. faults \in 0..MaxFaults /\ MaxFaults \in Nat
    BY DirectoryAssumption DEF CreationInv, TypeOK
  <2> QED
    BY <2>1 DEF TimeOut, Abort
<1>3. \A k \in Calls \ {c} : calls'[k] = calls[k]
  BY <1>1 DEF EndTransaction, Return, CreationInv, TypeOK
<1>4. ASSUME NEW n \in wire'
      PROVE  n \in Request /\ SentOK(n)'
  <2>1. PICK m \in wire : n = IF m.call = c THEN [m EXCEPT !.call = None] ELSE m
    BY <1>1
  <2>2. m \in Request /\ SentOK(m)
    BY DEF CreationInv, TypeOK
  <2>3. CASE m.call = c
    <3>1. n \in Request /\ n.call = None /\ n.creates = m.creates /\ n.patch = m.patch
      BY <2>1, <2>2, <2>3 DEF Request
    <3> QED
      BY <2>2, <3>1 DEF SentOK
  <2>4. CASE m.call # c
    <3>1. n = m
      BY <2>1, <2>4
    <3>2. \A l \in wire' : l.call = m.call /\ m.call # None => l \in wire
      <4> SUFFICES ASSUME NEW l \in wire', l.call = m.call, m.call # None
                   PROVE  l \in wire
        OBVIOUS
      <4>1. PICK o \in wire : l = IF o.call = c THEN [o EXCEPT !.call = None] ELSE o
        BY <1>1
      <4>2. o \in Request
        BY DEF CreationInv, TypeOK
      <4>3. o.call # c
        BY <4>1, <4>2 DEF Request
      <4> QED
        BY <4>1, <4>3
    <3>3. SentOK(m)'
      BY <1>1, <1>3, <2>4, <3>2, SentFrame DEF EndTransaction
    <3> QED
      BY <2>2, <3>1, <3>3
  <2> QED
    BY <2>3, <2>4
<1> QED
  BY <1>1, <1>2, <1>4, ChangeEnds

\* The microservice answers: the entries stay, and a request that has been
\* carried out has an entry for its address.
LEMMA RequestAnswered ==
    ASSUME CreationInv, NEW m \in wire,
           NEW answer \in Answers \cup CreateRefusals,
           m.creates => answer \in {"ok", "error"} \cup CreateRefusals,
           Answer(m, answer), faults' \in 0..MaxFaults,
           DOMAIN ldap \subseteq DOMAIN ldap', DOMAIN ldap' \subseteq Emails,
           \A e \in DOMAIN ldap' : ldap'[e] \in Entry,
           answer = "ok" => m.email \in DOMAIN ldap'
    PROVE  CreationInv'
<1> DEFINE c == m.call
           x == [calls[c] EXCEPT !.pc = answer]
<1>1. /\ wire' = wire \ {m} /\ UNCHANGED <<users, locks, stale>>
      /\ c \in Calls \cup {None} /\ SentOK(m)
  BY DEF Answer, CreationInv, TypeOK, Request
<1>2. CASE c = None
  <2>1. calls' = calls
    BY <1>2 DEF Answer
  <2>2. TypeOK'
    BY <1>1, <2>1 DEF CreationInv, TypeOK
  <2>3. ASSUME NEW k \in Calls
        PROVE  PointsOK(k)' /\ CreationOK(k)'
    <3>1. k \in Calls \ {None}
      BY NoneIsNoValue
    <3> QED
      BY <1>1, <2>1, <3>1, NoneIsNoValue, CreationFrame
  <2>4. ASSUME NEW n \in wire'
        PROVE  SentOK(n)'
    <3>1. n \in wire /\ SentOK(n)
      BY <1>1 DEF CreationInv
    <3> QED
      BY <1>1, <2>1, <3>1 DEF SentOK, Creating, At
  <2> QED
    BY <2>2, <2>3, <2>4 DEF CreationInv
<1>3. CASE c \in Calls
  <2>1. /\ c # None /\ calls' = [calls EXCEPT ![c] = x]
        /\ calls[c] \in Call /\ calls[c].pc = "wait"
        /\ PointsOK(c) /\ CreationOK(c) /\ answer \in Answers
        /\ At(c, "wait") /\ m.creates <=> Creating(c)
        /\ \/ m.email = calls[c].email
           \/ m.creates /\ calls[c].email \in DOMAIN ldap
    BY <1>1, <1>3, NoneIsNoValue, DirectoryAssumption
    DEF Answer, SentOK, At, CreationInv, TypeOK
  <2>2. /\ x \in Call /\ x.pc = answer /\ x.op = calls[c].op /\ x.id = calls[c].id
        /\ x.email = calls[c].email /\ x.old = calls[c].old /\ x.row = calls[c].row
    BY <2>1 DEF Call, Points
  <2> HIDE DEF x
  <2>3. calls'[c] = x /\ \A k \in Calls \ {c} : calls'[k] = calls[k]
    BY <1>3, <2>1 DEF CreationInv, TypeOK
  <2>4. TypeOK'
    BY <1>1, <1>3, <2>1, <2>2 DEF CreationInv, TypeOK
  <2>5. /\ calls[c].op # "none" /\ answer \notin {"idle", "insert"}
        /\ answer = "ok" => calls[c].email \in DOMAIN ldap'
    BY <2>1 DEF PointsOK, Answers, At
  <2>6. PointsOK(c)'
    BY <2>1, <2>2, <2>3, <2>5 DEF PointsOK, Creating, Changing, Holding, At
  <2>7. CreationOK(c)'
    BY <1>1, <2>1, <2>2, <2>3, <2>5 DEF CreationOK, Creating, Changing, At
  <2>8. ASSUME NEW k \in Calls \ {c}
        PROVE  PointsOK(k)' /\ CreationOK(k)'
    <3>1. CreationOK(k)
      BY DEF CreationInv
    <3>2. Creating(k) /\ x.id = calls[k].id =>
            /\ Changing(c)' /\ ~At(k, "insert")
            /\ x.email = calls[k].email \/ calls[k].email \in DOMAIN ldap'
      BY <1>3, <2>2, <2>3, <2>5, <3>1 DEF CreationOK, Changing
    <3> QED
      BY <1>1, <2>3, <3>2, CreationFrame
  <2>9. ASSUME NEW n \in wire'
        PROVE  SentOK(n)'
    <3>1. n \in wire /\ n.call # c
      BY <1>1, <2>1 DEF SentOK
    <3> QED
      BY <1>1, <2>3, <3>1, SentFrame
  <2> QED
    BY <2>4, <2>6, <2>7, <2>8, <2>9 DEF CreationInv
<1> QED
  BY <1>1, <1>2, <1>3

\* What the microservice does to the directory.
LEMMA AppliedTypes ==
    ASSUME CreationInv, NEW m \in wire, Applicable(m)
    PROVE  /\ DOMAIN Applied(m) = DOMAIN ldap \cup {m.email}
           /\ DOMAIN Applied(m) \subseteq Emails
           /\ \A e \in DOMAIN Applied(m) : Applied(m)[e] \in Entry
<1>1. m \in Request /\ SentOK(m)
  BY DEF CreationInv, TypeOK
<1>2. m.email \in Emails /\ m.patch \in Patch
  BY <1>1 DEF Request
<1>3. PICK entry : entry = IF m.creates THEN EntryOf(m.patch)
                                        ELSE Patched(ldap[m.email], m.patch)
  OBVIOUS
<1>4. entry \in Entry
  <2>1. CASE m.creates
    <3>1. m.patch \in Entry
      BY <1>1, <2>1 DEF SentOK
    <3> QED
      BY <1>3, <2>1, <3>1 DEF EntryOf, Entry
  <2>2. CASE ~m.creates
    <3>1. ldap[m.email] \in Entry
      BY <2>2 DEF Applicable, CreationInv, TypeOK
    <3> QED
      BY <1>2, <1>3, <2>2, <3>1, PatchedTypes
  <2> QED
    BY <2>1, <2>2
<1>5. Applied(m) = Put(ldap, m.email, entry)
  BY <1>3 DEF Applied
<1> QED
  BY <1>2, <1>4, <1>5 DEF Put, CreationInv, TypeOK

\* The microservice carries a request out, turns it down or loses its reply.
LEMMA MicroserviceSteps ==
    ASSUME CreationInv, NEW m \in wire,
           LdapApply(m) \/ LdapRefuse(m) \/ LdapLoseReply(m)
    PROVE  CreationInv'
<1>1. /\ faults \in 0..MaxFaults /\ MaxFaults \in Nat
      /\ DOMAIN ldap \subseteq Emails /\ \A e \in DOMAIN ldap : ldap[e] \in Entry
  BY DirectoryAssumption DEF CreationInv, TypeOK
<1>2. CASE LdapApply(m)
  <2>1. /\ Answer(m, "ok") /\ Applicable(m) /\ ldap' = Applied(m) /\ faults' = faults
        /\ "ok" \in Answers
    BY <1>2 DEF LdapApply, Answers
  <2> QED
    BY <1>1, <2>1, AppliedTypes, RequestAnswered
<1>3. CASE LdapLoseReply(m)
  <2>1. /\ Answer(m, "error") /\ Applicable(m) /\ ldap' = Applied(m)
        /\ faults' \in 0..MaxFaults /\ "error" \in Answers
    BY <1>1, <1>3 DEF LdapLoseReply, Answers
  <2> QED
    BY <1>1, <2>1, AppliedTypes, RequestAnswered
<1>4. CASE LdapRefuse(m)
  <2>1. PICK answer \in IF m.creates THEN CreateRefusals ELSE {"refused", "error"} :
           Answer(m, answer)
    BY <1>4 DEF LdapRefuse
  <2>2. /\ answer \in Answers \cup CreateRefusals /\ answer # "ok"
        /\ m.creates => answer \in CreateRefusals
    BY DirectoryAssumption DEF Answers
  <2>3. faults' = faults /\ ldap' = ldap
    BY <1>4 DEF LdapRefuse
  <2> QED
    BY <1>1, <2>1, <2>2, <2>3, RequestAnswered
<1> QED
  BY <1>2, <1>3, <1>4

\* Every step keeps CreationInv, whatever is lost.
LEMMA NextCreation ==
    ASSUME CreationInv, [Next]_vars
    PROVE  CreationInv'
<1>1. CASE \E c \in Calls : BeginCreate(c)
  BY <1>1, CreationBegins
<1>2. CASE \E c \in Calls : \/ BeginUpdate(c) \/ BeginRemove(c)
                            \/ BeginActivate(c) \/ BeginChangePassword(c)
  BY <1>2, AnyChangeBegins
<1>3. CASE \E c \in Calls : Step(c)
  BY <1>3, CreationInserts, CreationPosts, CreationEnds, CreationErases,
     ChangeWrites, ChangeCommits DEF Step
<1>4. CASE \E c \in Calls : TimeOut(c) \/ Abort(c)
  BY <1>4, HandlerGivesUp
<1>5. CASE \E m \in wire : LdapApply(m) \/ LdapRefuse(m) \/ LdapLoseReply(m)
  BY <1>5, MicroserviceSteps
<1>6. CASE UNCHANGED vars
  BY <1>6 DEF vars, CreationInv, TypeOK, PointsOK, CreationOK, SentOK, Creating,
     Changing, Holding, At
<1> QED
  BY <1>1, <1>2, <1>3, <1>4, <1>5, <1>6 DEF Next

\* Whatever replies are lost, whatever transactions outlast their limit and
\* whatever addresses change, the invariant holds in every state the handlers of
\* users.service.ts and the microservice can reach.
THEOREM CreationInvariant == Spec => []CreationInv
<1>1. Init => CreationInv
  <2> SUFFICES ASSUME Init
               PROVE  CreationInv
    OBVIOUS
  <2>1. Idle \in Call /\ Idle.op = "none" /\ Idle.pc = "idle"
    BY DEF Idle, Call, Ops, Points, NoPatch, Patch
  <2>2. /\ users = <<>> /\ ldap = <<>> /\ wire = {} /\ stale = {} /\ faults = 0
        /\ DOMAIN users = {} /\ DOMAIN ldap = {}
        /\ calls \in [Calls -> Call] /\ \A c \in Calls : calls[c] = Idle
        /\ locks \in [Ids -> Calls \cup {None}]
    BY <2>1 DEF Init
  <2>3. TypeOK
    BY <2>2, DirectoryAssumption DEF TypeOK
  <2>4. \A c \in Calls : PointsOK(c) /\ CreationOK(c)
    BY <2>1, <2>2 DEF PointsOK, CreationOK, Creating, Changing, Holding, At
  <2> QED
    BY <2>2, <2>3, <2>4 DEF CreationInv
<1>2. CreationInv /\ [Next]_vars => CreationInv'
  BY NextCreation
<1> QED
  BY <1>1, <1>2, PTL DEF Spec

\* Whatever gets lost, the tables, the locals and the requests of the user
\* handlers keep their types.
THEOREM DirectoryTypeOK == Spec => []TypeOK
<1>1. CreationInv => TypeOK
  BY DEF CreationInv
<1> QED
  BY <1>1, CreationInvariant, PTL

\* The part of CreatedUserHasEntry that is about one handler.
LEMMA CreateLeavesEntry ==
    ASSUME CreateRefusals = {"error"}, CreationInv, [Next]_vars, NEW c \in Calls,
           calls[c].op = "create", calls'[c] = Idle, faults' = faults,
           calls[c].id \in DOMAIN users'
    PROVE  calls[c].email \in DOMAIN ldap'
<1>1. Idle.op = "none" /\ Idle.pc = "idle"
  BY DEF Idle
<1>2. PointsOK(c) /\ CreationOK(c) /\ calls'[c] # calls[c]
  BY <1>1 DEF CreationInv
<1>3. faults \in Nat
  BY DirectoryAssumption DEF CreationInv, TypeOK
<1>4. calls \in [Calls -> Call]
  BY DEF CreationInv, TypeOK
<1>5. ~At(c, "idle") /\ ~Changing(c)
  BY <1>2 DEF PointsOK, Changing
<1>6. CASE InsertUser(c)
  <2>1. CASE EmailTaken(calls[c].email, None)
    <3>1. UNCHANGED users /\ At(c, "insert")
      BY <1>6, <2>1 DEF InsertUser
    <3> QED
      BY <1>2, <3>1 DEF CreationOK, Creating
  <2>2. CASE ~EmailTaken(calls[c].email, None)
    <3>1. calls'[c].pc = "post"
      BY <1>4, <1>6, <2>2 DEF InsertUser, Goto, Call
    <3> QED
      BY <1>1, <3>1
  <2> QED
    BY <2>1, <2>2
<1>7. CASE PostUser(c)
  <2>1. calls'[c].pc = "wait"
    BY <1>4, <1>7 DEF PostUser, Goto, Call
  <2> QED
    BY <1>1, <2>1
<1>8. CASE EndCreate(c)
  <2>1. ~At(c, "error")
    BY <1>1, <1>4, <1>8 DEF EndCreate, Goto, Call
  <2>2. At(c, "ok")
    BY <1>2, <1>8, <2>1 DEF EndCreate, PointsOK, Creating, Answers, At
  <2>3. ldap' = ldap
    BY <1>8 DEF EndCreate
  <2> QED
    BY <1>2, <2>2, <2>3 DEF CreationOK, Creating
<1>9. CASE EraseUser(c)
  BY <1>9 DEF EraseUser, Remove
<1>10. CASE \E k \in Calls \ {c} :
              \/ BeginCreate(k) \/ BeginUpdate(k) \/ BeginRemove(k)
              \/ BeginActivate(k) \/ BeginChangePassword(k) \/ Step(k)
              \/ TimeOut(k) \/ Abort(k)
  <2>1. PICK k \in Calls \ {c} :
              \/ BeginCreate(k) \/ BeginUpdate(k) \/ BeginRemove(k)
              \/ BeginActivate(k) \/ BeginChangePassword(k) \/ Step(k)
              \/ TimeOut(k) \/ Abort(k)
    BY <1>10
  <2>2. \E x : calls' = [calls EXCEPT ![k] = x]
    <3>1. CASE BeginCreate(k)
      BY <3>1 DEF BeginCreate
    <3>2. CASE \/ BeginUpdate(k) \/ BeginRemove(k)
               \/ BeginActivate(k) \/ BeginChangePassword(k)
      BY <3>2 DEF BeginUpdate, BeginRemove, BeginActivate, BeginChangePassword, Begin
    <3>3. CASE InsertUser(k) \/ PostUser(k) \/ EndCreate(k) \/ EraseUser(k)
      BY <3>3 DEF InsertUser, PostUser, EndCreate, EraseUser, Goto, Return
    <3>4. CASE WriteUser(k)
      BY <3>4 DEF WriteUser, Return
    <3>5. CASE Commit(k) \/ Rollback(k) \/ TimeOut(k) \/ Abort(k)
      BY <3>5 DEF Commit, Rollback, TimeOut, Abort, GiveUp, EndTransaction, Return
    <3> QED
      BY <2>1, <3>1, <3>2, <3>3, <3>4, <3>5 DEF Step
  <2> QED
    BY <1>2, <1>4, <2>2
<1>11. CASE \E m \in wire : LdapApply(m) \/ LdapRefuse(m) \/ LdapLoseReply(m)
  <2>1. PICK m \in wire, answer \in Answers : Answer(m, answer)
    BY <1>11, DirectoryAssumption DEF LdapApply, LdapRefuse, LdapLoseReply, Answers
  <2>2. calls'[c] = calls[c] \/ calls'[c].pc = answer
    BY <1>4, <2>1 DEF Answer, Call
  <2> QED
    BY <1>1, <1>2, <2>1, <2>2 DEF Answers
<1>12. CASE UNCHANGED vars
  BY <1>2, <1>12 DEF vars
<1>13. CASE \/ BeginCreate(c) \/ BeginUpdate(c) \/ BeginRemove(c)
            \/ BeginActivate(c) \/ BeginChangePassword(c)
  BY <1>5, <1>13 DEF BeginCreate, BeginUpdate, BeginRemove, BeginActivate,
     BeginChangePassword, Begin
<1>14. CASE Commit(c) \/ Rollback(c) \/ TimeOut(c)
  BY <1>5, <1>14 DEF Commit, Rollback, TimeOut
<1>15. CASE WriteUser(c)
  BY <1>2, <1>15 DEF WriteUser, PointsOK, Creating, Answers, At
<1>16. CASE Abort(c)
  BY <1>3, <1>16 DEF Abort
<1> QED
  BY <1>6, <1>7, <1>8, <1>9, <1>10, <1>11, <1>12, <1>13, <1>14, <1>15, <1>16
  DEF Next, Step

\* If the microservice turns a create-user down only by an error, then whatever
\* replies are lost, transactions time out, addresses change and other handlers
\* are cut short, a create that ends by itself and leaves its user in the table
\* leaves an entry in the directory (lines 350-357).
THEOREM CreatedUserHasEntrySound ==
    ASSUME CreateRefusals = {"error"}
    PROVE  Spec => CreatedUserHasEntry
<1>1. CreationInv /\ [Next]_vars =>
        [\A c \in Calls :
           /\ calls[c].op = "create" /\ calls'[c] = Idle /\ faults' = faults
           /\ calls[c].id \in DOMAIN users'
           => calls[c].email \in DOMAIN ldap']_vars
  BY CreateLeavesEntry
<1> QED
  BY <1>1, CreationInvariant, PTL DEF Spec, CreatedUserHasEntry

=============================================================================
