---------------------------- MODULE UserDirectory --------------------------
(***************************************************************************)
(* User accounts are kept twice: as rows of the users table and as entries *)
(* of an LDAP directory behind a microservice.  This module follows the    *)
(* handlers that change both (src/src/modules/users/users.service.ts and   *)
(* user-ldap-sync.service.ts): create, update, remove, activate and        *)
(* changePasswordByEmail.                                                  *)
(*                                                                         *)
(* A change writes the row in an interactive transaction, asks the         *)
(* microservice from inside it, and commits only on success.  The UPDATE   *)
(* holds the lock of the row until the transaction ends; Prisma ends a     *)
(* transaction that lasts too long, while the HTTP request, which has no   *)
(* timeout, stays under way.  create has no transaction: it inserts, asks, *)
(* and deletes the row again when the request throws.                      *)
(*                                                                         *)
(* The columns are abstracted to email, active, password and attr, which   *)
(* stands for the fields buildLdapUpdatePayload copies.                    *)
(***************************************************************************)
EXTENDS Integers, FiniteSets

CONSTANTS
    Ids,             \* ids of users
    Emails,          \* email addresses, the keys of the directory
    Passwords,
    Attrs,
    Calls,           \* slots for the handlers in flight
    None,
    Operations,      \* the handlers clients use
    NewEmails,       \* the addresses an update may set
    CreateRefusals,  \* how the microservice turns a create-user down
    Timeouts,        \* whether a transaction may outlast its time limit
    MaxLate,         \* bound on the requests left behind by such transactions
    MaxFaults        \* bound on lost replies and on handlers cut short

Active == {"active", "inactive"}

Answers == {"ok", "refused", "error"}

ASSUME DirectoryAssumption ==
    /\ None \notin Ids \cup Emails \cup Passwords \cup Attrs \cup Active \cup Calls
    /\ Operations \subseteq
         {"create", "update", "remove", "activate", "changePassword"}
    /\ NewEmails \subseteq Emails
    /\ CreateRefusals \subseteq Answers \ {"ok"}
    /\ CreateRefusals # {}
    /\ Timeouts \in BOOLEAN
    /\ MaxLate \in Nat
    /\ MaxFaults \in Nat

VARIABLES
    users,   \* the committed rows of the table, by id
    locks,   \* the handler whose transaction holds the lock of a row
    calls,   \* program counter and locals of the handlers
    ldap,    \* the directory: its entries, by email
    wire,    \* the requests on their way to the microservice
    stale,   \* history: the users for whom a request carried a stale row
    faults   \* the replies lost and the handlers cut short so far

vars == <<users, locks, calls, ldap, wire, stale, faults>>

Row == [email : Emails, active : Active, password : Passwords, attr : Attrs]
Entry == [active : Active, password : Passwords, attr : Attrs]

\* What a request asks to change: None leaves the field as it is.
Patch == [active : Active \cup {None}, password : Passwords \cup {None},
          attr : Attrs \cup {None}]

NoPatch == [active |-> None, password |-> None, attr |-> None]

Ops == {"none", "create", "update", "remove", "activate", "changePassword"}
Points == {"idle", "insert", "post", "write", "wait", "erase"} \cup Answers

(***************************************************************************)
(* email is the address the handler uses in the LDAP url, newEmail the one *)
(* an update sets; old is the row as first read, row the one written but   *)
(* not committed.                                                          *)
(***************************************************************************)
Call == [op : Ops, pc : Points, id : Ids \cup {None},
         email : Emails \cup {None}, newEmail : Emails \cup {None},
         patch : Patch, old : Row \cup {None}, row : Row \cup {None}]

Idle == [op |-> "none", pc |-> "idle", id |-> None, email |-> None,
         newEmail |-> None, patch |-> NoPatch, old |-> None, row |-> None]

\* A request: who waits for its answer (None once the transaction is over),
\* and the entry to create or the patch to apply.
Request == [call : Calls \cup {None}, email : Emails, creates : BOOLEAN,
            patch : Patch]

Init ==
    /\ users = <<>>
    /\ locks = [i \in Ids |-> None]
    /\ calls = [c \in Calls |-> Idle]
    /\ ldap = <<>>
    /\ wire = {}
    /\ stale = {}
    /\ faults = 0

-----------------------------------------------------------------------------

Put(table, key, row) ==
    [k \in DOMAIN table \cup {key} |-> IF k = key THEN row ELSE table[k]]

Remove(table, key) == [k \in DOMAIN table \ {key} |-> table[k]]

Or(new, old) == IF new = None THEN old ELSE new

Patched(row, patch) ==
    [row EXCEPT !.active = Or(patch.active, @),
                !.password = Or(patch.password, @),
                !.attr = Or(patch.attr, @)]

EntryOf(row) ==
    [active |-> row.active, password |-> row.password, attr |-> row.attr]

At(c, point) == calls[c].pc = point

Return(c) == calls' = [calls EXCEPT ![c] = Idle]

EmailTaken(email, own) ==
    \E i \in DOMAIN users \ {own} : users[i].email = email

\* Another open transaction moves a user to the address or away from it: the
\* unique index makes this one wait for its end.
EmailMoving(email, own) ==
    \E k \in Calls \ {own} :
        /\ calls[k].row # None /\ calls[k].newEmail # None
        /\ email \in {calls[k].row.email, users[calls[k].id].email}

Goto(c, point) == calls' = [calls EXCEPT ![c] = [@ EXCEPT !.pc = point]]

-----------------------------------------------------------------------------
(* POST /users: create. *)

\* userExists answers no.
BeginCreate(c) ==
    /\ "create" \in Operations
    /\ At(c, "idle")
    /\ \E i \in Ids \ DOMAIN users, row \in Row :
         /\ \A k \in Calls : calls[k].id # i
         /\ ~EmailTaken(row.email, None)
         /\ calls' = [calls EXCEPT ![c] = [Idle EXCEPT
                        !.op = "create", !.pc = "insert", !.id = i,
                        !.email = row.email, !.old = row]]
    /\ UNCHANGED <<users, locks, ldap, wire, stale, faults>>

\* The unique index on email turns down the second of two inserts.
InsertUser(c) ==
    /\ At(c, "insert")
    /\ ~EmailMoving(calls[c].email, c)
    /\ IF EmailTaken(calls[c].email, None)
       THEN Return(c) /\ UNCHANGED users
       ELSE /\ users' = Put(users, calls[c].id, calls[c].old)
            /\ Goto(c, "post")
    /\ UNCHANGED <<locks, ldap, wire, stale, faults>>

\* The payload is built from the row as read back, and has the password the
\* client sent.
PostUser(c) ==
    /\ At(c, "post")
    /\ LET row == users[calls[c].id]
       IN  wire' = wire \cup
             {[call |-> c, email |-> row.email, creates |-> TRUE,
               patch |-> [EntryOf(row) EXCEPT !.password = calls[c].old.password]]}
    /\ Goto(c, "wait")
    /\ UNCHANGED <<users, locks, ldap, stale, faults>>

\* Mutant: the user is kept when the request throws.
EndCreateAnyway(c) ==
    /\ calls[c].op = "create" /\ calls[c].pc \in Answers
    /\ Return(c)
    /\ UNCHANGED <<users, locks, ldap, wire, stale, faults>>

\* Mutant: create gives up before the answer.
EndCreateImpatient(c) ==
    /\ calls[c].op = "create" /\ calls[c].pc \in Answers \cup {"wait"}
    /\ IF At(c, "ok")
       THEN Return(c)
       ELSE Goto(c, "erase")
    /\ UNCHANGED <<users, locks, ldap, wire, stale, faults>>

\* Only an exception undoes the insert: the success flag is not looked at.
EndCreate(c) ==
    /\ calls[c].op = "create" /\ calls[c].pc \in Answers
    /\ IF At(c, "error")
       THEN Goto(c, "erase")
       ELSE Return(c)
    /\ UNCHANGED <<users, locks, ldap, wire, stale, faults>>

EraseUser(c) ==
    /\ At(c, "erase")
    /\ locks[calls[c].id] = None
    /\ users' = Remove(users, calls[c].id)
    /\ Return(c)
    /\ UNCHANGED <<locks, ldap, wire, stale, faults>>

-----------------------------------------------------------------------------
(* PATCH /users/:id, DELETE /users/:id/delete, PATCH /users/:id/activate   *)
(* and PUT /users/change-password: read the user, then change it.          *)

Begin(c, op, i, patch, newEmail) ==
    /\ op \in Operations
    /\ At(c, "idle")
    /\ Cardinality({m \in wire : m.call = None}) <= MaxLate
    /\ calls' = [calls EXCEPT ![c] = [Idle EXCEPT
                   !.op = op, !.pc = "write", !.id = i,
                   !.email = users[i].email, !.newEmail = newEmail,
                   !.patch = patch, !.old = users[i]]]
    /\ UNCHANGED <<users, locks, ldap, wire, stale, faults>>

BeginUpdate(c) ==
    \E i \in DOMAIN users, patch \in Patch, e \in NewEmails \cup {None} :
        Begin(c, "update", i, patch, e)

BeginRemove(c) ==
    \E i \in DOMAIN users :
        Begin(c, "remove", i, [NoPatch EXCEPT !.active = "inactive"], None)

BeginActivate(c) ==
    \E i \in DOMAIN users :
        Begin(c, "activate", i, [NoPatch EXCEPT !.active = "active"], None)

\* The current password has been verified against the row just read.
BeginChangePassword(c) ==
    \E i \in DOMAIN users, p \in Passwords :
        Begin(c, "changePassword", i, [NoPatch EXCEPT !.password = p], None)

\* changePasswordByEmail finds the row by its email.
Found(c) ==
    /\ calls[c].id \in DOMAIN users
    /\ calls[c].op = "changePassword" =>
         users[calls[c].id].email = calls[c].email

\* remove and activate send nothing but the flag.  The payload of an update is
\* built from the row just written, that of a password change from the row
\* read before the transaction.
LdapPatch(op, patch, old, row) ==
    CASE op = "update" ->
           [active |-> row.active, password |-> patch.password, attr |-> row.attr]
      [] op = "changePassword" ->
           [active |-> old.active, password |-> patch.password, attr |-> old.attr]
      [] OTHER -> patch

\* The UPDATE waits for the lock of the row and changes the row it then finds;
\* the request to the microservice follows in the same transaction.
WriteUser(c) ==
    LET call == calls[c]
        i == call.id
        row == [Patched(users[i], call.patch) EXCEPT
                  !.email = Or(call.newEmail, @)]
    IN  /\ At(c, "write")
        /\ call.newEmail # None => ~EmailMoving(call.newEmail, c)
        /\ IF ~Found(c) \/ (call.newEmail # None /\ EmailTaken(call.newEmail, i))
           THEN Return(c) /\ UNCHANGED <<locks, wire, stale>>
           ELSE /\ locks[i] = None
                /\ locks' = [locks EXCEPT ![i] = c]
                /\ wire' = wire \cup
                     {[call |-> c, email |-> call.email, creates |-> FALSE,
                       patch |-> LdapPatch(call.op, call.patch, call.old, row)]}
                /\ stale' = IF call.op = "changePassword" /\ call.old # users[i]
                            THEN stale \cup {i} ELSE stale
                /\ calls' = [calls EXCEPT ![c] = [@ EXCEPT !.pc = "wait", !.row = row]]
        /\ UNCHANGED <<users, ldap, faults>>

Changing(c) == calls[c].op \notin {"none", "create"}

\* The transaction ends: the lock goes, the row is written or it is not.
EndTransaction(c, commit) ==
    /\ users' = IF commit THEN [users EXCEPT ![calls[c].id] = calls[c].row]
                          ELSE users
    /\ locks' = [locks EXCEPT ![calls[c].id] = IF @ = c THEN None ELSE @]
    /\ Return(c)
    /\ UNCHANGED <<ldap, stale>>

Commit(c) ==
    /\ Changing(c) /\ At(c, "ok")
    /\ EndTransaction(c, TRUE)
    /\ UNCHANGED <<wire, stale, faults>>

\* Mutant: a refusal that does not throw is taken for a success.
RollbackErrorsOnly(c) ==
    /\ Changing(c) /\ calls[c].pc \in {"refused", "error"}
    /\ EndTransaction(c, At(c, "refused"))
    /\ UNCHANGED <<wire, stale, faults>>

Rollback(c) ==
    /\ Changing(c) /\ calls[c].pc \in {"refused", "error"}
    /\ EndTransaction(c, FALSE)
    /\ UNCHANGED <<wire, stale, faults>>

\* The handler ends without its transaction; a request is not withdrawn.
GiveUp(c) ==
    /\ EndTransaction(c, FALSE)
    /\ wire' = {IF m.call = c THEN [m EXCEPT !.call = None] ELSE m : m \in wire}

\* Mutant: the handler gives up and its transaction stays open.
LeaveOpen(c) ==
    /\ wire' = {IF m.call = c THEN [m EXCEPT !.call = None] ELSE m : m \in wire}
    /\ Timeouts /\ Changing(c) /\ At(c, "wait")
    /\ Return(c)
    /\ UNCHANGED <<users, locks, ldap, stale, faults>>

\* The transaction outlasts its time limit: waiting for the lock or for the
\* microservice, or just before its commit.
TimeOut(c) ==
    /\ Timeouts
    /\ Changing(c) /\ calls[c].pc \in {"write", "wait", "ok"}
    /\ GiveUp(c)
    /\ UNCHANGED faults

\* The next statement fails, or the process dies: the database rolls an open
\* transaction back, but create has none.
Abort(c) ==
    /\ ~At(c, "idle")
    /\ faults < MaxFaults
    /\ faults' = faults + 1
    /\ GiveUp(c)

-----------------------------------------------------------------------------
(* The LDAP microservice, known from the requests sent to it: it does what *)
(* is asked, or turns it down and changes nothing.                         *)

Applicable(m) == m.creates <=> m.email \notin DOMAIN ldap

Applied(m) ==
    Put(ldap, m.email,
        IF m.creates THEN EntryOf(m.patch) ELSE Patched(ldap[m.email], m.patch))

Answer(m, answer) ==
    /\ wire' = wire \ {m}
    /\ calls' = IF m.call = None THEN calls
                ELSE [calls EXCEPT ![m.call] = [@ EXCEPT !.pc = answer]]
    /\ UNCHANGED <<users, locks, stale>>

LdapApply(m) ==
    /\ Applicable(m)
    /\ ldap' = Applied(m)
    /\ Answer(m, "ok")
    /\ UNCHANGED faults

LdapRefuse(m) ==
    /\ \E answer \in IF m.creates THEN CreateRefusals ELSE {"refused", "error"} :
         Answer(m, answer)
    /\ UNCHANGED <<ldap, stale, faults>>

\* The change is made and the connection breaks before the reply.
LdapLoseReply(m) ==
    /\ faults < MaxFaults
    /\ Applicable(m)
    /\ ldap' = Applied(m)
    /\ Answer(m, "error")
    /\ faults' = faults + 1

-----------------------------------------------------------------------------

Step(c) ==
    \/ InsertUser(c) \/ PostUser(c) \/ EndCreate(c) \/ EraseUser(c)
    \/ WriteUser(c) \/ Commit(c) \/ Rollback(c)

Next ==
    \/ \E c \in Calls :
         \/ BeginCreate(c) \/ BeginUpdate(c) \/ BeginRemove(c)
         \/ BeginActivate(c) \/ BeginChangePassword(c)
         \/ Step(c) \/ TimeOut(c) \/ Abort(c)
    \/ \E m \in wire : LdapApply(m) \/ LdapRefuse(m) \/ LdapLoseReply(m)

Spec == Init /\ [][Next]_vars

\* The database answers and Prisma's timer fires; nothing is assumed of the
\* microservice.
FairSpec ==
    Spec /\ \A c \in Calls : WF_vars(Commit(c) \/ Rollback(c) \/ TimeOut(c))

-----------------------------------------------------------------------------
(* Properties. *)

\* The type invariant.
TypeOK ==
    /\ DOMAIN users \subseteq Ids
    /\ \A i \in DOMAIN users : users[i] \in Row
    /\ locks \in [Ids -> Calls \cup {None}]
    /\ calls \in [Calls -> Call]
    /\ DOMAIN ldap \subseteq Emails
    /\ \A e \in DOMAIN ldap : ldap[e] \in Entry
    /\ wire \subseteq Request
    /\ stale \subseteq Ids
    /\ faults \in 0..MaxFaults

\* No create is under way on the row, and no transaction holds it.
Settled(i) ==
    /\ locks[i] = None
    /\ \A c \in Calls : calls[c].op = "create" => calls[c].id # i

\* As long as nothing is lost on the way, a user nobody is changing has the
\* same fields in the table and in the directory: refused and failed requests
\* leave both as they were, and the row lock orders the changes of the two
\* sides alike (lines 392-434, 496-517, 532-548, 557-573).  Only a password
\* change that has sent an old copy of the row breaks it.
DirectoryMatches ==
    \A i \in DOMAIN users : Settled(i) =>
        /\ users[i].email \in DOMAIN ldap
        /\ ldap[users[i].email].password = users[i].password
        /\ i \notin stale => ldap[users[i].email] = EntryOf(users[i])

\* A directory entry has a user, or a create that is about to give it one: a
\* create that is turned down leaves nothing behind (lines 350-357).
NoStrayEntry ==
    \A e \in DOMAIN ldap : EmailTaken(e, None)

\* Whatever replies are lost, transactions time out and other handlers are cut
\* short, a create that ends by itself and leaves its user in the table leaves
\* an entry in the directory: one that throws takes its row back (lines
\* 350-357).
CreatedUserHasEntry ==
    [][\A c \in Calls :
         /\ calls[c].op = "create" /\ calls'[c] = Idle /\ faults' = faults
         /\ calls[c].id \in DOMAIN users'
         => calls[c].email \in DOMAIN ldap']_vars

\* The lock of a row is always released, even if the microservice never
\* answers: no user is stuck behind a hung request (transaction of line 392).
LocksAreReleased ==
    \A i \in Ids, c \in Calls : locks[i] = c ~> locks[i] # c

-----------------------------------------------------------------------------
(* The inductive invariant behind DirectoryMatches and NoStrayEntry, when   *)
(* nothing gets lost.                                                      *)

\* No handler is cut short, every reply arrives, addresses do not change, and
\* the microservice turns a create-user down with an error.
Reliable ==
    /\ MaxFaults = 0
    /\ Timeouts = FALSE
    /\ NewEmails = {}
    /\ CreateRefusals = {"error"}

\* The entry has the password of the row and, if whole, all the rest.
Same(entry, row, whole) ==
    /\ entry.password = row.password
    /\ whole => entry = EntryOf(row)

\* The create of c has its row in the table and no entry in the directory.
NotYet(c) ==
    calls[c].op = "create" /\ calls[c].pc \in {"post", "wait", "error", "erase"}

\* The transaction of c is open and has written its row.
Holding(c) == Changing(c) /\ calls[c].pc \in {"wait"} \cup Answers

ControlOK(c) ==
    /\ calls[c].op = "none" <=> calls[c].pc = "idle"
    /\ calls[c].op = "create" =>
         calls[c].pc \in {"insert", "post", "wait", "ok", "error", "erase"}
    /\ Changing(c) => calls[c].pc \in {"write", "wait"} \cup Answers
    /\ calls[c].op # "none" => calls[c].id \in Ids /\ calls[c].old \in Row

\* The id of a user being created is nobody else's until the row is inserted.
CreateOK(c) ==
    calls[c].op = "create" =>
      /\ calls[c].email = calls[c].old.email
      /\ \A k \in Calls \ {c} : calls[k].op = "create" => calls[k].id # calls[c].id
      /\ At(c, "insert") => /\ calls[c].id \notin DOMAIN users
                            /\ \A k \in Calls \ {c} : calls[k].id # calls[c].id
      /\ NotYet(c) => /\ calls[c].id \in DOMAIN users
                      /\ users[calls[c].id] = calls[c].old
                      /\ calls[c].email \notin DOMAIN ldap

ChangeOK(c) ==
    Changing(c) =>
      /\ calls[c].newEmail = None
      /\ calls[c].op = "changePassword" =>
           calls[c].patch.active = None /\ calls[c].patch.attr = None
      /\ calls[c].id \in DOMAIN users => calls[c].email = users[calls[c].id].email
      /\ Holding(c) =>
           /\ calls[c].id \in DOMAIN users
           /\ locks[calls[c].id] = c
           /\ calls[c].row \in Row /\ calls[c].row.email = calls[c].email
           /\ At(c, "ok") => /\ calls[c].email \in DOMAIN ldap
                             /\ Same(ldap[calls[c].email], calls[c].row,
                                     calls[c].id \notin stale)

LocksOK ==
    \A i \in Ids : locks[i] # None =>
        Holding(locks[i]) /\ calls[locks[i]].id = i

\* The patch makes of any entry that is the same as the committed row one that
\* is the same as the row the transaction has written.
PatchOK(c, patch) ==
    LET whole == calls[c].id \notin stale
    IN  \A entry \in Entry :
          Same(entry, users[calls[c].id], whole)
          => Same(Patched(entry, patch), calls[c].row, whole)

\* A request is the only one of a handler that waits for it.
RequestOK(m) ==
    /\ m.call \in Calls
    /\ At(m.call, "wait")
    /\ m.email = calls[m.call].email
    /\ \A n \in wire : n.call = m.call => n = m
    /\ m.creates <=> calls[m.call].op = "create"
    /\ IF m.creates THEN m.patch = EntryOf(calls[m.call].old)
                    ELSE PatchOK(m.call, m.patch)

EmailsUnique ==
    \A i, j \in DOMAIN users : users[i].email = users[j].email => i = j

\* The two sides hold the same user, unless the user is not there yet or the
\* transaction that holds its row is about to commit.
UserOK(i) ==
    \/ \E c \in Calls : NotYet(c) /\ calls[c].id = i
    \/ locks[i] # None /\ At(locks[i], "ok")
    \/ /\ users[i].email \in DOMAIN ldap
       /\ Same(ldap[users[i].email], users[i], i \notin stale)

\* The type invariant and what ties tables, directory, handlers and requests
\* together: proved in UserDirectoryProofs.
DirectoryInv ==
    /\ TypeOK
    /\ \A c \in Calls : ControlOK(c) /\ CreateOK(c) /\ ChangeOK(c)
    /\ LocksOK
    /\ \A m \in wire : RequestOK(m)
    /\ EmailsUnique
    /\ \A i \in DOMAIN users : UserOK(i)
    /\ NoStrayEntry

-----------------------------------------------------------------------------
(* The inductive invariant behind CreatedUserHasEntry: nothing is assumed   *)
(* reliable here, and a create that loses its reply may find its user       *)
(* changed and its address given away.  It rests on entries never leaving   *)
(* the directory.                                                          *)

Creating(c) == calls[c].op = "create"

PointsOK(c) ==
    /\ calls[c].op = "none" <=> At(c, "idle")
    /\ Creating(c) =>
         calls[c].pc \in
           {"insert", "post", "wait", "ok", "error", "erase"} \cup CreateRefusals
    /\ Changing(c) => calls[c].pc \in {"write", "wait"} \cup Answers
    /\ calls[c].op # "none" =>
         calls[c].id \in Ids /\ calls[c].old \in Row /\ calls[c].email \in Emails
    /\ Holding(c) => calls[c].row \in Row
    /\ Changing(c) /\ At(c, "ok") => calls[c].email \in DOMAIN ldap

\* The id belongs to the create alone until its row is there.  Who changes the
\* user then asks for the address it was created with, or that has an entry.
CreationOK(c) ==
    LET i == calls[c].id
        e == calls[c].email
    IN  Creating(c) =>
          /\ e = calls[c].old.email
          /\ At(c, "insert") <=> i \notin DOMAIN users
          /\ \A k \in Calls \ {c} : calls[k].op # "none" /\ calls[k].id = i =>
               /\ Changing(k) /\ ~At(c, "insert")
               /\ calls[k].email = e \/ e \in DOMAIN ldap
          /\ ~At(c, "insert") => users[i].email = e \/ e \in DOMAIN ldap
          /\ At(c, "ok") => e \in DOMAIN ldap

\* A request someone waits for is the only one of that handler, and asks for
\* its address; a create-user may also ask for the address its user has by
\* then, if the first one has an entry.
SentOK(m) ==
    /\ m.creates => m.patch \in Entry
    /\ m.call # None =>
         /\ At(m.call, "wait")
         /\ \A n \in wire : n.call = m.call => n = m
         /\ m.creates <=> Creating(m.call)
         /\ \/ m.email = calls[m.call].email
            \/ m.creates /\ calls[m.call].email \in DOMAIN ldap

CreationInv ==
    /\ TypeOK
    /\ \A c \in Calls : PointsOK(c) /\ CreationOK(c)
    /\ \A m \in wire : SentOK(m)

=============================================================================
