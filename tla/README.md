# A TLA+ model of the HR backend

The repository is a NestJS service over Prisma and PostgreSQL that keeps an
organisation's people: accounts (mirrored in an LDAP directory), roles, groups,
leave, shifts and salaries. Its tests are the generated "Hello World" ones, and
nearly every rule it enforces is a check-then-write over `await`s without a
transaction. This directory models the parts whose rules depend on how those
awaits interleave and fail, model-checks them with TLC on small instances, and
proves the main invariants with TLAPS for every instance.

Line numbers below are those of `src/src/modules/...`.

## 1. Inventory

| Component | State | Operations that change it | Talks to | What makes it correct |
|---|---|---|---|---|
| **vacations** | `vacation_request`, `vacation_balance`, `vacation_action_log` | generate, update, approve / reject (with `settleBalancePerYear` for each year), delete; a listing creates missing balance rows | database only | a request is decided once and then fixed; requests of a user do not overlap; balances hold exactly the approved days; a debt only once the allowance is used up; every decision logged |
| **users, LDAP sync** | `users`, `user_area` and the LDAP entries | create, update, remove (soft), activate, change password, role assignment | LDAP microservice over HTTP, from inside database transactions | table and directory agree; a failure on one side undoes the other; nobody is stuck behind a hung request |
| **roles** | `role`, `area_role`, `role_permission`, `user_role`, `user_role_local` | create, update, remove, add/remove/replace permissions, assign/remove/replace users | LDAP microservice | role sets survive concurrent replace-all updates; LDAP groups follow |
| **organizational groups** | a tree of groups, memberships | create, update (reparent), remove, add/remove member | LDAP microservice (chain of a group) | the parent relation is a tree, levels grow downwards, the chain computation ends |
| **shift assignment, roster** | `shift_assignment`, hours, events; rosters with users and shift types | assign (single, batch), update, reassign as extra, delete; roster create/update/remove | holidays | at most one shift per user and day; hours and events for each shift; flags agree with the date |
| **salary history** | intervals of validity per user | create (closes the previous record) | - | one salary in force per day, an ended one followed by another |
| **holidays** | `holiday` | import on the first read of a year, explicit sync, CRUD | external calendar | a year is imported once and whole |
| **permissions of a request** | none (derived) | `reducePermissions`, guards | users | the reduction picks the strongest permission of each module and group |
| **authentication** | none (JWT) | login, verify | users | - |
| **user technical level** | one level per user | delete-then-create, remove | - | a user has the level set last and no other |
| **seed** | listed areas, permissions, roles, departments, positions, levels; administrator | upserts, run at deployment and again after a failure | database only | a run completes what is there |
| **reference data** | areas, departments, positions, permissions, levels, shift types | single-statement CRUD | - | the constraints of the database |

How the parts interact: handlers share nothing but the database and the LDAP
directory. There is no queue, no cache, no in-process lock. Concurrency is that
of HTTP requests in flight in one Node process or in several: every `await` is a
point where another handler may run. Failures are a statement or an HTTP call
that throws, a reply that is lost, Prisma's time limit on an interactive
transaction (five seconds unless set, and nothing sets it), and the death of the
process. Nothing is retried and nothing is reconciled at start-up.

`PROJECT.json` lists every component with its status, and every place where the
code is exposed to such an order or failure, with its line and the properties
that watch it.

## 2. Modules

| Module | What it is |
|---|---|
| `Vacations` | the vacation service, one action per awaited statement |
| `LeaveLedger` | what the service promises: leave as one-step operations and a ledger of days spent |
| `VacationsLedger` | the books of the balances, `Vacations` as an implementation of `LeaveLedger`, and what a handler that runs alone may rely on |
| `MCVacations` | constants for TLC |
| `VacationsProofs` | the inductive invariants of `Vacations`, for any handlers and for handlers one at a time, and the step-by-step proof that it implements `LeaveLedger` |
| `UserDirectory` | the user handlers that change both the table and LDAP |
| `MCUserDirectory` | constants for TLC |
| `UserDirectoryProofs` | the inductive invariants of `UserDirectory`, when nothing gets lost and when anything may |
| `ShiftAssignments` | the handlers that place, move and delete shifts |
| `MCShiftAssignments` | constants for TLC |
| `ShiftAssignmentsProofs` | the inductive invariant of `ShiftAssignments`, proved |
| `OrganizationalGroups` | the tree of groups and its members |
| `MCOrganizationalGroups` | constants for TLC |
| `OrganizationalGroupsProofs` | the inductive invariant of `OrganizationalGroups`, proved |
| `RoleMembership` | roles, their areas and the users who have them, in both services that change them |
| `MCRoleMembership` | constants for TLC |
| `RoleMembershipProofs` | the inductive invariant of `RoleMembership`, proved |
| `SalaryHistory`, `Holidays`, `ShiftRosters`, `UserTechnicalLevels`, `RequestPermissions`, `Seed` | the smaller services |
| `MCRecords` | these six side by side, with their constants |
| `SalaryHistoryProofs`, `HolidaysProofs`, `RecordsProofs` | the inductive invariants of the six, proved |

### Vacations

State: the three tables (`requests`, `balances`, `logs`) as functions of row ids,
and `calls`, the program counter and locals of each handler in flight. `issued` and `charged`
are history variables (ids ever inserted; days settlements have charged to a
row), `faults` counts the handlers cut short.

| Code | Actions |
|---|---|
| `generateVacationRequest` 108-170 | `BeginGenerate`, then per year `GenerateCheckPending`, `GenerateCheckOverlap`; `FindBalance` / `CreateBalance`; `InsertRequest` |
| `updateVacationRequest` 173-261 | `BeginUpdate`, per year `UpdateCheckPending`, `UpdateCheckOverlap`; `WriteRequest` |
| `handleVacationRequestApproval`, `approveVacationRequest` 264-454 | `BeginProcess`, `FindBalance` / `CreateBalance`, per year `SettleFind` / `SettleCreate`, `Charge`; `SetApproved`, `LogApproved` |
| `rejectVacationRequest` 456-488 | `BeginProcess`, `SetRejected`, `LogRejected`, `FindBalance` / `CreateBalance` |
| `deleteVacationRequest` 284-292 | `BeginDelete`, `EraseRequest` (the foreign key of the log is RESTRICT) |
| `getVacationRequests` 43-104 | `BeginView`, `FindBalance` / `CreateBalance` |
| a statement that throws, a crash | `Abort`: the rest of the handler never runs, what it wrote stays |

Each action is one statement of the database, which is atomic; code between two
awaits belongs to the action before it. The service has no transaction, so
nothing is undone. Dates are day numbers with `YearOf` giving the calendar year;
`splitYears` is what `splitDaysByYear` computes from the inclusive range, empty when
the dates are inverted. `getUserVacationBalance` takes any row of the year, since
`findFirst` without an order may return any. Texts and comments are left out.

`VacationsLedger` adds the books of a user's year, days held by balances and days
of approved requests, and the figures clients are told: `getProjectedBalance`
(`vacation-balance-calculator.service.ts` 8-40) and `daysExceeded` (341-361), which
are compared with what an approval does. They change no state. A sum of days is
the cardinality of a disjoint union of sets of days (`Tally`) and no recursive
definition, so that it can be proved about. Its last part is what the only handler
in flight may rely on (`Serial`, `SerialInv`, `PaidInv`).

### UserDirectory

State: the committed rows (`users`), the row locks PostgreSQL holds for open
transactions (`locks`), the handlers (`calls`, with the row each open
transaction has written), the directory (`ldap`, keyed by email) and the HTTP
requests under way (`wire`). A request leaves the wire when the microservice
applies it or turns it down; when the transaction that sent it has timed out, it
stays there and may still be applied. `stale` is a history variable: the users
for whom a password change has sent a copy of the row that was no longer the
current one.

| Code | Actions |
|---|---|
| `create` 313-360 | `BeginCreate`, `InsertUser`, `PostUser`, `EndCreate`, `EraseUser` |
| `update` 380-440, `remove` 527-551, `activate` 553-575, `changePasswordByEmail` 473-520 | `BeginUpdate`, `BeginRemove`, `BeginActivate`, `BeginChangePassword` (the reads), `WriteUser` (the UPDATE, which takes the row lock, and the request after it), `Commit`, `Rollback` |
| Prisma's time limit | `TimeOut` |
| a statement that throws, a crash | `Abort`: an open transaction is rolled back, a create leaves what it wrote |
| the LDAP microservice (external) | `LdapApply`, `LdapRefuse`, `LdapLoseReply` |

The columns are abstracted to the email, the active flag, the password and one
attribute that stands for the fields `buildLdapUpdatePayload` copies; a hash and
the plain password it was made from are one value. `WriteUser` takes the UPDATE
and the sending of the request as one step: the request is sent while the lock
is held, so no other handler can get in between on the same row. The
microservice is not in the repository: what it does is inferred from the
requests (create refuses an existing address, the others an unknown one), and it
may turn any request down.

### ShiftAssignments

State: the rows of `shift_assignment` (`shifts`), the worked column of
`shift_hours` (`hours`), the events of each shift in the order of their
insertion (`events`), and the handlers (`calls`). `checked` is a history
variable: the shifts that were last placed by a handler that found the day free
with no commit of another since; `fresh` in the locals of a handler keeps track
of that.

| Code (`shift-assignment.service.ts`) | Actions |
|---|---|
| `assignBatch` 22-101 | `AssignBatch` |
| `assignSingle` 103-152 | `BeginSingle` (all reads, the look for another shift of the day last), `InsertSingle` |
| `updateAssignment` 154-247 | `BeginUpdate`, `CheckDay` (if the request names a user or a date), `WriteShift` |
| `reassignShiftAsExtra` 249-286 | `BeginReassign`, `Reassign` |
| `deleteAssignment` 316-337 | `BeginDelete`, `DeleteShift`, `AnswerDelete` |
| a transaction whose callback throws | `Fail` |

A transaction is one step: the first thing it does is to insert its rows or to
update, and so lock, its one shift, nothing it does depends on another table
these handlers write, and nobody sees any of it before the commit. `assignBatch`
reads nothing that other handlers write, so that all of it is one step.
A handler that refuses its request before it has done anything is no step. The
shift types and their schedules are constants; `findFirst` without an order, and
the map `assignBatch` builds, may take any schedule of a type. The hours are
computed in floating point and stored in integer columns: whole ones are stored,
anything else (`Fraction`) makes Prisma throw and the transaction fail. Only
quarters of an hour are exact, so a schedule of whole hours may yield a fraction
as well, which is the choice in `Hours`. Areas, rosters, observations and the flags
of holidays and weekends are left out: no handler reads them back.

### OrganizationalGroups

State: the tables `groups` and `members`, and the handlers (`calls`). History
variables: `accepted`, the memberships LDAP has ever accepted; `placed`, the
groups whose level was last compared with their parent's while nobody else
changed a group; `used`, the ids ever given. `fresh` in the locals says whether
any group has been written since the handler read.

| Code (`organizational-groups.service.ts`) | Actions |
|---|---|
| `create` 37-47, `validateCreateInput` 518-631 | `BeginCreate` (all reads), `InsertGroup` |
| `update` 90-154, `validateUpdateInput` 633-840 | `BeginUpdate` (all reads), `WriteGroup`, `CountMembers`, `WalkChain`, `SendUpdate` |
| `remove` 156-202 | `BeginRemove` (the look for children), `EraseGroup` with the cascade of the database |
| `addMembers` 295-322 | `BeginAdd`, `UpsertMembers`, `ReadPayload`, `WalkChain`, `SendMembers` |
| `removeMember` 324-366 | `BeginDrop`, `DeleteMember`, `SendDrop` |
| Prisma's time limit | `TimeOut` |

The reads of one validation are one step; the hazard is between them and the
write. A group has a parent, a container, an area, a level, a name and a type,
since the validation relates all of them. `buildHierarchyChain` (962-989) is one
step per group it reads. The two operations on members hold their rows in an open
transaction while LDAP is asked; a delete of a group waits for these rows. The
readers (trees, org chart) change nothing and are left out.

### RoleMembership

State: `roles`, `offers` (`area_role`), `members` (`user_role` and
`user_role_local`, told apart by whether the item has an area), the directory
`ldap`, and the handlers with what their open transactions have inserted
(`added`), deleted (`gone`), written over the role (`row`) and replaced (`cut`,
`put`). A statement sees committed rows and its own (`Seen`), as under READ
COMMITTED, and waits for the rows of others (`Blockers`). History: `asked`, the areas
last granted; `astray`, the roles LDAP was told something untrue of.

| Code | Actions |
|---|---|
| `roles.service.ts` `create` 68-108 | `CreateRole` |
| `update` 177-220 | `BeginUpdate`, `WriteRole`, `ReplaceAreas`, `ReadName`, `SendRename`, `CommitUpdate` |
| `remove` 272-305 | `BeginRemove`, `PurgeRole`, `SendDelete`, `EraseRole` |
| `assignUsersToRole` 144-168 | `BeginAssign`, `Look`, `Insert`, `Done`, `SendAssign` |
| `removeUserFromRole` 325-377 | `BeginUnassign`, `DeleteRows`, `SendUnassign` |
| `users.service.ts` `assignRolesToUser` 363-372 | `BeginGrant`, `Filter`, `Look`, `Insert`, `Done` (no transaction) |
| `updateUserRoles` 443-461 | `BeginReplace`, `PurgeUser`, `Filter`, `Look`, `Insert`, `Done`, `CommitReplace` |
| `removeRoleFromUser` 579-597 | `DropRole` |
| Prisma's time limit; PostgreSQL | `TimeOut`; `BreakDeadlock` |

Whether users and areas exist is left out, and so are the permissions of a role:
they are single upserts and deletes, and `updateRolePermissions` is shadowed by
a route registered before it (`roles.controller.ts` 56 and 85).

### The records

Six services that share nothing with each other; `MCRecords` runs one of them per
behaviour, which its variable `focus` chooses at the start.

| Module | State | Code and actions |
|---|---|---|
| `SalaryHistory` | `salaries` (intervals per user), the calls of `createSalary` | `salary.service.ts` 12-54, 166-177: `BeginSalary` (reads the record in the way), `ClipInterrupted`, `FindOpenSalary`, `CloseOpenSalary`, `InsertSalary`; a fault: `CutSalary`. `getSalaryAtDate` 119-130 and `getSalariesInPeriod` 133-146 are operators |
| `Holidays` | `holidays`, the imports and updates in flight | `holiday.service.ts` 16-58, 192-204: `BeginImport`, `InsertImported`; create, update, remove: `CreateHoliday`, `BeginUpdateHoliday`, `WriteHoliday`, `RemoveHoliday`; faults: `FailInsert`, `CutHolidayCall`. The conversion of dates (`external-holiday-sync.service.ts` 40-78), `isHoliday` and the days of the webhook are arithmetic on hours |
| `ShiftRosters` | `rosters`, `rosterRows` (users and types of a roster) | `shift-roster.service.ts`: `CreateRoster` 13-38, `BeginRosterUpdate`, `DeleteList`, `WriteRoster` 41-77, `RemoveRoster` 99-102; a fault: `CutRosterUpdate` |
| `UserTechnicalLevels` | `levels` | `user-technical-level.service.ts` 10-45: `DeleteLevels`, `InsertLevel`, `RemoveLevel`; a fault: `CutLevelCall` |
| `RequestPermissions` | one request on its way | `profile.guard.ts`: `ReadProfile`; `permission.util.ts` 10-41: `TakeFullAccess`, `ScanPermission`, `EndScan`; `permissions.guard.ts`: `Guard`; `users.controller.ts` 28-40 with `read.strategy.ts`: `AnswerRead` |
| `Seed` | `tables`, `links`, where the run is | `seed.ts` 122-253: `StartSeed`, `UpsertListed`, `FindDevs`, `GrantFullAccess`, `FindFirst`, `UpsertAdmin`, `AssignDevs`; a fault: `CutSeed`; clients meanwhile: `EditRow`, `RemoveRow` |

Instants are integers, a day being `Day` of them (salaries) or 24 hours
(holidays); months and leap years make no difference to the code. Amounts, names
and observations are left out. The permissions a user has are any list of codes,
with repetitions, as the roles yield them.

## 3. What the runs check

| Run | Instance | Checks |
|---|---|---|
| `races` | one user, 2 requests, 2 handlers, 4 balance rows | `DebtOnlyWhenExhausted`, `NoInventedDays`, `LoggedIsDecided` hold under every interleaving |
| `progress` | one request, 2 handlers, `FairSpec` | `DecisionIsLogged`, `ApprovalDecides` |
| `cut_short` | one handler at a time, two of them cut short anywhere | `NeverUndercharged`, `OnePendingPerYear`, `NoOverlap`, `DecidedIsFinal` |
| `serial_books` | two users, one handler at a time, no faults | `ImplementsLedger`, `ExcessIsOwed` |
| `two_approvals` | one request, 2 handlers | the code breaks `ProcessedOnce` (section 5) |
| `directory_races` | 2 users, 1 address, 2 passwords, 2 attributes, 2 handlers, every operation, refusals | `DirectoryMatches`, `NoStrayEntry` |
| `directory_faults` | 1 user and a new address to move to, 2 handlers, one lost reply or handler cut short, timeouts, late requests, `FairSpec` | `CreatedUserHasEntry`, `LocksAreReleased` |
| `shifts_races` | 2 shifts, 2 users, 2 days, 2 handlers, every operation, batches of 2; a type with a night shift and one from 08:20, a type without schedules | `HoursFollowShift`, `LastEventNamesHolder`, `OriginalInTrail`, `OneShiftPerDay` |
| `shifts_delete` | 2 shifts, 1 handler | the code breaks `DeletedIsGone` (section 5) |
| `groups_races` | 2 groups, 1 user, 2 names, 2 handlers, 5 requests, time limits, `FairSpec` | `LevelsFollowTree`, `MembersWereAccepted`, `CascadeOnlyAfterChange`, `WalksEnd` |
| `roles_races` | a global and a local role and an id for a third, 2 users, 1 area, 2 handlers, 3 requests, time limits, deadlocks, `FairSpec` | `DirectoryKnowsMembers`, `AreasOfLastUpdate`, `DoubledOnlyByRace`, `ReplacesAll`, `HandlersEnd` |
| `records` | the six services of `MCRecords`, 2 calls in flight each, faults | `OneInForce`, `PeriodListsInForce`, `ClosedIsFollowed`; `EventOnce`, `YearWhole`, `ListedDaysAreHolidays`; `ListsAsAsked`, `RemovedOnlyHollow`; `LevelAsAsked`; `BestIsFirstLeast`, `ReadersAreServed`; `SeedCompletes` |

Each module also has a type invariant and inductive invariants. They were checked
on these instances before they were proved; now that they hold for every instance
the runs do not repeat them.

The vacation rules split in three. What holds under any interleaving is about
one balance row or one log (`races`). What the messages of the code promise
about a user's requests holds for handlers that run one at a time, even when
they are cut short (`cut_short`). That the books balance needs, besides, that no
handler is cut short (`serial_books`): that the balances of a user and year hold
exactly the approved days is what the refinement of `LeaveLedger` says, whose
ledger is the balances.
The directory rules split in the same
way: the two sides match as long as no reply is lost (`directory_races`); what is
left when replies are lost, handlers are cut short and transactions time out is
in `directory_faults`.
Two users compete for one address in `directory_races`; two users with an
address each do not interact. The rules of shifts hold for any interleaving;
that a user has one shift per day does not, since no transaction and no unique
key backs the look: `OneShiftPerDay` says how far the look goes, and leaves out
what batches and reassignments, which do not look, have placed.

The rules of groups, roles and records are of the same kind: each says how far a
check, a delete-then-insert or a request to LDAP carries when others come in
between, and names, by a history variable, the situation in which it does not.
A parent may be raised above its children's reach, a child may be deleted by
a removal that saw none, a role may be doubled: only by handlers overtaken
between their read and their write. For a group, LDAP may know a member that the
table does not have; `MembersWereAccepted` says it is never the other way round.

**Bounds.** `Requests` bounds the rows ever inserted, `BalanceIds` the balance
rows, `Calls` the concurrency, `MaxFaults` the faults, `MaxLate` the requests
left behind by timed-out transactions when a handler starts. Two handlers and
two requests are enough for each race of the code, all of which are between a
read and a write of two handlers on one row or on two rows of one user; a third
would repeat one of them. Six days, three per year, have a span inside a year, across the
year end, and with inverted dates; an allowance of 1 or 2 days is used up by the first
span, so charges below, across and above it occur. `BalanceIds` has a row for
every year and every handler that can create one at the same time. When the ids
of requests are used up the system of `Vacations` has nothing left to do, which
is why its runs do not check deadlock; those of `UserDirectory` do.
`MaxEvents` bounds the events of all shifts and `MaxBatch` those of one batch:
two shifts and three events let one shift be created, moved and moved again, or
moved while the other one is placed. The handlers wait when the events are used up, so the runs of
`ShiftAssignments` do not check deadlock either.

`MaxRequests` bounds the requests of `OrganizationalGroups` and
`RoleMembership`, whose runs end when they are used up. With five requests two
groups can be created and be moved, removed and given members by two handlers at a
time: enough for a circle of two groups, a cascade and a level that no longer fits. Three
requests to the roles, which are there from the start, let two handlers
overlap with what a third has left, and four `RowIds` leave every insert a free one.
The bounds of the records are in `Records.cfg`: three salaries
(`MaxSalaries`), of which one call is cut short (`MaxCuts`), starting on four
instants of days of two, so that records end just before, on and after a start;
two years of three days whose events end on one day and on the last day of a
year, four rows (`HolidayIds`), two requests and one fault (`MaxHolidayRequests`,
`MaxHolidayFaults`); four requests and one cut for rosters and levels
(`MaxRosterRequests`, `MaxRosterCuts`, `MaxLevelRequests`, `MaxLevelCuts`); lists
of up to four permissions (`MaxListed`) of six codes in three groups, with equal
priorities, lower ones and null; and a seed interrupted twice by each, clients
and faults (`MaxClientSteps`, `MaxSeedCuts`).
Values that the code only compares are symmetric; liveness is checked without
symmetry.

**Fairness.** `Vacations!FairSpec` is weak fairness of each handler's next
statement: the database answers, and the event loop runs every callback that is
ready. Nothing makes clients call. `UserDirectory!FairSpec` is weak fairness of
the end of a transaction: the database commits or rolls back, and Prisma's timer
fires. Nothing is assumed of the microservice, which may never answer.
`OrganizationalGroups!FairSpec` is weak fairness of the reads of a walk, which
the database answers. `RoleMembership!FairSpec` is weak fairness of the next
step of each handler: database and microservice answer, and PostgreSQL ends one
of the handlers that wait for each other.

## 4. What is proved

In `VacationsProofs`, for any users, requests, handlers, days, allowance and number of
faults, from `ConstantsAssumption` alone:

| Theorem | States |
|---|---|
| `VacationsInvariant` | `Spec => []IInv` |
| `VacationsTypeOK` | `Spec => []TypeOK` |
| `DebtSound` | `Spec => []DebtOnlyWhenExhausted` |
| `ChargesSound` | `Spec => []NoInventedDays` |
| `LogSound` | `Spec => []LoggedIsDecided` |

The four properties are not inductive. A settlement writes values computed from
a row it read some statements earlier, so `IInv` adds `SnapshotOK`: the values a
handler holds are those of a sound balance and had been charged to that row.
A decision is logged after the status was written, with deletes
and updates in flight, so it adds `DecisionOK`: a handler about to log finds its
request decided or gone; and `LocalsOK` and `FreshId`, which say which locals a
program counter vouches for and that the id of a row yet to be inserted is
nobody else's. A statement that changes only the handler that makes it is an
instance of one lemma (`CallStep`); the statements that write a table have a
lemma each; `StepInv` puts them together.

In the same module, for handlers that run one at a time:

| Theorem | Assumes | States |
|---|---|---|
| `SerialInvariant` | `Serial` | `Spec => []SerialInv` |
| `PendingSound` | `Serial` | `Spec => []OnePendingPerYear` |
| `OverlapSound` | `Serial` | `Spec => []NoOverlap` |
| `DecidedIsFinalSound` | `Serial` | `Spec => DecidedIsFinal` |
| `NeverUnderchargedSound` | `Serial` | `Spec => []NeverUndercharged` |
| `ExcessSound` | `Serial` | `Spec => ExcessIsOwed` |
| `LedgerImplemented` | `Serial`, `NoFaults` | `Spec => ImplementsLedger` |

`Serial` says that no two handlers are in flight at once and `NoFaults` that no
statement fails: these are the instances of `cut_short` and `serial_books`, and
section 5 lists what becomes of the rules without them. A handler is still a
sequence of statements here, and any number of handlers may follow one another.
`SerialInv` adds to `IInv` that what the handler has read is still so when it
writes: the request is as its first statement found it (`ReadOK`), the balance is
the one it read and the only row of its year (`BalanceReadOK`, `OneBalancePerYear`), and in
the years its loop has left no other request is in the way (`ChecksOK`). A new request is
compared with others year by year, an amended one by its dates; both give
`NoOverlap`, because a day two requests share lies in a year of both.

The books are kept by counting. `Tally` counts a disjoint union, so a statement
adds or removes one set of known size (`TallyOne`, `TallyMore`, from
`FiniteSetTheorems`), which replaces an induction over a sum. Most statements leave
the books alone (`QuietBooks`); a charge adds to the days held and to those of the
approval under way alike (`ChargeBooks`); the write of the status makes days under way
approved ones (`ApproveBooks`). The days held therefore never fall below the other two together (`PaidInv`); a handler cut short
leaves days held that nobody accounts for, which is why only the inequality
survives faults. Without faults the difference of days held and days under way is
what `LeaveLedger` calls `spent`: `LedgerStep` maps each statement to one step of
the ledger or to a stutter, the decision of an approval being the write of its status.

In `UserDirectoryProofs`, for any users, addresses, passwords, attributes and
handlers, from `DirectoryAssumption`:

| Theorem | Assumes | States |
|---|---|---|
| `DirectoryInvariant` | `Reliable` | `Spec => []DirectoryInv` |
| `DirectoryMatchesSound` | `Reliable` | `Spec => []DirectoryMatches` |
| `NoStrayEntrySound` | `Reliable` | `Spec => []NoStrayEntry` |
| `CreationInvariant` | | `Spec => []CreationInv` |
| `DirectoryTypeOK` | | `Spec => []TypeOK` |
| `CreatedUserHasEntrySound` | `CreateRefusals = {"error"}` | `Spec => CreatedUserHasEntry` |

`Reliable` says what the code does not survive: a reply lost, a handler cut
short, a transaction that outlasts its limit with the request under way, a
changed address, and a create-user turned down without an exception. Each of
them leaves the two sides apart, so none of these assumptions can go. That
they match is not inductive: a request on the wire has yet to be carried out,
and a carried-out one has yet to be committed. `DirectoryInv` adds `RequestOK`,
that a request belongs to the one handler that waits for it and that its patch
makes of any entry equal to the committed row one equal to the row the
transaction has written (`PatchOK`; lemma `SentPatch`); `ChangeOK`, that this handler
holds the lock and that, once answered, the entry equals the row about to be
committed; `CreateOK`, that the row of a create not yet answered is still as
inserted and has no entry; and `UserOK`, the three situations a user can be in.
Again a step that only moves one handler is an instance of a `CallStep`, and the
steps that write a table, send or answer have a lemma each.

What a create leaves behind needs none of `Reliable` but its last part: replies are
lost, handlers cut short, requests outlive their transactions and addresses
change. `CreationInv` follows the id and the address of a create (`CreationOK`):
until its row is there nobody else has the id; from then on its user has the
address it was created with, unless that address has an entry by now, since
another handler can commit a new address only after a request for the old one has
been carried out; and no entry is ever removed. So the request of a create is for
its own address, or that has an entry anyway (`SentOK`), and a create that is told
"ok" leaves its address with one. `CreationFrame` and `SentFrame` say what one
handler's step leaves to the others.

In `ShiftAssignmentsProofs`, for any shifts, users, days, types and schedules,
any number of handlers, batches and events of any size, from `ShiftAssumption`:

| Theorem | States |
|---|---|
| `ShiftInvariant` | `Spec => []ShiftInv` |
| `ShiftsTypeOK` | `Spec => []TypeOK` |
| `HoursSound` | `Spec => []HoursFollowShift` |
| `TrailSound` | `Spec => []LastEventNamesHolder` |
| `OriginalSound` | `Spec => []OriginalInTrail` |
| `CalendarSound` | `Spec => []OneShiftPerDay` |

What makes the properties inductive is `CallOK`, what a handler in flight may
rely on: its shift exists, since none is ever deleted; the user it will write
down as the original one is in the trail, since trails only grow; and while
nobody has committed, the day it found free is free, or the user and day it
read are those of the shift. The invariant says of one shift that its row, hours and trail fit
(`RowOK`), so that a transaction is judged by the rows it writes (`NewShift`,
`ChangedShift`, then `Inserted` and `Changed` for the tables), and `Committed`
shows that the other handlers rely on nothing a commit takes away. Without the
events only growing, `OriginalInTrail` would fail for a handler that read the
shift before two others have moved it.

In `OrganizationalGroupsProofs`, for any groups, users, names, areas, bodies of
requests and handlers, from `GroupsAssumption`:

| Theorem | States |
|---|---|
| `GroupsInvariant` | `Spec => []GroupsInv` |
| `GroupsTypeOK` | `Spec => []TypeOK`, with the foreign keys |
| `LevelsSound` | `Spec => []LevelsFollowTree` |
| `MembersSound` | `Spec => []MembersWereAccepted` |
| `CascadeSound` | `Spec => CascadeOnlyAfterChange` |

`GroupsInv` adds `FreshOK`: what a handler is about to write fits the tree as long as
nobody else has written a group since it read (`UpdatePlaceable` shows that
`validateUpdateInput` establishes it whenever it compares levels). `WrittenCalls`
is the lemma by which one write makes all the others stale. That the tree is
acyclic is not among the theorems, since updates may close a circle (section 5);
that a fresh removal deletes one group follows from its having no children, by
`DoomedClosed`.

In `RoleMembershipProofs`, for any roles, users, areas, names, rows and handlers,
from `RolesAssumption`:

| Theorem | States |
|---|---|
| `RolesInvariant` | `Spec => []RolesInv` |
| `RolesTypeOK` | `Spec => []TypeOK`, with the foreign keys |
| `DirectorySound` | `Spec => []DirectoryKnowsMembers` |
| `AreasSound` | `Spec => []AreasOfLastUpdate` |
| `DoubledSound` | `Spec => []DoubledOnlyByRace` |
| `ReplacesSound` | `Spec => ReplacesAll` |

The properties are about committed rows and the steps that break them are
commits of what open transactions hold. `RolesInv` therefore says what each
handler holds (`CallOK`) and that no two hold what excludes the other (`Apart`),
which is what the locks are for: two rows that may not both be committed are
never in two transactions, and no two updates have written one role or one name.
`AnyStep` reduces a step to the handler that makes it and the
tables; a step that changes only locals is an instance of `LocalStep`, one that
commits of `TableStep`. `Alike` handlers, equal but for the marks others put on
them, satisfy the same conditions. `OnlyByName` says that LDAP's group of a name
belongs to the one role listed under it.

In `SalaryHistoryProofs`, `HolidaysProofs` and `RecordsProofs`, for any users,
rows, calls, years, events, lists, tables of the seed and bounds, from the assumption
of the module:

| Theorem | States |
|---|---|
| `SalaryInvariant` | `SalarySpec => []SalaryInv` |
| `SalariesSound` | `SalarySpec => []OneInForce` |
| `PeriodSound` | `SalarySpec => []PeriodListsInForce` |
| `FollowedSound` | `SalarySpec => []ClosedIsFollowed` |
| `HolidayInvariant` | `HolidaySpec => []HolidayInv` |
| `EventsOnce` | `HolidaySpec => []EventOnce` |
| `YearsWhole` | `HolidaySpec => []YearWhole` |
| `DaysAgree` | `HolidaySpec => []ListedDaysAreHolidays` |
| `LevelInvariant` | `LevelSpec => []LevelInv` |
| `LevelsSound` | `LevelSpec => []LevelAsAsked` |
| `RosterInvariant` | `RosterSpec => []RosterInv` |
| `ListsSound` | `RosterSpec => []ListsAsAsked` |
| `HollowSound` | `RosterSpec => RemovedOnlyHollow` |
| `SeedInvariant` | `SeedSpec => []SeedInv` |
| `SeedSound` | `SeedSpec => []SeedCompletes` |
| `PermissionInvariant` | `PermissionSpec => []PermissionInv` |
| `BestIsSound` | `PermissionSpec => []BestIsFirstLeast` |
| `ReadersServed` | `PermissionSpec => []ReadersAreServed` |

`createSalary` closes at most two records and the theorem is that no other is in
the way. `WriterSound` says what a call of an orderly user has found out by each
of its statements; `OneInTheWay` and `OneOpen`, that of records that do not
overlap at most one ends after the new start and at most one is open. `ClosedIsFollowed` holds
for users in any order and rests on the types alone. For holidays, `ImportAlone`
says that the only import of a year has yet to insert what is not there, and
`ImportedAsFormatted` keeps imported rows in the year they were imported for, by
arithmetic on the offsets (`DivUnique`, `FormattedOK`); the same arithmetic proves
`DaysAgree`. For the reduction, `BetterIsLess` shows that the two defaults for
null make one order, because no priority is near them, and `ScanStep` that a turn
of the loop keeps the first least.

Levels and rosters delete and insert in statements of their own, and their
properties say what holds when nobody else comes in between: `LevelInv` and
`RosterInv` add that a call that has been alone finds nothing there when it writes,
each list of a roster by itself. `SeedInv` adds that whatever the run has been over
(`PassedRow`) is there for as long as clients leave it alone; the order of the
tables is all it needs, so the upserts of one table may come in any order.

Only model-checked: liveness (`DecisionIsLogged`, `ApprovalDecides`,
`LocksAreReleased`, `WalksEnd`, `HandlersEnd`), which TLAPS does not do under
fairness. Every other property of a passing run is a theorem. Nothing is proved about
the properties that must fail (section 5).

## 5. Disagreements found

Each has a run that must find its property violated.

- `ProcessedOnce`: "Only pending requests can be processed."
  (`vacations.service.ts:272`) is checked against a read that may be stale; two
  approvals in flight charge and log the request twice.
- `DeletedIsGone`: "Shift assignment deleted successfully"
  (`shift-assignment.service.ts:336`) is never said: every shift has hours and
  an event whose foreign keys restrict its deletion
  (`migrations/20251028200616_add_shifts_module/migration.sql:106`, `109`), so the
  transaction fails each time.

Seen on the way, without a run of its own.

*Races the properties leave out, because the code does allow them:* two requests
filed at once pass each other's checks (`vacations.service.ts` 118); an update
overwrites a decision made since it read (238); a password change reactivates in
LDAP a user removed meanwhile (`users.service.ts` 502); two imports of a year
double it (`holiday.service.ts` 29); two replacements of a level leave two.

*Vacations:* "Start date must be before end date." (189) is enforced by the
update and not by the creation, where inverted dates skip every check.
`daysExceeded` ignores the other pending days, announces a request across the
year end as if all its days were of the first year, and, when an update moves a
request to a year without a balance row, announces all of it as excess and
stores that in the observation (228-238).

*Shifts and rosters:* an update writes the holiday and weekend flags of the old
date (`shift-assignment.service.ts` 184); hours that are not whole fail at the
integer column (485). A roster with users or types cannot be removed.

*Users:* an update of the email leaves the entry in LDAP under the old address
(392); `removeRole` of `users.controller.ts` (180-184) passes no area, so that
it refuses to take away a local role; nothing the users service does with roles reaches LDAP.

*Roles:* a change of scope leaves the rows of the other table;
`removeUserFromRole` commits although LDAP refused (368); a rename of a local role
tells LDAP of one of its areas (607); `updateRoleUsers` is called by nobody; an
id is told from a name by its 36 characters.

*Groups:* an update may hang a group under its own descendant (634), after which
`buildHierarchyChain` does not end; an update that LDAP refuses is logged and
kept (144); a user in two groups gives two nodes of one key in the org chart
(439-454).

*Holidays:* names with a `-` are truncated; a holiday entered by hand makes its
year count as imported; a read during an import lists what is inserted so far;
the dates of an edited holiday depend on the zone of the server (139-146).

*Permissions and seed:* controllers ask for `user.desactivate` and
`role.assign.permissions` where the seed has `user.deactivate` and
`role.assign.permission`; renaming the role DEVS makes the next seed create it
anew. No validation pipe is installed, so the rules of the DTOs hold nothing
back.

## 6. Not modelled, and what is left

Left out for good: hashing, encryption, JWTs, image upload, response formatting
(pure or I/O); the single-statement CRUD of reference data, which the constraints
of the database guard; reads that change nothing, but for those named above;
migrations, which do not run with the service.

Left out of a component that is otherwise modelled: `insertNewPasswordInDB` and
the area set of a user (`users.service.ts` 396), the permissions of a role, the
flags and the areas of a shift. None of them is read back by what is modelled.
What an edited holiday is listed as is not a property, because it depends on
the zone of the server.

Worth adding next: the area set of a user as a third replace-all under a lock
taken late; the composition of `UserDirectory` and `RoleMembership`, which share
the directory but, as things stand, no entry of it; an abstract specification of
`RoleMembership` as a relation replaced in one step.
