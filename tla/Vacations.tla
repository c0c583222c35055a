----------------------------- MODULE Vacations -----------------------------
(***************************************************************************)
(* The vacation module of the HR backend: requests for leave, the yearly   *)
(* balance they are charged to, and the log of decisions                   *)
(* (src/src/modules/vacations/vacations.service.ts).                       *)
(*                                                                         *)
(* The service opens no transaction.  A handler is a series of awaited     *)
(* statements, each atomic in the database, and the statements of the      *)
(* handlers in flight interleave; here a handler in flight is a member of  *)
(* Calls and each awaited statement is one action of it.  Code between two *)
(* awaits touches only locals and belongs to the action before it.         *)
(*                                                                         *)
(* Data is abstracted to what the checks and the charges tell apart: a     *)
(* date is a day number, YearOf gives the day's calendar year, observation *)
(* texts and the projected figures of a response are left out.             *)
(***************************************************************************)
EXTENDS Integers, FiniteSets, Sequences

CONSTANTS
    Users,       \* employees
    Requests,    \* ids a vacation_request row may get: bounds the rows ever inserted
    BalanceIds,  \* ids a vacation_balance row may get
    Calls,       \* slots for the handlers in flight: bounds the concurrency
    None,        \* no id
    LastDay,     \* dates are the days 0..LastDay
    YearOf,      \* the calendar year of each day
    Spans,       \* the <<startDate, endDate>> pairs that clients send
    Allowance,   \* daysAvailable of a new balance: 15 in the code
    MaxFaults    \* bound on the handlers cut short by a database error or a crash

Days == 0..LastDay
Years == {YearOf[d] : d \in Days}

ASSUME ConstantsAssumption ==
    /\ None \notin Users \cup Requests \cup BalanceIds
    /\ LastDay \in Nat
    /\ YearOf \in [Days -> Nat]
    /\ \A d, e \in Days : d <= e => YearOf[d] <= YearOf[e]
    /\ Spans \subseteq Days \X Days
    /\ Allowance \in Nat
    /\ MaxFaults \in Nat

VARIABLES
    requests,  \* vacation_request: the rows of the table, by id
    balances,  \* vacation_balance: (userId, year) is not unique in the schema
    logs,      \* vacation_action_log: the verdicts logged for each request
    calls,     \* the locals and the program counter of each handler
    issued,    \* history: the request ids ever inserted, a uuid is never reused
    charged,   \* history: the days settlements have charged to each balance row
    faults     \* the handlers cut short so far

vars == <<requests, balances, logs, calls, issued, charged, faults>>

Verdicts == {"APPROVED", "REJECTED"}
Statuses == {"PENDING"} \cup Verdicts

RequestRow == [user : Users, start : Days, end : Days, status : Statuses]
BalanceRow == [user : Users, year : Years, taken : Nat, owed : Nat]

Ops == {"none", "generate", "update", "approve", "reject", "delete", "view"}
Points == {"idle", "checkPending", "checkOverlap", "findBalance",
           "createBalance", "insert", "write", "settleFind", "settleCreate",
           "charge", "setStatus", "log", "erase"}

(***************************************************************************)
(* todo holds the years of the current loop still to be done; bal, taken   *)
(* and owed are the balance row settleBalancePerYear has read.             *)
(***************************************************************************)
Call == [op : Ops, pc : Points, req : Requests \cup {None},
         user : Users \cup {None}, start : Days, end : Days,
         todo : SUBSET Years, bal : BalanceIds \cup {None},
         taken : Nat, owed : Nat]

Idle == [op |-> "none", pc |-> "idle", req |-> None, user |-> None,
         start |-> 0, end |-> 0, todo |-> {}, bal |-> None,
         taken |-> 0, owed |-> 0]

Init ==
    /\ requests = <<>>
    /\ balances = <<>>
    /\ logs = [r \in Requests |-> <<>>]
    /\ calls = [c \in Calls |-> Idle]
    /\ issued = {}
    /\ charged = [b \in BalanceIds |-> 0]
    /\ faults = 0

-----------------------------------------------------------------------------
(* Operators on the tables and on the dates. *)

Exists(r) == r \in DOMAIN requests
Pending(r) == Exists(r) /\ requests[r].status = "PENDING"
Decided(r) == Exists(r) /\ requests[r].status \in Verdicts

\* The table with the row put in under the id.
Put(table, id, row) ==
    [x \in DOMAIN table \cup {id} |-> IF x = id THEN row ELSE table[x]]

\* The table without the row.
Remove(table, id) == [x \in DOMAIN table \ {id} |-> table[x]]

\* splitDaysByYear: no year at all when the dates are inverted.
splitYears(s, e) == {YearOf[d] : d \in s..e}

\* Mutant: the last day is left out (current < end).
daysInYearOpen(s, e, y) == Cardinality({d \in s..(e - 1) : YearOf[d] = y})

daysInYear(s, e, y) == Cardinality({d \in s..e : YearOf[d] = y})

\* Object.entries visits the years in ascending order.
IsNext(y, todo) == y \in todo /\ \A z \in todo : y <= z

\* A PENDING row of u that starts in y; the call's own row does not count.
hasVacationRequestPending(u, y, own) ==
    \E r \in DOMAIN requests \ {own} :
        /\ requests[r].user = u
        /\ requests[r].status = "PENDING"
        /\ YearOf[requests[r].start] = y

\* A row of u, of any status, that meets the whole year y.
hasVacationInRange(u, y) ==
    \E r \in DOMAIN requests :
        /\ requests[r].user = u
        /\ YearOf[requests[r].start] <= y
        /\ YearOf[requests[r].end] >= y

\* Mutant: the two comparisons are strict.
hasOverlapStrict(u, s, e, own) ==
    \E r \in DOMAIN requests \ {own} :
        /\ requests[r].user = u
        /\ requests[r].start < e
        /\ requests[r].end > s

\* A row of u, of any status, other than own, that meets the days s..e.
hasOverlap(u, s, e, own) ==
    \E r \in DOMAIN requests \ {own} :
        /\ requests[r].user = u
        /\ requests[r].start <= e
        /\ requests[r].end >= s

BalancesFor(u, y) ==
    {b \in DOMAIN balances : balances[b].user = u /\ balances[b].year = y}

NewBalance(u, y) == [user |-> u, year |-> y, taken |-> 0, owed |-> 0]

-----------------------------------------------------------------------------
(* Control flow of a handler. *)

At(c, point) == calls[c].pc = point

Start(c, call) == At(c, "idle") /\ calls' = [calls EXCEPT ![c] = call]

\* The handler answers, with a result or with an exception.
Return(c) == calls' = [calls EXCEPT ![c] = Idle]

Goto(c, point) == calls' = [calls EXCEPT ![c] = [@ EXCEPT !.pc = point]]

\* The loop over the years goes on, or the handler leaves it for exit.
NextYear(c, y, loop, exit) ==
    LET rest == calls[c].todo \ {y}
    IN  calls' = [calls EXCEPT ![c] =
                    [@ EXCEPT !.pc = IF rest = {} THEN exit ELSE loop,
                              !.todo = rest, !.bal = None,
                              !.taken = 0, !.owed = 0]]

-----------------------------------------------------------------------------
(* POST /vacations: generateVacationRequest. *)

\* Nothing rejects a start date after the end date; there is then no year to
\* check.  The uuid of the row to come is picked here.
BeginGenerate(c) ==
    /\ \E u \in Users, span \in Spans, r \in Requests \ issued :
         /\ \A k \in Calls : calls[k].req # r
         /\ LET years == splitYears(span[1], span[2])
            IN  Start(c, [Idle EXCEPT
                    !.op = "generate", !.req = r, !.user = u,
                    !.start = span[1], !.end = span[2], !.todo = years,
                    !.pc = IF years = {} THEN "findBalance"
                                         ELSE "checkPending"])
    /\ UNCHANGED <<requests, balances, logs, issued, charged, faults>>

GenerateCheckPending(c) ==
    /\ calls[c].op = "generate" /\ At(c, "checkPending")
    /\ \E y \in calls[c].todo :
         /\ IsNext(y, calls[c].todo)
         /\ IF hasVacationRequestPending(calls[c].user, y, None)
            THEN Return(c) ELSE Goto(c, "checkOverlap")
    /\ UNCHANGED <<requests, balances, logs, issued, charged, faults>>

GenerateCheckOverlap(c) ==
    /\ calls[c].op = "generate" /\ At(c, "checkOverlap")
    /\ \E y \in calls[c].todo :
         /\ IsNext(y, calls[c].todo)
         /\ IF hasVacationInRange(calls[c].user, y)
            THEN Return(c) ELSE NextYear(c, y, "checkPending", "findBalance")
    /\ UNCHANGED <<requests, balances, logs, issued, charged, faults>>

InsertRequest(c) ==
    /\ At(c, "insert")
    /\ requests' = Put(requests, calls[c].req,
                       [user |-> calls[c].user, start |-> calls[c].start,
                        end |-> calls[c].end, status |-> "PENDING"])
    /\ issued' = issued \cup {calls[c].req}
    /\ Return(c)
    /\ UNCHANGED <<balances, logs, charged, faults>>

-----------------------------------------------------------------------------
(* PATCH /vacations/:id: updateVacationRequest. *)

\* Mutant: the status of the request is not checked.
BeginUpdateAnyStatus(c) ==
    /\ \E r \in DOMAIN requests, u \in Users, span \in Spans :
         /\ span[1] <= span[2]
         /\ Start(c, [Idle EXCEPT
                !.op = "update", !.pc = "checkPending", !.req = r, !.user = u,
                !.start = span[1], !.end = span[2],
                !.todo = splitYears(span[1], span[2])])
    /\ UNCHANGED <<requests, balances, logs, issued, charged, faults>>

\* Every field of the body is optional; one left out keeps the row's value.
BeginUpdate(c) ==
    /\ \E r \in DOMAIN requests, u \in Users, span \in Spans :
       \E s \in {span[1], requests[r].start}, e \in {span[2], requests[r].end} :
         /\ Pending(r)
         /\ s <= e
         /\ Start(c, [Idle EXCEPT
                !.op = "update", !.pc = "checkPending", !.req = r, !.user = u,
                !.start = s, !.end = e, !.todo = splitYears(s, e)])
    /\ UNCHANGED <<requests, balances, logs, issued, charged, faults>>

\* Mutant: another pending request of the year is not looked for.
UpdateSkipPending(c) ==
    /\ calls[c].op = "update" /\ At(c, "checkPending")
    /\ Goto(c, "checkOverlap")
    /\ UNCHANGED <<requests, balances, logs, issued, charged, faults>>

UpdateCheckPending(c) ==
    /\ calls[c].op = "update" /\ At(c, "checkPending")
    /\ \E y \in calls[c].todo :
         /\ IsNext(y, calls[c].todo)
         /\ IF hasVacationRequestPending(calls[c].user, y, calls[c].req)
            THEN Return(c) ELSE Goto(c, "checkOverlap")
    /\ UNCHANGED <<requests, balances, logs, issued, charged, faults>>

UpdateCheckOverlap(c) ==
    /\ calls[c].op = "update" /\ At(c, "checkOverlap")
    /\ \E y \in calls[c].todo :
         /\ IsNext(y, calls[c].todo)
         /\ IF hasOverlap(calls[c].user, calls[c].start, calls[c].end,
                          calls[c].req)
            THEN Return(c) ELSE NextYear(c, y, "checkPending", "write")
    /\ UNCHANGED <<requests, balances, logs, issued, charged, faults>>

\* The row is written whatever its status is by now; a row that is gone
\* makes the statement fail.
WriteRequest(c) ==
    /\ At(c, "write")
    /\ IF Exists(calls[c].req)
       THEN requests' = [requests EXCEPT ![calls[c].req] =
                           [@ EXCEPT !.user = calls[c].user,
                                     !.start = calls[c].start,
                                     !.end = calls[c].end]]
       ELSE UNCHANGED requests
    /\ Return(c)
    /\ UNCHANGED <<balances, logs, issued, charged, faults>>

-----------------------------------------------------------------------------
(* PATCH /vacations/approve/:id: handleVacationRequestApproval. *)

BeginProcess(c) ==
    /\ \E r \in DOMAIN requests :
         LET row == requests[r]
             call == [Idle EXCEPT !.req = r, !.user = row.user,
                                  !.start = row.start, !.end = row.end]
         IN  /\ Pending(r)
             /\ \/ Start(c, [call EXCEPT !.op = "reject", !.pc = "setStatus"])
                \/ Start(c, [call EXCEPT !.op = "approve", !.pc = "findBalance",
                                 !.todo = splitYears(row.start, row.end)])
    /\ UNCHANGED <<requests, balances, logs, issued, charged, faults>>

\* settleBalancePerYear goes on with the row it has read or created.
Hold(c, b, taken, owed) ==
    calls' = [calls EXCEPT ![c] = [@ EXCEPT !.pc = "charge", !.bal = b,
                                            !.taken = taken, !.owed = owed]]

\* Mutant: a year without a balance ends the approval.
SettleFindOrLeave(c) ==
    /\ At(c, "settleFind")
    /\ \E y \in calls[c].todo :
         LET rows == BalancesFor(calls[c].user, y)
         IN  /\ IsNext(y, calls[c].todo)
             /\ \/ rows = {} /\ Return(c)
                \/ \E b \in rows :
                     Hold(c, b, balances[b].taken, balances[b].owed)
    /\ UNCHANGED <<requests, balances, logs, issued, charged, faults>>

\* settleBalancePerYear reads one of the rows of the year, if there is one.
SettleFind(c) ==
    /\ At(c, "settleFind")
    /\ \E y \in calls[c].todo :
         LET rows == BalancesFor(calls[c].user, y)
         IN  /\ IsNext(y, calls[c].todo)
             /\ \/ rows = {} /\ Goto(c, "settleCreate")
                \/ \E b \in rows :
                     Hold(c, b, balances[b].taken, balances[b].owed)
    /\ UNCHANGED <<requests, balances, logs, issued, charged, faults>>

SettleCreate(c) ==
    /\ At(c, "settleCreate")
    /\ \E y \in calls[c].todo, b \in BalanceIds \ DOMAIN balances :
         /\ IsNext(y, calls[c].todo)
         /\ balances' = Put(balances, b, NewBalance(calls[c].user, y))
         /\ Hold(c, b, 0, 0)
    /\ UNCHANGED <<requests, logs, issued, charged, faults>>

\* Mutants: taken is not capped, the debt takes the whole total, the debt of
\* before is forgotten.
SettledUncapped(row, taken, owed, days) ==
    [row EXCEPT !.taken = taken + days,
                !.owed = IF taken + days > Allowance
                         THEN owed + taken + days - Allowance ELSE owed]

SettledWholeAsDebt(row, taken, owed, days) ==
    LET total == taken + days
    IN  IF total > Allowance
        THEN [row EXCEPT !.taken = Allowance, !.owed = owed + total]
        ELSE [row EXCEPT !.taken = total, !.owed = owed]

SettledForgetDebt(row, taken, owed, days) ==
    LET total == taken + days
    IN  IF total > Allowance
        THEN [row EXCEPT !.taken = Allowance, !.owed = total - Allowance]
        ELSE [row EXCEPT !.taken = total, !.owed = owed]

\* What a settlement makes of a balance read as taken and owed.
Excess(total) == IF total > Allowance THEN total - Allowance ELSE 0

Settled(row, taken, owed, days) ==
    LET total == taken + days
    IN  [row EXCEPT !.taken = total - Excess(total),
                    !.owed = owed + Excess(total)]

\* The row gets absolute values computed from what SettleFind read.
Charge(c) ==
    /\ At(c, "charge")
    /\ \E y \in calls[c].todo :
         LET b == calls[c].bal
             days == daysInYear(calls[c].start, calls[c].end, y)
         IN  /\ IsNext(y, calls[c].todo)
             /\ balances' = [balances EXCEPT
                  ![b] = Settled(@, calls[c].taken, calls[c].owed, days)]
             /\ charged' = [charged EXCEPT ![b] = @ + days]
             /\ NextYear(c, y, "settleFind", "setStatus")
    /\ UNCHANGED <<requests, logs, issued, faults>>

\* The status is overwritten without looking at it again.
SetStatus(c, op, verdict) ==
    /\ calls[c].op = op /\ At(c, "setStatus")
    /\ IF Exists(calls[c].req)
       THEN /\ requests' = [requests EXCEPT ![calls[c].req].status = verdict]
            /\ Goto(c, "log")
       ELSE Return(c) /\ UNCHANGED requests
    /\ UNCHANGED <<balances, logs, issued, charged, faults>>

SetApproved(c) == SetStatus(c, "approve", "APPROVED")
SetRejected(c) == SetStatus(c, "reject", "REJECTED")

\* The foreign key of the log refuses an entry for a request that is gone.
InsertLog(c, op, verdict) ==
    /\ calls[c].op = op /\ At(c, "log")
    /\ logs' = IF Exists(calls[c].req)
               THEN [logs EXCEPT ![calls[c].req] = Append(@, verdict)]
               ELSE logs
    /\ UNCHANGED <<requests, balances, issued, charged, faults>>

\* Mutant: the log entry of an approval is missing.
LogNothing(c) ==
    /\ calls[c].op = "approve" /\ At(c, "log")
    /\ Return(c)
    /\ UNCHANGED <<requests, balances, logs, issued, charged, faults>>

LogApproved(c) == InsertLog(c, "approve", "APPROVED") /\ Return(c)

LogRejected(c) ==
    /\ InsertLog(c, "reject", "REJECTED")
    /\ IF Exists(calls[c].req) THEN Goto(c, "findBalance") ELSE Return(c)

-----------------------------------------------------------------------------
(* DELETE /vacations/:id: deleteVacationRequest. *)

BeginDelete(c) ==
    /\ \E r \in DOMAIN requests :
         /\ Pending(r)
         /\ Start(c, [Idle EXCEPT !.op = "delete", !.pc = "erase", !.req = r])
    /\ UNCHANGED <<requests, balances, logs, issued, charged, faults>>

\* Mutant: nothing keeps a logged request from being deleted.
EraseLogged(c) ==
    /\ At(c, "erase")
    /\ requests' = Remove(requests, calls[c].req)
    /\ Return(c)
    /\ UNCHANGED <<balances, logs, issued, charged, faults>>

\* The foreign key of the log is RESTRICT: a logged request stays.
EraseRequest(c) ==
    /\ At(c, "erase")
    /\ requests' = IF logs[calls[c].req] = <<>>
                   THEN Remove(requests, calls[c].req) ELSE requests
    /\ Return(c)
    /\ UNCHANGED <<balances, logs, issued, charged, faults>>

-----------------------------------------------------------------------------
(* GET /vacations: reading a decided request may create its balance row.   *)
(* A listing handles its rows concurrently; each is a call of its own.     *)

BeginView(c) ==
    /\ \E r \in DOMAIN requests :
         /\ ~Pending(r)
         /\ Start(c, [Idle EXCEPT
                !.op = "view", !.pc = "findBalance", !.req = r,
                !.user = requests[r].user, !.start = requests[r].start,
                !.end = requests[r].end])
    /\ UNCHANGED <<requests, balances, logs, issued, charged, faults>>

-----------------------------------------------------------------------------
(* getUserVacationBalance: find the row of the start year or create it.    *)

AfterBalance(c) ==
    CASE calls[c].op = "generate" -> Goto(c, "insert")
      [] calls[c].op = "approve" ->
           Goto(c, IF calls[c].todo = {} THEN "setStatus" ELSE "settleFind")
      [] OTHER -> Return(c)

FindBalance(c) ==
    /\ At(c, "findBalance")
    /\ IF BalancesFor(calls[c].user, YearOf[calls[c].start]) = {}
       THEN Goto(c, "createBalance") ELSE AfterBalance(c)
    /\ UNCHANGED <<requests, balances, logs, issued, charged, faults>>

CreateBalance(c) ==
    /\ At(c, "createBalance")
    /\ \E b \in BalanceIds \ DOMAIN balances :
         balances' = Put(balances, b,
                         NewBalance(calls[c].user, YearOf[calls[c].start]))
    /\ AfterBalance(c)
    /\ UNCHANGED <<requests, logs, issued, charged, faults>>

-----------------------------------------------------------------------------

\* The next statement fails, or the process dies: nothing done so far is
\* undone.
Abort(c) ==
    /\ ~At(c, "idle")
    /\ faults < MaxFaults
    /\ faults' = faults + 1
    /\ Return(c)
    /\ UNCHANGED <<requests, balances, logs, issued, charged>>

Begin(c) ==
    \/ BeginGenerate(c) \/ BeginUpdate(c) \/ BeginProcess(c)
    \/ BeginDelete(c) \/ BeginView(c)

Step(c) ==
    \/ GenerateCheckPending(c) \/ GenerateCheckOverlap(c) \/ InsertRequest(c)
    \/ UpdateCheckPending(c) \/ UpdateCheckOverlap(c) \/ WriteRequest(c)
    \/ SettleFind(c) \/ SettleCreate(c) \/ Charge(c)
    \/ SetApproved(c) \/ SetRejected(c) \/ LogApproved(c) \/ LogRejected(c)
    \/ EraseRequest(c) \/ FindBalance(c) \/ CreateBalance(c)

Next == \E c \in Calls : Begin(c) \/ Step(c) \/ Abort(c)

Spec == Init /\ [][Next]_vars

\* The database answers every statement, so a handler in flight goes on.
FairSpec == Spec /\ \A c \in Calls : WF_vars(Step(c))

-----------------------------------------------------------------------------
(* Properties that hold however the handlers interleave and fail. *)

\* The type invariant.
TypeOK ==
    /\ DOMAIN requests \subseteq issued
    /\ \A r \in DOMAIN requests : requests[r] \in RequestRow
    /\ DOMAIN balances \subseteq BalanceIds
    /\ \A b \in DOMAIN balances : balances[b] \in BalanceRow
    /\ logs \in [Requests -> Seq(Verdicts)]
    /\ calls \in [Calls -> Call]
    /\ issued \subseteq Requests
    /\ charged \in [BalanceIds -> Nat]
    /\ faults \in 0..MaxFaults

\* No balance owes days while it still has days left, and none gives more
\* days than the allowance: lost updates between settlements, duplicated rows
\* and handlers cut short cannot break the split that settleBalancePerYear
\* makes of a charge.
DebtOnlyWhenExhausted ==
    \A b \in DOMAIN balances :
        /\ balances[b].taken <= Allowance
        /\ balances[b].owed > 0 => balances[b].taken = Allowance

\* Settlements that race on a row can lose days, never invent them: a balance
\* never holds more days than settleBalancePerYear has charged to it.
NoInventedDays ==
    \A b \in DOMAIN balances :
        balances[b].taken + balances[b].owed <= charged[b]

\* A logged decision stays on record: its request is still there and is not
\* PENDING, whatever deletes, updates and other approvals were in flight when
\* the decision was taken.
LoggedIsDecided ==
    \A r \in Requests : logs[r] # <<>> => Decided(r)

\* Without faults every decision ends up in the log (lines 434 and 466 come
\* after the status is committed), unless a delete that had already read the
\* request as PENDING takes the row away in between.
DecisionIsLogged ==
    \A r \in Requests : Decided(r) ~> (logs[r] # <<>> \/ ~Exists(r))

\* Without faults an approval in flight always ends in a decision on its
\* request, or with the request deleted: the settlement of the years ends
\* whatever the other handlers do to the balances.
ApprovalDecides ==
    \A c \in Calls, r \in Requests :
        (calls[c].op = "approve" /\ calls[c].req = r)
            ~> (Decided(r) \/ ~Exists(r))

-----------------------------------------------------------------------------
(* The inductive invariant: the four properties above, and what they rest  *)
(* on in the locals of the handlers in flight.                             *)

\* A handler past its first statement has a request, and all but a delete have
\* the user of it.
LocalsOK(call) ==
    /\ call.op = "none" <=> call.pc = "idle"
    /\ call.pc # "idle" => call.req \in Requests
    /\ call.pc \notin {"idle", "erase"} => call.user \in Users
    /\ call.pc = "insert" => call.op = "generate"

\* The balance a settlement has read was a sound one, and the days it held
\* had been charged to the row.
SnapshotOK(call) ==
    call.pc = "charge" =>
        /\ call.bal \in DOMAIN balances
        /\ call.taken <= Allowance
        /\ call.owed > 0 => call.taken = Allowance
        /\ call.taken + call.owed <= charged[call.bal]

\* A handler about to log a decision finds its request decided, or gone.
DecisionOK(call) == call.pc = "log" /\ Exists(call.req) => Decided(call.req)

\* A request that is being generated has an id nobody else knows.
FreshId(c) ==
    calls[c].op = "generate" =>
        /\ calls[c].req \notin issued
        /\ \A k \in Calls \ {c} : calls[k].req # calls[c].req

CallsOK ==
    \A c \in Calls :
        /\ LocalsOK(calls[c])
        /\ SnapshotOK(calls[c])
        /\ DecisionOK(calls[c])
        /\ FreshId(c)

\* Checked by TLC before it is proved inductive in VacationsProofs: the locals
\* of the handlers agree with the tables they were read from, so that what
\* they write keeps the balances and the log sound.
IInv ==
    /\ TypeOK
    /\ DebtOnlyWhenExhausted
    /\ NoInventedDays
    /\ LoggedIsDecided
    /\ CallsOK

-----------------------------------------------------------------------------
(* What the messages of the code say of one request or of one user's       *)
(* requests.  They hold when the handlers run one at a time.               *)

Proper(r) == requests[r].start <= requests[r].end

\* "Only pending requests can be processed." (line 272): no request is decided
\* twice.
ProcessedOnce == \A r \in Requests : Len(logs[r]) <= 1

\* A decided request stays as it is: it is not updated, deleted or decided
\* again (lines 180, 272 and 287).
DecidedIsFinal ==
    [][\A r \in Requests :
         Decided(r) => r \in DOMAIN requests' /\ requests'[r] = requests[r]]_vars

\* "User already has a pending vacation request for year" (line 119): two
\* pending requests of a user, neither with inverted dates, start in different
\* years.
OnePendingPerYear ==
    \A r, q \in DOMAIN requests :
        /\ r # q /\ Pending(r) /\ Pending(q) /\ Proper(r) /\ Proper(q)
        /\ requests[r].user = requests[q].user
        => YearOf[requests[r].start] # YearOf[requests[q].start]

\* "Vacation request overlaps with existing vacation" (lines 125 and 220): two
\* requests of a user never share a day.
NoOverlap ==
    \A r, q \in DOMAIN requests :
        r # q /\ requests[r].user = requests[q].user
        => (requests[r].start .. requests[r].end)
             \cap (requests[q].start .. requests[q].end) = {}

=============================================================================
