--------------------------- MODULE VacationsLedger -------------------------
(***************************************************************************)
(* The books of the vacation module: what the balances of a user's year    *)
(* hold against the approved requests, and the vacation service as an      *)
(* implementation of LeaveLedger.                                          *)
(***************************************************************************)
EXTENDS Vacations

\* The sum of the sizes of the sets that f gives: the elements of each are
\* counted, told apart by what f gives them for.
Counted(f) == UNION {{x} \X f[x] : x \in DOMAIN f}
Tally(f) == Cardinality(Counted(f))

\* The days of a span that fall in a year.
DaysWithin(s, e, y) == {d \in s..e : YearOf[d] = y}

\* The days the balances of u hold for the year y, over every row there is.
DaysHeld(u, y) ==
    Tally([b \in BalancesFor(u, y) |-> 1..(balances[b].taken + balances[b].owed)])

ApprovedOf(u) ==
    {r \in DOMAIN requests : /\ requests[r].user = u
                             /\ requests[r].status = "APPROVED"}

DaysApproved(u, y) ==
    Tally([r \in ApprovedOf(u) |->
             DaysWithin(requests[r].start, requests[r].end, y)])

\* The approvals of u's requests that have left their loop over the year y and
\* not written the status yet; none that has not entered the loop has a day in
\* a year outside todo.
Charging(u, y) ==
    {c \in Calls : /\ calls[c].op = "approve"
                   /\ ~At(c, "log")
                   /\ calls[c].user = u
                   /\ y \notin calls[c].todo}

\* The days an approval in flight has charged before its status is written.
DaysUnderway(u, y) ==
    Tally([c \in Charging(u, y) |->
             DaysWithin(calls[c].start, calls[c].end, y)])

\* What a client is told of a balance: nothing is available before the row of
\* the year is there.
getProjectedBalance(u, y) ==
    LET rows == BalancesFor(u, y)
    IN  [available |-> IF rows = {} THEN 0 ELSE Allowance,
         used |-> IF rows = {} THEN 0
                  ELSE balances[CHOOSE b \in rows : TRUE].taken]

\* Mutant: the days used already are left out.
daysExceededOfAll(u, y, days) == Excess(days)

\* The excess a client is told of a pending request of so many days.
daysExceeded(u, y, days) ==
    LET left == getProjectedBalance(u, y).available
                  - getProjectedBalance(u, y).used
    IN  IF days > left THEN days - left ELSE 0

-----------------------------------------------------------------------------

\* A handler cut short may leave days charged for a request that stays
\* PENDING, but an APPROVED request is always paid for: settleBalancePerYear
\* runs for every year before the status is written (lines 422-432).
NeverUndercharged ==
    \A u \in Users, y \in Years : DaysHeld(u, y) >= DaysApproved(u, y)

\* What a user is told comes true: the excess an answer announces for a pending
\* request inside a year, on the balance as it is, is the debt its approval
\* adds, with one handler at a time (lines 351, 509-524). A request that
\* crosses the year end is announced as if all its days were of the first year.
ExcessIsOwed ==
    [][\A c \in Calls :
          LET call == calls[c]
              y == YearOf[call.start]
              days == daysInYear(call.start, call.end, y)
          IN  Charge(c) /\ y = YearOf[call.end] =>
                balances'[call.bal].owed - balances[call.bal].owed
                  = daysExceeded(call.user, y, days)]_vars

-----------------------------------------------------------------------------

(* One handler at a time: what it may rely on.                             *)

\* No two handlers are in flight at once.
Serial == \A c, d \in Calls : c = d

\* No statement fails.
NoFaults == MaxFaults = 0

\* The point a handler is at is one of its operation.
OnRoute(call) ==
    /\ call.pc \in {"checkPending", "checkOverlap"} =>
         call.op \in {"generate", "update"}
    /\ call.pc = "write" => call.op = "update"
    /\ call.pc \in {"settleFind", "settleCreate", "charge"} =>
         call.op = "approve"
    /\ call.pc \in {"setStatus", "log"} => call.op \in {"approve", "reject"}
    /\ call.pc = "erase" => call.op = "delete"
    /\ call.pc \in {"findBalance", "createBalance"} =>
         call.op \notin {"update", "delete"}

\* The years of its request a handler has left its loop over.
Passed(call) == splitYears(call.start, call.end) \ call.todo

\* In the years it has passed, a handler that files or amends a request has
\* found no other in the way.
ChecksOK(call) ==
    call.op \in {"generate", "update"} =>
        /\ \A y \in Passed(call) :
             /\ ~hasVacationRequestPending(call.user, y, call.req)
             /\ call.op = "generate" => ~hasVacationInRange(call.user, y)
             /\ call.op = "update" =>
                  ~hasOverlap(call.user, call.start, call.end, call.req)
        /\ call.pc = "checkOverlap" =>
             \A y \in call.todo :
                IsNext(y, call.todo) =>
                    ~hasVacationRequestPending(call.user, y, call.req)
        /\ call.pc \notin {"checkPending", "checkOverlap"} => call.todo = {}

\* The handlers that have yet to write the status of their request.
Deciding(call) ==
    \/ call.op = "approve" /\ call.pc # "log"
    \/ call.op = "reject" /\ call.pc = "setStatus"

\* The request is what the first statement has read.
ReadOK(call) ==
    /\ call.op = "update" => Pending(call.req) /\ call.start <= call.end
    /\ call.op = "delete" => Pending(call.req)
    /\ Deciding(call) =>
         /\ call.req \in DOMAIN requests
         /\ requests[call.req] = [user |-> call.user, start |-> call.start,
                                  end |-> call.end, status |-> "PENDING"]

\* The balance of the year is what the handler has read, or not found, and an
\* approval settles each year of its request once.
BalanceReadOK(call) ==
    /\ call.pc = "createBalance" =>
         BalancesFor(call.user, YearOf[call.start]) = {}
    /\ \A y \in call.todo :
         IsNext(y, call.todo) =>
            /\ call.pc = "settleCreate" => BalancesFor(call.user, y) = {}
            /\ call.pc = "charge" =>
                 balances[call.bal] = [user |-> call.user, year |-> y,
                                       taken |-> call.taken, owed |-> call.owed]
    /\ call.op = "approve" =>
         /\ call.todo \subseteq splitYears(call.start, call.end)
         /\ call.pc \in {"findBalance", "createBalance"} =>
              call.todo = splitYears(call.start, call.end)
         /\ call.pc \in {"setStatus", "log"} => call.todo = {}

HandlerOK(call) ==
    OnRoute(call) /\ ChecksOK(call) /\ ReadOK(call) /\ BalanceReadOK(call)

\* The schema does not say so, but a user has one balance row for a year.
OneBalancePerYear ==
    \A a, b \in DOMAIN balances :
        /\ balances[a].user = balances[b].user
        /\ balances[a].year = balances[b].year
        => a = b

\* Checked by TLC before it is proved inductive in VacationsProofs, for
\* handlers that run one at a time and may be cut short.
SerialInv ==
    /\ IInv
    /\ IsFiniteSet(DOMAIN requests)
    /\ OneBalancePerYear
    /\ OnePendingPerYear
    /\ NoOverlap
    /\ \A c \in Calls : HandlerOK(calls[c])

\* The days of the approved requests and of the approval in flight are paid
\* for.
PaidInv ==
    \A u \in Users, y \in Years :
        DaysHeld(u, y) >= DaysApproved(u, y) + DaysUnderway(u, y)

-----------------------------------------------------------------------------

\* What a user's year has been charged for decisions taken.
Spent ==
    [a \in Users \X Years |-> DaysHeld(a[1], a[2]) - DaysUnderway(a[1], a[2])]

Ledger == INSTANCE LeaveLedger WITH leave <- requests, spent <- Spent

\* One handler at a time, the service implements the ledger: the statements of
\* an approval amount to one charge and decision, and nothing else is charged.
ImplementsLedger == Ledger!LedgerSpec

=============================================================================
