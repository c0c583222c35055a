----------------------------- MODULE LeaveLedger ---------------------------
(***************************************************************************)
(* What the vacation service promises, without statements or tables: the   *)
(* leave of an employee is asked for, amended, withdrawn or decided in one *)
(* step, no two requests of an employee share a day, and an approval       *)
(* charges the days of the request to their years exactly once.            *)
(***************************************************************************)
EXTENDS Integers, FiniteSets

CONSTANTS Users, Requests, LastDay, YearOf

Days == 0..LastDay
Years == {YearOf[d] : d \in Days}

VARIABLES
    leave,  \* the requests on file, by id
    spent   \* the days charged to each user's year

ledgerVars == <<leave, spent>>

\* The days asked for, none when the dates are inverted.
DaysOf(s, e) == {d \in Days : s <= d /\ d <= e}

Free(u, days, own) ==
    \A q \in DOMAIN leave \ {own} :
        leave[q].user = u => DaysOf(leave[q].start, leave[q].end) \cap days = {}

Open(r) == r \in DOMAIN leave /\ leave[r].status = "PENDING"

LedgerInit == leave = <<>> /\ spent = [a \in Users \X Years |-> 0]

File(r, u, s, e) ==
    /\ r \notin DOMAIN leave \/ Open(r)
    /\ Free(u, DaysOf(s, e), r)
    /\ leave' = [q \in DOMAIN leave \cup {r} |->
                    IF q = r THEN [user |-> u, start |-> s, end |-> e,
                                   status |-> "PENDING"]
                             ELSE leave[q]]
    /\ UNCHANGED spent

Withdraw(r) ==
    /\ Open(r)
    /\ leave' = [q \in DOMAIN leave \ {r} |-> leave[q]]
    /\ UNCHANGED spent

Reject(r) ==
    /\ Open(r)
    /\ leave' = [leave EXCEPT ![r].status = "REJECTED"]
    /\ UNCHANGED spent

Approve(r) ==
    /\ Open(r)
    /\ leave' = [leave EXCEPT ![r].status = "APPROVED"]
    /\ spent' = [a \in Users \X Years |->
          IF a[1] = leave[r].user
          THEN spent[a] + Cardinality({d \in DaysOf(leave[r].start, leave[r].end) :
                                         YearOf[d] = a[2]})
          ELSE spent[a]]

LedgerNext ==
    \E r \in Requests :
        \/ \E u \in Users, s, e \in Days : File(r, u, s, e)
        \/ Withdraw(r) \/ Reject(r) \/ Approve(r)

LedgerSpec == LedgerInit /\ [][LedgerNext]_ledgerVars

=============================================================================
