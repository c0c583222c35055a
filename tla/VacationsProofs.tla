--------------------------- MODULE VacationsProofs -------------------------
(***************************************************************************)
(* The invariants of Vacations, for any number of users, requests,         *)
(* balances, handlers, days and faults.                                    *)
(*                                                                         *)
(* IInv is inductive.  A statement that only moves a handler on is an      *)
(* instance of CallStep; the statements that write a table have a lemma    *)
(* each; StepInv puts them together.                                       *)
(*                                                                         *)
(* From "One handler at a time" on, the theorems assume Serial: what the   *)
(* only handler has read is still so when it writes (SerialInv).  The      *)
(* books are counted by the cardinalities of disjoint sets (Tally).  A     *)
(* statement leaves them alone (QuietBooks) or moves days between them     *)
(* (ChargeBooks, ApproveBooks), which gives NeverUndercharged and, without *)
(* faults, that the service implements LeaveLedger (LedgerStep).           *)
(***************************************************************************)
EXTENDS VacationsLedger, FiniteSetTheorems, TLAPS

-----------------------------------------------------------------------------
(* The dates. *)

\* The years of a span of days are years.
LEMMA SplitYears ==
    ASSUME NEW s \in Days, NEW e \in Days
    PROVE  splitYears(s, e) \subseteq Years
<1>1. \A d \in s..e : d \in Days
  BY ConstantsAssumption DEF Days
<1> QED
  BY <1>1 DEF splitYears, Years

\* The days of a span in a year are a number of days.
LEMMA DaysAreCounted ==
    ASSUME NEW s \in Days, NEW e \in Days, NEW y
    PROVE  daysInYear(s, e, y) \in Nat
<1>1. s \in Int /\ e \in Int
  BY ConstantsAssumption DEF Days
<1>2. IsFiniteSet(s..e)
  BY <1>1, FS_Interval
<1>3. IsFiniteSet({d \in s..e : YearOf[d] = y})
  BY <1>2, FS_Subset
<1> QED
  BY <1>3, FS_CardinalityType DEF daysInYear

LEMMA IdleIsCall == Idle \in Call
<1>1. 0 \in Days
  BY ConstantsAssumption DEF Days
<1> QED
  BY <1>1 DEF Idle, Call, Ops, Points

\* The verdicts are statuses, and PENDING is none of them.
LEMMA VerdictStatus ==
    /\ Verdicts \subseteq Statuses
    /\ "PENDING" \in Statuses \ Verdicts
BY DEF Verdicts, Statuses

-----------------------------------------------------------------------------
(* What the step of a handler, c, does to the locals of all of them. *)

\* The tables may change under the handlers in flight as long as no balance
\* row goes, no charge is taken back, and a decision about to be logged stays a
\* decision; the new locals of c must fit the new tables.
LEMMA CallsStep ==
    ASSUME IInv, TypeOK', NEW c \in Calls, NEW x \in Call,
           calls' = [calls EXCEPT ![c] = x],
           DOMAIN balances \subseteq DOMAIN balances',
           \A b \in BalanceIds : charged[b] <= charged'[b],
           \A k \in Calls :
              calls[k].pc = "log" /\ calls[k].req \in DOMAIN requests'
              => requests'[calls[k].req].status \in Verdicts,
           \A k \in Calls \ {c} :
              calls[k].op = "generate" => calls[k].req \notin issued',
           LocalsOK(x), SnapshotOK(x)', DecisionOK(x)',
           x.req = None \/ x.req = calls[c].req
             \/ \A k \in Calls : calls[k].op = "generate" =>
                                    calls[k].req # x.req,
           x.op = "generate" =>
             /\ x.req \notin issued'
             /\ \A k \in Calls \ {c} : calls[k].req # x.req
    PROVE  CallsOK'
<1> USE DEF IInv
<1>1. calls'[c] = x /\ \A k \in Calls \ {c} : calls'[k] = calls[k]
  BY DEF TypeOK
<1>2. \A k \in Calls : (LocalsOK(calls[k]))'
  BY <1>1 DEF LocalsOK, CallsOK
<1>3. \A k \in Calls : (SnapshotOK(calls[k]))'
  <2>1. ASSUME NEW k \in Calls \ {c}, calls[k].pc = "charge"
        PROVE  /\ calls[k].bal \in DOMAIN balances'
               /\ calls[k].taken <= Allowance
               /\ calls[k].owed > 0 => calls[k].taken = Allowance
               /\ calls[k].taken + calls[k].owed <= charged'[calls[k].bal]
    <3>1. /\ calls[k].bal \in DOMAIN balances
          /\ calls[k].taken <= Allowance
          /\ calls[k].owed > 0 => calls[k].taken = Allowance
          /\ calls[k].taken + calls[k].owed <= charged[calls[k].bal]
      BY <2>1 DEF CallsOK, SnapshotOK
    <3>2. /\ calls[k].bal \in BalanceIds
          /\ calls[k].taken \in Nat /\ calls[k].owed \in Nat
          /\ charged[calls[k].bal] \in Nat /\ charged'[calls[k].bal] \in Nat
      BY <3>1 DEF TypeOK, Call
    <3> QED
      BY <3>1, <3>2
  <2> QED
    BY <2>1, <1>1 DEF SnapshotOK
<1>4. \A k \in Calls : (DecisionOK(calls[k]))'
  BY <1>1 DEF DecisionOK, Decided, Exists
<1>5. ASSUME NEW k \in Calls, NEW j \in Calls \ {k}, calls'[k].op = "generate"
      PROVE  calls'[j].req # calls'[k].req
  <2>1. CASE k = c
    BY <2>1, <1>1, <1>5
  <2>2. CASE k # c
    <3>1. /\ calls[k].op = "generate"
          /\ calls[k].req \in Requests
          /\ \A i \in Calls \ {k} : calls[i].req # calls[k].req
      BY <2>2, <1>1, <1>5 DEF CallsOK, FreshId, LocalsOK
    <3>2. calls[k].req # x.req
      BY <3>1, <2>2, ConstantsAssumption
    <3> QED
      BY <3>1, <3>2, <1>1, <2>2
  <2> QED
    BY <2>1, <2>2
<1>6. ASSUME NEW k \in Calls, calls'[k].op = "generate"
      PROVE  calls'[k].req \notin issued'
  BY <1>1, <1>6
<1> QED
  BY <1>2, <1>3, <1>4, <1>5, <1>6 DEF CallsOK, FreshId

\* The step of a handler that leaves the tables alone.
LEMMA QuietStep ==
    ASSUME IInv, NEW c \in Calls, NEW x \in Call,
           calls' = [calls EXCEPT ![c] = x],
           UNCHANGED <<requests, balances, logs, issued, charged>>,
           faults' \in 0..MaxFaults,
           LocalsOK(x), SnapshotOK(x), DecisionOK(x),
           x.req = None \/ x.req = calls[c].req
             \/ \A k \in Calls : calls[k].op = "generate" =>
                                    calls[k].req # x.req,
           x.op = "generate" =>
             /\ x.req \notin issued
             /\ \A k \in Calls \ {c} : calls[k].req # x.req
    PROVE  IInv'
<1> USE DEF IInv
<1>1. TypeOK'
  BY DEF TypeOK
<1>2. (DebtOnlyWhenExhausted /\ NoInventedDays /\ LoggedIsDecided)'
  BY DEF DebtOnlyWhenExhausted, NoInventedDays, LoggedIsDecided, Decided, Exists
<1>3. \A k \in Calls :
         calls[k].pc = "log" /\ calls[k].req \in DOMAIN requests
         => requests[calls[k].req].status \in Verdicts
  BY DEF CallsOK, DecisionOK, Decided, Exists
<1>4. \A k \in Calls \ {c} :
         calls[k].op = "generate" => calls[k].req \notin issued
  BY DEF CallsOK, FreshId
<1>5. \A b \in BalanceIds : charged[b] <= charged'[b]
  BY DEF TypeOK
<1>6. DOMAIN balances \subseteq DOMAIN balances'
  OBVIOUS
<1>7. SnapshotOK(x)' /\ DecisionOK(x)'
  BY DEF SnapshotOK, DecisionOK, Decided, Exists
<1>8. CallsOK'
  BY <1>1, <1>3, <1>4, <1>5, <1>6, <1>7, CallsStep
<1> QED
  BY <1>1, <1>2, <1>8

\* A handler that answers and has left the tables alone.
LEMMA ReturnStep ==
    ASSUME IInv, NEW c \in Calls, Return(c),
           UNCHANGED <<requests, balances, logs, issued, charged>>,
           faults' \in 0..MaxFaults
    PROVE  IInv'
<1>1. LocalsOK(Idle) /\ SnapshotOK(Idle) /\ DecisionOK(Idle)
  BY DEF Idle, LocalsOK, SnapshotOK, DecisionOK
<1>2. Idle.req = None /\ Idle.op # "generate"
  BY DEF Idle
<1> QED
  BY <1>1, <1>2, IdleIsCall, QuietStep DEF Return

\* The locals of a handler that moves to another point of its code.
LEMMA Moved ==
    ASSUME IInv, NEW c \in Calls, NEW x \in Call,
           calls[c].pc \notin {"idle", "erase"},
           x.pc # "idle",
           x.pc = "insert" => calls[c].op = "generate",
           x.op = calls[c].op, x.req = calls[c].req, x.user = calls[c].user
    PROVE  /\ LocalsOK(x)
           /\ x.op = "generate" =>
                /\ x.req \notin issued
                /\ \A k \in Calls \ {c} : calls[k].req # x.req
<1>1. LocalsOK(calls[c]) /\ FreshId(c)
  BY DEF IInv, CallsOK
<1> QED
  BY <1>1 DEF LocalsOK, FreshId

\* A handler that goes to another point and has left the tables alone.
LEMMA GotoStep ==
    ASSUME IInv, NEW c \in Calls,
           NEW p \in Points \ {"idle", "charge", "log"}, Goto(c, p),
           calls[c].pc \notin {"idle", "erase"},
           p = "insert" => calls[c].op = "generate",
           UNCHANGED <<requests, balances, logs, issued, charged, faults>>
    PROVE  IInv'
<1> DEFINE x == [calls[c] EXCEPT !.pc = p]
<1>1. calls[c] \in Call
  BY DEF IInv, TypeOK
<1>2. /\ x \in Call
      /\ x.pc = p /\ x.op = calls[c].op /\ x.req = calls[c].req
      /\ x.user = calls[c].user
  BY <1>1 DEF Call
<1>3. calls' = [calls EXCEPT ![c] = x]
  BY DEF Goto
<1>4. SnapshotOK(x) /\ DecisionOK(x)
  BY <1>2 DEF SnapshotOK, DecisionOK
<1>5. faults' \in 0..MaxFaults
  BY DEF IInv, TypeOK
<1> HIDE DEF x
<1>6. /\ LocalsOK(x)
      /\ x.op = "generate" =>
           /\ x.req \notin issued
           /\ \A k \in Calls \ {c} : calls[k].req # x.req
  BY <1>2, Moved
<1> QED
  BY <1>2, <1>3, <1>4, <1>5, <1>6, QuietStep

\* The locals of a handler that leaves a year of its loop behind.
LEMMA NextYearLocals ==
    ASSUME IInv, NEW c \in Calls, NEW y,
           NEW loop \in Points \ {"idle", "charge", "log", "insert"},
           NEW exit \in Points \ {"idle", "charge", "log", "insert"},
           calls[c].pc \notin {"idle", "erase"}, NextYear(c, y, loop, exit)
    PROVE  \E x \in Call :
             /\ calls' = [calls EXCEPT ![c] = x]
             /\ x.req = calls[c].req
             /\ x.pc \notin {"charge", "log"}
             /\ LocalsOK(x)
             /\ x.op = "generate" =>
                  /\ x.req \notin issued
                  /\ \A k \in Calls \ {c} : calls[k].req # x.req
<1> DEFINE rest == calls[c].todo \ {y}
           p == IF rest = {} THEN exit ELSE loop
           x == [calls[c] EXCEPT !.pc = p, !.todo = rest, !.bal = None,
                                 !.taken = 0, !.owed = 0]
<1>1. calls[c] \in Call
  BY DEF IInv, TypeOK
<1>2. rest \in SUBSET Years
  BY <1>1 DEF Call
<1>3. p \in Points \ {"idle", "charge", "log", "insert"}
  OBVIOUS
<1>4. calls' = [calls EXCEPT ![c] = x]
  BY DEF NextYear
<1> HIDE DEF rest, p
<1>5. /\ x \in Call
      /\ x.pc = p /\ x.op = calls[c].op /\ x.req = calls[c].req
      /\ x.user = calls[c].user
  BY <1>1, <1>2, <1>3 DEF Call
<1> HIDE DEF x
<1>6. /\ LocalsOK(x)
      /\ x.op = "generate" =>
           /\ x.req \notin issued
           /\ \A k \in Calls \ {c} : calls[k].req # x.req
  BY <1>3, <1>5, Moved
<1> QED
  BY <1>3, <1>4, <1>5, <1>6

LEMMA NextYearStep ==
    ASSUME IInv, NEW c \in Calls, NEW y,
           NEW loop \in Points \ {"idle", "charge", "log", "insert"},
           NEW exit \in Points \ {"idle", "charge", "log", "insert"},
           calls[c].pc \notin {"idle", "erase"}, NextYear(c, y, loop, exit),
           UNCHANGED <<requests, balances, logs, issued, charged, faults>>
    PROVE  IInv'
<1>1. PICK x \in Call :
        /\ calls' = [calls EXCEPT ![c] = x]
        /\ x.req = calls[c].req
        /\ x.pc \notin {"charge", "log"}
        /\ LocalsOK(x)
        /\ x.op = "generate" =>
             /\ x.req \notin issued
             /\ \A k \in Calls \ {c} : calls[k].req # x.req
  BY NextYearLocals
<1>2. SnapshotOK(x) /\ DecisionOK(x)
  BY <1>1 DEF SnapshotOK, DecisionOK
<1>3. faults' \in 0..MaxFaults
  BY DEF IInv, TypeOK
<1> QED
  BY <1>1, <1>2, <1>3, QuietStep

-----------------------------------------------------------------------------
(* The first statement of a handler. *)

\* A handler that starts on a request that exists.
LEMMA StartStep ==
    ASSUME IInv, NEW c \in Calls, NEW x \in Call, Start(c, x),
           x.op \notin {"none", "generate"},
           x.pc \notin {"idle", "charge", "log", "insert"},
           x.req \in DOMAIN requests, x.pc = "erase" \/ x.user \in Users,
           UNCHANGED <<requests, balances, logs, issued, charged, faults>>
    PROVE  IInv'
<1>1. x.req \in issued /\ x.req \in Requests
  BY DEF IInv, TypeOK
<1>2. \A k \in Calls : calls[k].op = "generate" => calls[k].req # x.req
  BY <1>1 DEF IInv, CallsOK, FreshId
<1>3. LocalsOK(x) /\ SnapshotOK(x) /\ DecisionOK(x)
  BY <1>1 DEF LocalsOK, SnapshotOK, DecisionOK
<1>4. faults' \in 0..MaxFaults
  BY DEF IInv, TypeOK
<1> QED
  BY <1>2, <1>3, <1>4, QuietStep DEF Start

LEMMA BeginGenerateInv ==
    ASSUME IInv, NEW c \in Calls, BeginGenerate(c)
    PROVE  IInv'
<1>1. PICK u \in Users, span \in Spans, r \in Requests \ issued :
        /\ \A k \in Calls : calls[k].req # r
        /\ Start(c, [Idle EXCEPT
             !.op = "generate", !.req = r, !.user = u,
             !.start = span[1], !.end = span[2],
             !.todo = splitYears(span[1], span[2]),
             !.pc = IF splitYears(span[1], span[2]) = {} THEN "findBalance"
                                                         ELSE "checkPending"])
  BY DEF BeginGenerate
<1> DEFINE years == splitYears(span[1], span[2])
           p == IF years = {} THEN "findBalance" ELSE "checkPending"
           x == [Idle EXCEPT
                   !.op = "generate", !.req = r, !.user = u,
                   !.start = span[1], !.end = span[2], !.todo = years,
                   !.pc = p]
<1>2. Start(c, x)
  BY <1>1
<1>3. span[1] \in Days /\ span[2] \in Days
  BY ConstantsAssumption
<1>4. years \in SUBSET Years
  BY <1>3, SplitYears
<1>5. p \in {"findBalance", "checkPending"}
  OBVIOUS
<1> HIDE DEF years, p
<1>6. p \in Points /\ "generate" \in Ops
  BY <1>5 DEF Points, Ops
<1>7. /\ x \in Call
      /\ x.op = "generate" /\ x.pc = p /\ x.req = r /\ x.user = u
  BY <1>3, <1>4, <1>6, IdleIsCall DEF Call
<1> HIDE DEF x
<1>8. LocalsOK(x) /\ SnapshotOK(x) /\ DecisionOK(x)
  BY <1>5, <1>7 DEF LocalsOK, SnapshotOK, DecisionOK
<1>9. faults' \in 0..MaxFaults
  BY DEF BeginGenerate, IInv, TypeOK
<1> QED
  BY <1>1, <1>2, <1>6, <1>7, <1>8, <1>9, QuietStep DEF Start, BeginGenerate

LEMMA BeginUpdateInv ==
    ASSUME IInv, NEW c \in Calls, BeginUpdate(c)
    PROVE  IInv'
<1>1. PICK r \in DOMAIN requests, u \in Users, span \in Spans :
        \E s \in {span[1], requests[r].start}, e \in {span[2], requests[r].end} :
          /\ Pending(r)
          /\ s <= e
          /\ Start(c, [Idle EXCEPT
               !.op = "update", !.pc = "checkPending", !.req = r, !.user = u,
               !.start = s, !.end = e, !.todo = splitYears(s, e)])
  BY DEF BeginUpdate
<1>2. PICK s \in {span[1], requests[r].start}, e \in {span[2], requests[r].end} :
        Start(c, [Idle EXCEPT
          !.op = "update", !.pc = "checkPending", !.req = r, !.user = u,
          !.start = s, !.end = e, !.todo = splitYears(s, e)])
  BY <1>1
<1> DEFINE years == splitYears(s, e)
           x == [Idle EXCEPT
                   !.op = "update", !.pc = "checkPending", !.req = r,
                   !.user = u, !.start = s, !.end = e, !.todo = years]
<1>3. Start(c, x)
  BY <1>2
<1>4. s \in Days /\ e \in Days /\ r \in Requests
  BY ConstantsAssumption DEF IInv, TypeOK, RequestRow
<1>5. years \in SUBSET Years /\ "update" \in Ops /\ "checkPending" \in Points
  BY <1>4, SplitYears DEF Ops, Points
<1> HIDE DEF years
<1>6. /\ x \in Call
      /\ x.op = "update" /\ x.pc = "checkPending" /\ x.req = r
      /\ x.user = u
  BY <1>4, <1>5, IdleIsCall DEF Call
<1> HIDE DEF x
<1> QED
  BY <1>3, <1>6, StartStep DEF BeginUpdate

LEMMA BeginProcessInv ==
    ASSUME IInv, NEW c \in Calls, BeginProcess(c)
    PROVE  IInv'
<1>1. PICK r \in DOMAIN requests :
        LET row == requests[r]
            call == [Idle EXCEPT !.req = r, !.user = row.user,
                                 !.start = row.start, !.end = row.end]
        IN  \/ Start(c, [call EXCEPT !.op = "reject", !.pc = "setStatus"])
            \/ Start(c, [call EXCEPT !.op = "approve", !.pc = "findBalance",
                             !.todo = splitYears(row.start, row.end)])
  BY DEF BeginProcess
<1> DEFINE row == requests[r]
           years == splitYears(row.start, row.end)
           call == [Idle EXCEPT !.req = r, !.user = row.user,
                                !.start = row.start, !.end = row.end]
           x == [call EXCEPT !.op = "reject", !.pc = "setStatus"]
           y == [call EXCEPT !.op = "approve", !.pc = "findBalance",
                             !.todo = years]
<1>2. Start(c, x) \/ Start(c, y)
  BY <1>1
<1>3. row.start \in Days /\ row.end \in Days /\ row.user \in Users
      /\ r \in Requests
  BY DEF IInv, TypeOK, RequestRow
<1>4. years \in SUBSET Years
  BY <1>3, SplitYears
<1> HIDE DEF row, years
<1>5. call \in Call /\ call.req = r /\ call.user = row.user
  BY <1>3, IdleIsCall DEF Call
<1> HIDE DEF call
<1>6. {"reject", "approve"} \subseteq Ops
      /\ {"setStatus", "findBalance"} \subseteq Points
  BY DEF Ops, Points
<1>7. CASE Start(c, x)
  <2>1. /\ x \in Call
        /\ x.op = "reject" /\ x.pc = "setStatus" /\ x.req = r
        /\ x.user = row.user
    BY <1>5, <1>6 DEF Call
  <2> HIDE DEF x
  <2> QED
    BY <2>1, <1>3, <1>7, StartStep DEF BeginProcess
<1>8. CASE Start(c, y)
  <2>1. /\ y \in Call
        /\ y.op = "approve" /\ y.pc = "findBalance" /\ y.req = r
        /\ y.user = row.user
    BY <1>4, <1>5, <1>6 DEF Call
  <2> HIDE DEF y
  <2> QED
    BY <2>1, <1>3, <1>8, StartStep DEF BeginProcess
<1> QED
  BY <1>2, <1>7, <1>8

LEMMA BeginDeleteInv ==
    ASSUME IInv, NEW c \in Calls, BeginDelete(c)
    PROVE  IInv'
<1>1. PICK r \in DOMAIN requests :
        Start(c, [Idle EXCEPT !.op = "delete", !.pc = "erase", !.req = r])
  BY DEF BeginDelete
<1> DEFINE x == [Idle EXCEPT !.op = "delete", !.pc = "erase", !.req = r]
<1>2. Start(c, x)
  BY <1>1
<1>3. r \in Requests
  BY DEF IInv, TypeOK
<1>4. "delete" \in Ops /\ "erase" \in Points
  BY DEF Ops, Points
<1>5. x \in Call /\ x.op = "delete" /\ x.pc = "erase" /\ x.req = r
  BY <1>3, <1>4, IdleIsCall DEF Call
<1> HIDE DEF x
<1> QED
  BY <1>2, <1>5, StartStep DEF BeginDelete

LEMMA BeginViewInv ==
    ASSUME IInv, NEW c \in Calls, BeginView(c)
    PROVE  IInv'
<1>1. PICK r \in DOMAIN requests :
        Start(c, [Idle EXCEPT
          !.op = "view", !.pc = "findBalance", !.req = r,
          !.user = requests[r].user, !.start = requests[r].start,
          !.end = requests[r].end])
  BY DEF BeginView
<1> DEFINE row == requests[r]
           x == [Idle EXCEPT
                   !.op = "view", !.pc = "findBalance", !.req = r,
                   !.user = row.user, !.start = row.start, !.end = row.end]
<1>2. Start(c, x)
  BY <1>1
<1>3. row.start \in Days /\ row.end \in Days /\ row.user \in Users
      /\ r \in Requests
  BY DEF IInv, TypeOK, RequestRow
<1>4. "view" \in Ops /\ "findBalance" \in Points
  BY DEF Ops, Points
<1> HIDE DEF row
<1>5. /\ x \in Call
      /\ x.op = "view" /\ x.pc = "findBalance" /\ x.req = r
      /\ x.user = row.user
  BY <1>3, <1>4, IdleIsCall DEF Call
<1> HIDE DEF x
<1> QED
  BY <1>2, <1>3, <1>5, StartStep DEF BeginView

-----------------------------------------------------------------------------
(* The statements that only read. *)

LEMMA CheckInv ==
    ASSUME IInv, NEW c \in Calls,
           \/ GenerateCheckPending(c) \/ GenerateCheckOverlap(c)
           \/ UpdateCheckPending(c) \/ UpdateCheckOverlap(c)
    PROVE  IInv'
<1>1. UNCHANGED <<requests, balances, logs, issued, charged, faults>>
  BY DEF GenerateCheckPending, GenerateCheckOverlap, UpdateCheckPending,
         UpdateCheckOverlap
<1>2. calls[c].pc \notin {"idle", "erase"}
  BY DEF GenerateCheckPending, GenerateCheckOverlap, UpdateCheckPending,
         UpdateCheckOverlap, At
<1>3. \/ Return(c)
      \/ Goto(c, "checkOverlap")
      \/ \E y : NextYear(c, y, "checkPending", "findBalance")
      \/ \E y : NextYear(c, y, "checkPending", "write")
  BY DEF GenerateCheckPending, GenerateCheckOverlap, UpdateCheckPending,
         UpdateCheckOverlap
<1>4. {"checkOverlap", "checkPending", "findBalance", "write"}
        \subseteq Points \ {"idle", "charge", "log", "insert"}
  BY DEF Points
<1>5. faults' \in 0..MaxFaults
  BY <1>1 DEF IInv, TypeOK
<1>6. CASE Return(c)
  BY <1>1, <1>5, <1>6, ReturnStep
<1>7. CASE Goto(c, "checkOverlap")
  BY <1>1, <1>2, <1>4, <1>7, GotoStep
<1>8. CASE \E y : NextYear(c, y, "checkPending", "findBalance")
  BY <1>1, <1>2, <1>4, <1>8, NextYearStep
<1>9. CASE \E y : NextYear(c, y, "checkPending", "write")
  BY <1>1, <1>2, <1>4, <1>9, NextYearStep
<1> QED
  BY <1>3, <1>6, <1>7, <1>8, <1>9

LEMMA FindBalanceInv ==
    ASSUME IInv, NEW c \in Calls, FindBalance(c)
    PROVE  IInv'
<1>1. UNCHANGED <<requests, balances, logs, issued, charged, faults>>
  BY DEF FindBalance
<1>2. calls[c].pc \notin {"idle", "erase"}
  BY DEF FindBalance, At
<1>3. \/ Return(c)
      \/ \E p \in {"createBalance", "setStatus", "settleFind"} : Goto(c, p)
      \/ Goto(c, "insert") /\ calls[c].op = "generate"
  BY DEF FindBalance, AfterBalance
<1>4. {"createBalance", "setStatus", "settleFind", "insert"}
        \subseteq Points \ {"idle", "charge", "log"}
  BY DEF Points
<1>5. faults' \in 0..MaxFaults
  BY <1>1 DEF IInv, TypeOK
<1>6. CASE Return(c)
  BY <1>1, <1>5, <1>6, ReturnStep
<1>7. ASSUME NEW p \in {"createBalance", "setStatus", "settleFind"}, Goto(c, p)
      PROVE  IInv'
  BY <1>1, <1>2, <1>4, <1>7, GotoStep
<1>8. CASE Goto(c, "insert") /\ calls[c].op = "generate"
  BY <1>1, <1>2, <1>4, <1>8, GotoStep
<1> QED
  BY <1>3, <1>6, <1>7, <1>8

LEMMA AbortInv ==
    ASSUME IInv, NEW c \in Calls, Abort(c)
    PROVE  IInv'
<1>1. faults' \in 0..MaxFaults
  BY ConstantsAssumption DEF Abort, IInv, TypeOK
<1> QED
  BY <1>1, ReturnStep DEF Abort

\* A balance is sound in every row, so it is sound as a settlement reads it.
LEMMA SettleFindInv ==
    ASSUME IInv, NEW c \in Calls, SettleFind(c)
    PROVE  IInv'
<1>1. UNCHANGED <<requests, balances, logs, issued, charged, faults>>
  BY DEF SettleFind
<1>2. calls[c].pc = "settleFind"
  BY DEF SettleFind, At
<1>3. \/ Goto(c, "settleCreate")
      \/ \E b \in DOMAIN balances :
           Hold(c, b, balances[b].taken, balances[b].owed)
  BY DEF SettleFind, BalancesFor
<1>4. CASE Goto(c, "settleCreate")
  <2>1. "settleCreate" \in Points \ {"idle", "charge", "log"}
    BY DEF Points
  <2> QED
    BY <1>1, <1>2, <1>4, <2>1, GotoStep
<1>5. ASSUME NEW b \in DOMAIN balances,
             Hold(c, b, balances[b].taken, balances[b].owed)
      PROVE  IInv'
  <2> DEFINE taken == balances[b].taken
             owed == balances[b].owed
             x == [calls[c] EXCEPT !.pc = "charge", !.bal = b,
                                   !.taken = taken, !.owed = owed]
  <2>1. /\ b \in BalanceIds /\ taken \in Nat /\ owed \in Nat
        /\ calls[c] \in Call
    BY DEF IInv, TypeOK, BalanceRow
  <2>2. /\ taken <= Allowance
        /\ owed > 0 => taken = Allowance
        /\ taken + owed <= charged[b]
    BY DEF IInv, DebtOnlyWhenExhausted, NoInventedDays
  <2>3. calls' = [calls EXCEPT ![c] = x]
    BY <1>5 DEF Hold
  <2>4. "charge" \in Points
    BY DEF Points
  <2> HIDE DEF taken, owed
  <2>5. /\ x \in Call
        /\ x.pc = "charge" /\ x.op = calls[c].op /\ x.req = calls[c].req
        /\ x.user = calls[c].user
        /\ x.bal = b /\ x.taken = taken /\ x.owed = owed
    BY <2>1, <2>4 DEF Call
  <2> HIDE DEF x
  <2>6. SnapshotOK(x) /\ DecisionOK(x)
    BY <2>2, <2>5 DEF SnapshotOK, DecisionOK
  <2>7. /\ LocalsOK(x)
        /\ x.op = "generate" =>
             /\ x.req \notin issued
             /\ \A k \in Calls \ {c} : calls[k].req # x.req
    BY <2>5, <1>2, Moved
  <2>8. faults' \in 0..MaxFaults
    BY <1>1 DEF IInv, TypeOK
  <2> QED
    BY <1>1, <2>3, <2>5, <2>6, <2>7, <2>8, QuietStep
<1> QED
  BY <1>3, <1>4, <1>5

-----------------------------------------------------------------------------
(* The statements that write a table. *)

\* A handler that writes a table and answers.
LEMMA ReturnCalls ==
    ASSUME IInv, TypeOK', NEW c \in Calls, Return(c),
           DOMAIN balances \subseteq DOMAIN balances',
           \A b \in BalanceIds : charged[b] <= charged'[b],
           \A k \in Calls :
              calls[k].pc = "log" /\ calls[k].req \in DOMAIN requests'
              => requests'[calls[k].req].status \in Verdicts,
           \A k \in Calls \ {c} :
              calls[k].op = "generate" => calls[k].req \notin issued'
    PROVE  CallsOK'
<1>1. LocalsOK(Idle) /\ SnapshotOK(Idle)' /\ DecisionOK(Idle)'
  BY DEF Idle, LocalsOK, SnapshotOK, DecisionOK
<1>2. Idle.req = None /\ Idle.op # "generate"
  BY DEF Idle
<1> QED
  BY <1>1, <1>2, IdleIsCall, CallsStep DEF Return

\* What the tables and the locals say of the requests now.
LEMMA NowOK ==
    ASSUME IInv
    PROVE  /\ \A b \in BalanceIds : charged[b] <= charged[b]
           /\ \A k \in Calls :
                calls[k].pc = "log" /\ calls[k].req \in DOMAIN requests
                => requests[calls[k].req].status \in Verdicts
           /\ \A k \in Calls :
                calls[k].op = "generate" => calls[k].req \notin issued
           /\ \A r \in Requests : logs[r] # <<>> =>
                r \in DOMAIN requests /\ requests[r].status \in Verdicts
<1>1. \A b \in BalanceIds : charged[b] <= charged[b]
  BY DEF IInv, TypeOK
<1>2. \A k \in Calls : DecisionOK(calls[k]) /\ FreshId(k)
  BY DEF IInv, CallsOK
<1> QED
  BY <1>1, <1>2 DEF IInv, LoggedIsDecided, DecisionOK, FreshId, Decided, Exists

LEMMA InsertRequestInv ==
    ASSUME IInv, NEW c \in Calls, InsertRequest(c)
    PROVE  IInv'
<1> DEFINE r == calls[c].req
           row == [user |-> calls[c].user, start |-> calls[c].start,
                   end |-> calls[c].end, status |-> "PENDING"]
<1>1. /\ requests' = Put(requests, r, row)
      /\ issued' = issued \cup {r}
      /\ Return(c)
      /\ UNCHANGED <<balances, logs, charged, faults>>
      /\ calls[c].pc = "insert"
  BY DEF InsertRequest, At
<1>2. /\ calls[c] \in Call
      /\ calls[c].user \in Users
      /\ r \in Requests
      /\ r \notin issued
      /\ \A k \in Calls \ {c} : calls[k].req # r
  BY <1>1 DEF IInv, TypeOK, CallsOK, LocalsOK, FreshId
<1>3. row \in RequestRow
  BY <1>2, VerdictStatus DEF RequestRow, Call
<1> HIDE DEF row
<1>4. /\ DOMAIN requests' = DOMAIN requests \cup {r}
      /\ requests'[r] = row
      /\ \A q \in DOMAIN requests \ {r} : requests'[q] = requests[q]
  BY <1>1 DEF Put
<1>5. r \notin DOMAIN requests
  BY <1>2 DEF IInv, TypeOK
<1>6. calls' \in [Calls -> Call]
  BY <1>1, IdleIsCall DEF IInv, TypeOK, Return
<1>7. TypeOK'
  BY <1>1, <1>2, <1>3, <1>4, <1>5, <1>6 DEF IInv, TypeOK
<1>8. (DebtOnlyWhenExhausted /\ NoInventedDays)'
  BY <1>1 DEF IInv, DebtOnlyWhenExhausted, NoInventedDays
<1>9. LoggedIsDecided'
  BY <1>1, <1>4, <1>5, NowOK DEF LoggedIsDecided, Decided, Exists
<1>10. \A k \in Calls :
          calls[k].pc = "log" /\ calls[k].req \in DOMAIN requests'
          => requests'[calls[k].req].status \in Verdicts
  BY <1>1, <1>2, <1>4, <1>5, NowOK
<1>11. \A k \in Calls \ {c} :
          calls[k].op = "generate" => calls[k].req \notin issued'
  BY <1>1, <1>2, NowOK
<1>12. CallsOK'
  BY <1>1, <1>7, <1>10, <1>11, NowOK, ReturnCalls
<1> QED
  BY <1>7, <1>8, <1>9, <1>12 DEF IInv

\* An update leaves the status of its row alone, so a decision stays one.
LEMMA WriteRequestInv ==
    ASSUME IInv, NEW c \in Calls, WriteRequest(c)
    PROVE  IInv'
<1> DEFINE r == calls[c].req
<1>1. /\ Return(c)
      /\ UNCHANGED <<balances, logs, issued, charged, faults>>
      /\ calls[c].pc = "write"
  BY DEF WriteRequest, At
<1>2. calls[c] \in Call /\ calls[c].user \in Users
  BY <1>1 DEF IInv, TypeOK, CallsOK, LocalsOK
<1>3. /\ DOMAIN requests' = DOMAIN requests
      /\ \A q \in DOMAIN requests :
           /\ requests'[q] \in RequestRow
           /\ requests'[q].status = requests[q].status
  <2>1. CASE ~Exists(r)
    BY <2>1 DEF WriteRequest, IInv, TypeOK
  <2>2. CASE Exists(r)
    <3> DEFINE row == [requests[r] EXCEPT !.user = calls[c].user,
                                          !.start = calls[c].start,
                                          !.end = calls[c].end]
    <3>1. requests' = [requests EXCEPT ![r] = row]
      BY <2>2 DEF WriteRequest
    <3>2. requests[r] \in RequestRow
      BY <2>2 DEF Exists, IInv, TypeOK
    <3>3. /\ calls[c].user \in Users /\ calls[c].start \in Days
          /\ calls[c].end \in Days
      BY <1>2 DEF Call
    <3>4. row \in RequestRow /\ row.status = requests[r].status
      BY <3>2, <3>3 DEF RequestRow
    <3> HIDE DEF row
    <3> QED
      BY <3>1, <3>4 DEF IInv, TypeOK
  <2> QED
    BY <2>1, <2>2
<1>4. calls' \in [Calls -> Call]
  BY <1>1, IdleIsCall DEF IInv, TypeOK, Return
<1>5. TypeOK'
  BY <1>1, <1>3, <1>4 DEF IInv, TypeOK
<1>6. (DebtOnlyWhenExhausted /\ NoInventedDays)'
  BY <1>1 DEF IInv, DebtOnlyWhenExhausted, NoInventedDays
<1>7. LoggedIsDecided'
  BY <1>1, <1>3, NowOK DEF LoggedIsDecided, Decided, Exists
<1>8. CallsOK'
  BY <1>1, <1>3, <1>5, NowOK, ReturnCalls
<1> QED
  BY <1>5, <1>6, <1>7, <1>8 DEF IInv

\* A request with a log entry is not erased.
LEMMA EraseRequestInv ==
    ASSUME IInv, NEW c \in Calls, EraseRequest(c)
    PROVE  IInv'
<1>1. /\ Return(c)
      /\ UNCHANGED <<balances, logs, issued, charged, faults>>
      /\ calls[c].pc = "erase"
  BY DEF EraseRequest, At
<1>2. /\ DOMAIN requests' \subseteq DOMAIN requests
      /\ \A q \in DOMAIN requests' : requests'[q] = requests[q]
      /\ \A q \in DOMAIN requests : logs[q] # <<>> => q \in DOMAIN requests'
  BY DEF EraseRequest, Remove
<1>3. calls' \in [Calls -> Call]
  BY <1>1, IdleIsCall DEF IInv, TypeOK, Return
<1>4. TypeOK'
  BY <1>1, <1>2, <1>3 DEF IInv, TypeOK
<1>5. (DebtOnlyWhenExhausted /\ NoInventedDays)'
  BY <1>1 DEF IInv, DebtOnlyWhenExhausted, NoInventedDays
<1>6. LoggedIsDecided'
  BY <1>1, <1>2, NowOK DEF LoggedIsDecided, Decided, Exists
<1>7. CallsOK'
  BY <1>1, <1>2, <1>4, NowOK, ReturnCalls
<1> QED
  BY <1>4, <1>5, <1>6, <1>7 DEF IInv

\* The status of a request that has left PENDING never goes back to it.
LEMMA SetStatusInv ==
    ASSUME IInv, NEW c \in Calls, NEW op \in Ops \ {"none"},
           NEW verdict \in Verdicts, SetStatus(c, op, verdict)
    PROVE  IInv'
<1> DEFINE r == calls[c].req
           next == [calls[c] EXCEPT !.pc = "log"]
<1>1. /\ UNCHANGED <<balances, logs, issued, charged, faults>>
      /\ calls[c].pc = "setStatus" /\ calls[c].op = op
  BY DEF SetStatus, At
<1>2. CASE ~Exists(r)
  <2>1. Return(c) /\ UNCHANGED requests
    BY <1>2 DEF SetStatus
  <2>2. faults' \in 0..MaxFaults
    BY <1>1 DEF IInv, TypeOK
  <2> QED
    BY <1>1, <2>1, <2>2, ReturnStep
<1>3. CASE Exists(r)
  <2>1. /\ requests' = [requests EXCEPT ![r].status = verdict]
        /\ calls' = [calls EXCEPT ![c] = next]
    BY <1>3 DEF SetStatus, Goto
  <2>2. verdict \in Statuses
    BY VerdictStatus
  <2>3. /\ DOMAIN requests' = DOMAIN requests
        /\ r \in DOMAIN requests
        /\ requests'[r] \in RequestRow
        /\ requests'[r].status = verdict
        /\ \A q \in DOMAIN requests \ {r} : requests'[q] = requests[q]
    <3>1. requests[r] \in RequestRow
      BY <1>3 DEF Exists, IInv, TypeOK
    <3> QED
      BY <3>1, <1>3, <2>1, <2>2 DEF Exists, RequestRow
  <2>4. calls[c] \in Call /\ "log" \in Points
    BY DEF IInv, TypeOK, Points
  <2>4a. /\ next \in Call
        /\ next.pc = "log" /\ next.op = calls[c].op
        /\ next.req = calls[c].req /\ next.user = calls[c].user
    BY <2>4 DEF Call
  <2> HIDE DEF next
  <2>5. PICK x \in Call :
          /\ calls' = [calls EXCEPT ![c] = x]
          /\ x.pc = "log" /\ x.op = calls[c].op /\ x.req = calls[c].req
          /\ x.user = calls[c].user
    BY <2>1, <2>4a
  <2>6. calls' \in [Calls -> Call]
    BY <2>5 DEF IInv, TypeOK
  <2>7. TypeOK'
    BY <1>1, <2>3, <2>6 DEF IInv, TypeOK
  <2>8. (DebtOnlyWhenExhausted /\ NoInventedDays)'
    BY <1>1 DEF IInv, DebtOnlyWhenExhausted, NoInventedDays
  <2>9. LoggedIsDecided'
    BY <1>1, <2>3, NowOK DEF LoggedIsDecided, Decided, Exists
  <2>10. /\ LocalsOK(x)
         /\ x.op = "generate" =>
              /\ x.req \notin issued
              /\ \A k \in Calls \ {c} : calls[k].req # x.req
    BY <1>1, <2>5, Moved
  <2>11. SnapshotOK(x)' /\ DecisionOK(x)'
    BY <2>3, <2>5 DEF SnapshotOK, DecisionOK, Decided, Exists
  <2>12. \A k \in Calls :
            calls[k].pc = "log" /\ calls[k].req \in DOMAIN requests'
            => requests'[calls[k].req].status \in Verdicts
    BY <2>3, NowOK
  <2>13. CallsOK'
    BY <1>1, <2>5, <2>7, <2>10, <2>11, <2>12, NowOK, CallsStep
  <2> QED
    BY <2>7, <2>8, <2>9, <2>13 DEF IInv
<1> QED
  BY <1>2, <1>3

\* An entry goes to the log of a request that exists and has been decided.
LEMMA InsertLogInv ==
    ASSUME IInv, NEW c \in Calls, NEW op \in Ops \ {"none"},
           NEW verdict \in Verdicts, InsertLog(c, op, verdict),
           Return(c) \/ Goto(c, "findBalance")
    PROVE  IInv'
<1> DEFINE r == calls[c].req
           next == [calls[c] EXCEPT !.pc = "findBalance"]
<1>1. /\ UNCHANGED <<requests, balances, issued, charged, faults>>
      /\ calls[c].pc = "log"
  BY DEF InsertLog, At
<1>2. calls[c] \in Call /\ r \in Requests /\ "findBalance" \in Points
  BY <1>1 DEF IInv, TypeOK, CallsOK, LocalsOK, Points
<1>3. /\ logs' \in [Requests -> Seq(Verdicts)]
      /\ \A q \in Requests : logs'[q] # <<>> => logs[q] # <<>> \/ q = r
      /\ logs'[r] # <<>> => logs[r] # <<>> \/ Exists(r)
  BY <1>2 DEF InsertLog, IInv, TypeOK
<1>4. /\ next \in Call
      /\ next.pc = "findBalance" /\ next.op = calls[c].op
      /\ next.req = calls[c].req /\ next.user = calls[c].user
  BY <1>2 DEF Call
<1>5. Return(c) \/ calls' = [calls EXCEPT ![c] = next]
  BY DEF Goto
<1> HIDE DEF next
<1>6. calls' \in [Calls -> Call]
  BY <1>4, <1>5, IdleIsCall DEF IInv, TypeOK, Return
<1>7. TypeOK'
  BY <1>1, <1>3, <1>6 DEF IInv, TypeOK
<1>8. (DebtOnlyWhenExhausted /\ NoInventedDays)'
  BY <1>1 DEF IInv, DebtOnlyWhenExhausted, NoInventedDays
<1>9. LoggedIsDecided'
  BY <1>1, <1>3, NowOK DEF LoggedIsDecided, Decided, Exists
<1>10. CallsOK'
  <2>1. CASE Return(c)
    BY <1>1, <1>7, <2>1, NowOK, ReturnCalls
  <2>2. CASE calls' = [calls EXCEPT ![c] = next]
    <3>0. PICK x \in Call :
            /\ calls' = [calls EXCEPT ![c] = x]
            /\ x.pc = "findBalance" /\ x.op = calls[c].op
            /\ x.req = calls[c].req /\ x.user = calls[c].user
      BY <1>4, <2>2
    <3>1. /\ LocalsOK(x)
          /\ x.op = "generate" =>
               /\ x.req \notin issued
               /\ \A k \in Calls \ {c} : calls[k].req # x.req
      BY <1>1, <3>0, Moved
    <3>2. SnapshotOK(x)' /\ DecisionOK(x)'
      BY <3>0 DEF SnapshotOK, DecisionOK
    <3> QED
      BY <1>1, <1>7, <3>0, <3>1, <3>2, NowOK, CallsStep
  <2> QED
    BY <1>5, <2>1, <2>2
<1> QED
  BY <1>7, <1>8, <1>9, <1>10 DEF IInv

\* A new balance row: nothing taken, nothing owed, nothing charged yet.
LEMMA NewBalanceTables ==
    ASSUME IInv, NEW b \in BalanceIds \ DOMAIN balances,
           NEW u \in Users, NEW y \in Years,
           balances' = Put(balances, b, NewBalance(u, y)),
           UNCHANGED <<requests, logs, issued, charged, faults>>,
           calls' \in [Calls -> Call]
    PROVE  /\ TypeOK'
           /\ (DebtOnlyWhenExhausted /\ NoInventedDays /\ LoggedIsDecided)'
           /\ DOMAIN balances \subseteq DOMAIN balances'
           /\ b \in DOMAIN balances'
<1> DEFINE row == NewBalance(u, y)
<1>1. row \in BalanceRow /\ row.taken = 0 /\ row.owed = 0
  BY DEF NewBalance, BalanceRow
<1> HIDE DEF row
<1>2. /\ DOMAIN balances' = DOMAIN balances \cup {b}
      /\ balances'[b] = row
      /\ \A d \in DOMAIN balances : balances'[d] = balances[d]
  BY DEF Put, row
<1>3. TypeOK'
  BY <1>1, <1>2 DEF IInv, TypeOK
<1>4. DebtOnlyWhenExhausted'
  BY <1>1, <1>2, ConstantsAssumption DEF IInv, DebtOnlyWhenExhausted
<1>5. NoInventedDays'
  BY <1>1, <1>2 DEF IInv, TypeOK, NoInventedDays
<1>6. LoggedIsDecided'
  BY NowOK DEF LoggedIsDecided, Decided, Exists
<1> QED
  BY <1>2, <1>3, <1>4, <1>5, <1>6

LEMMA YearOfDay == \A d \in Days : YearOf[d] \in Years
BY DEF Years

LEMMA CreateBalanceInv ==
    ASSUME IInv, NEW c \in Calls, CreateBalance(c)
    PROVE  IInv'
<1>1. PICK b \in BalanceIds \ DOMAIN balances :
        balances' = Put(balances, b, NewBalance(calls[c].user,
                                                YearOf[calls[c].start]))
  BY DEF CreateBalance
<1>2. /\ UNCHANGED <<requests, logs, issued, charged, faults>>
      /\ calls[c].pc = "createBalance"
      /\ AfterBalance(c)
  BY DEF CreateBalance, At
<1>3. /\ calls[c] \in Call
      /\ calls[c].user \in Users
      /\ YearOf[calls[c].start] \in Years
  BY <1>2, YearOfDay DEF IInv, TypeOK, CallsOK, LocalsOK, Call
<1>4. \/ Return(c)
      \/ \E p \in {"insert", "setStatus", "settleFind"} :
           Goto(c, p) /\ (p = "insert" => calls[c].op = "generate")
  BY <1>2 DEF AfterBalance
<1>5. CASE Return(c)
  <2>1. calls' \in [Calls -> Call]
    BY <1>5, IdleIsCall DEF IInv, TypeOK, Return
  <2>2. /\ TypeOK'
        /\ (DebtOnlyWhenExhausted /\ NoInventedDays /\ LoggedIsDecided)'
        /\ DOMAIN balances \subseteq DOMAIN balances'
    BY <1>1, <1>2, <1>3, <2>1, NewBalanceTables
  <2>3. CallsOK'
    BY <1>2, <1>5, <2>2, NowOK, ReturnCalls
  <2> QED
    BY <2>2, <2>3 DEF IInv
<1>6. ASSUME NEW p \in {"insert", "setStatus", "settleFind"}, Goto(c, p),
             p = "insert" => calls[c].op = "generate"
      PROVE  IInv'
  <2> DEFINE next == [calls[c] EXCEPT !.pc = p]
  <2>1. p \in Points
    BY DEF Points
  <2>2. /\ next \in Call
        /\ next.pc = p /\ next.op = calls[c].op /\ next.req = calls[c].req
        /\ next.user = calls[c].user
    BY <1>3, <2>1 DEF Call
  <2>3. calls' = [calls EXCEPT ![c] = next]
    BY <1>6 DEF Goto
  <2> HIDE DEF next
  <2>4. PICK x \in Call :
          /\ calls' = [calls EXCEPT ![c] = x]
          /\ x.pc = p /\ x.op = calls[c].op /\ x.req = calls[c].req
          /\ x.user = calls[c].user
    BY <2>2, <2>3
  <2>5. calls' \in [Calls -> Call]
    BY <2>4 DEF IInv, TypeOK
  <2>6. /\ TypeOK'
        /\ (DebtOnlyWhenExhausted /\ NoInventedDays /\ LoggedIsDecided)'
        /\ DOMAIN balances \subseteq DOMAIN balances'
    BY <1>1, <1>2, <1>3, <2>5, NewBalanceTables
  <2>7. /\ LocalsOK(x)
        /\ x.op = "generate" =>
             /\ x.req \notin issued
             /\ \A k \in Calls \ {c} : calls[k].req # x.req
    BY <1>2, <1>6, <2>4, Moved
  <2>8. SnapshotOK(x)' /\ DecisionOK(x)'
    BY <2>4 DEF SnapshotOK, DecisionOK
  <2>9. CallsOK'
    BY <1>2, <2>4, <2>6, <2>7, <2>8, NowOK, CallsStep
  <2> QED
    BY <2>6, <2>9 DEF IInv
<1> QED
  BY <1>4, <1>5, <1>6

LEMMA SettleCreateInv ==
    ASSUME IInv, NEW c \in Calls, SettleCreate(c)
    PROVE  IInv'
<1>1. PICK y \in calls[c].todo, b \in BalanceIds \ DOMAIN balances :
        /\ balances' = Put(balances, b, NewBalance(calls[c].user, y))
        /\ Hold(c, b, 0, 0)
  BY DEF SettleCreate
<1>2. /\ UNCHANGED <<requests, logs, issued, charged, faults>>
      /\ calls[c].pc = "settleCreate"
  BY DEF SettleCreate, At
<1>3. /\ calls[c] \in Call
      /\ calls[c].user \in Users
      /\ y \in Years
  BY <1>2 DEF IInv, TypeOK, CallsOK, LocalsOK, Call
<1> DEFINE next == [calls[c] EXCEPT !.pc = "charge", !.bal = b,
                                    !.taken = 0, !.owed = 0]
<1>4. "charge" \in Points
  BY DEF Points
<1>5. /\ next \in Call
      /\ next.pc = "charge" /\ next.op = calls[c].op
      /\ next.req = calls[c].req /\ next.user = calls[c].user
      /\ next.bal = b /\ next.taken = 0 /\ next.owed = 0
  BY <1>3, <1>4 DEF Call
<1>6. calls' = [calls EXCEPT ![c] = next]
  BY <1>1 DEF Hold
<1> HIDE DEF next
<1>7. PICK x \in Call :
        /\ calls' = [calls EXCEPT ![c] = x]
        /\ x.pc = "charge" /\ x.op = calls[c].op /\ x.req = calls[c].req
        /\ x.user = calls[c].user
        /\ x.bal = b /\ x.taken = 0 /\ x.owed = 0
  BY <1>5, <1>6
<1>8. calls' \in [Calls -> Call]
  BY <1>7 DEF IInv, TypeOK
<1>9. /\ TypeOK'
      /\ (DebtOnlyWhenExhausted /\ NoInventedDays /\ LoggedIsDecided)'
      /\ DOMAIN balances \subseteq DOMAIN balances'
      /\ b \in DOMAIN balances'
  BY <1>1, <1>2, <1>3, <1>8, NewBalanceTables
<1>10. /\ LocalsOK(x)
       /\ x.op = "generate" =>
            /\ x.req \notin issued
            /\ \A k \in Calls \ {c} : calls[k].req # x.req
  BY <1>2, <1>7, Moved
<1>11. charged'[b] \in Nat
  BY <1>9 DEF TypeOK
<1>12. SnapshotOK(x)' /\ DecisionOK(x)'
  BY <1>7, <1>9, <1>11, ConstantsAssumption DEF SnapshotOK, DecisionOK
<1>13. CallsOK'
  BY <1>2, <1>7, <1>9, <1>10, <1>12, NowOK, CallsStep
<1> QED
  BY <1>9, <1>13 DEF IInv

\* A settlement splits a sound balance into a sound one, and puts on it no more
\* than the days it adds.
LEMMA SettledRow ==
    ASSUME NEW row \in BalanceRow, NEW taken \in Nat, NEW owed \in Nat,
           NEW days \in Nat, taken <= Allowance, owed > 0 => taken = Allowance
    PROVE  LET new == Settled(row, taken, owed, days)
           IN  /\ new \in BalanceRow
               /\ new.taken <= Allowance
               /\ new.owed > 0 => new.taken = Allowance
               /\ new.taken + new.owed = taken + owed + days
<1> DEFINE total == taken + days
           excess == Excess(total)
<1>1. Allowance \in Nat
  BY ConstantsAssumption
<1>2. /\ total \in Nat /\ excess \in Nat /\ total - excess \in Nat
      /\ total - excess <= Allowance
      /\ excess > 0 => total - excess = Allowance
  BY <1>1 DEF Excess
<1>3. owed > 0 => total - excess = Allowance
  BY <1>1 DEF Excess
<1> DEFINE newTaken == total - excess
           newOwed == owed + excess
           new == [row EXCEPT !.taken = newTaken, !.owed = newOwed]
<1>4. new = Settled(row, taken, owed, days)
  BY DEF Settled
<1>5. newTaken \in Nat /\ newOwed \in Nat
      /\ newTaken + newOwed = taken + owed + days
  BY <1>2
<1>6. newTaken <= Allowance /\ (newOwed > 0 => newTaken = Allowance)
  BY <1>2, <1>3
<1> HIDE DEF newTaken, newOwed
<1>7. new \in BalanceRow /\ new.taken = newTaken /\ new.owed = newOwed
  BY <1>5 DEF BalanceRow
<1> QED
  BY <1>4, <1>5, <1>6, <1>7

\* The row gets what the settlement made of its snapshot; the snapshot was
\* sound, whatever has been written to the row since.
LEMMA ChargeInv ==
    ASSUME IInv, NEW c \in Calls, Charge(c)
    PROVE  IInv'
<1> DEFINE b == calls[c].bal
<1>1. PICK y \in calls[c].todo :
        LET days == daysInYear(calls[c].start, calls[c].end, y)
        IN  /\ balances' = [balances EXCEPT
                 ![b] = Settled(@, calls[c].taken, calls[c].owed, days)]
            /\ charged' = [charged EXCEPT ![b] = @ + days]
            /\ NextYear(c, y, "settleFind", "setStatus")
  BY DEF Charge
<1> DEFINE days == daysInYear(calls[c].start, calls[c].end, y)
           row == Settled(balances[b], calls[c].taken, calls[c].owed, days)
<1>2. /\ UNCHANGED <<requests, logs, issued, faults>>
      /\ calls[c].pc = "charge"
  BY DEF Charge, At
<1>3. /\ calls[c] \in Call
      /\ b \in DOMAIN balances /\ b \in BalanceIds
      /\ balances[b] \in BalanceRow
      /\ calls[c].taken \in Nat /\ calls[c].owed \in Nat
      /\ calls[c].taken <= Allowance
      /\ calls[c].owed > 0 => calls[c].taken = Allowance
      /\ calls[c].taken + calls[c].owed <= charged[b]
      /\ charged[b] \in Nat
  BY <1>2 DEF IInv, TypeOK, CallsOK, SnapshotOK, Call
<1>4. days \in Nat
  BY <1>3, DaysAreCounted DEF Call
<1>5. balances' = [balances EXCEPT ![b] = row]
      /\ charged' = [charged EXCEPT ![b] = charged[b] + days]
  BY <1>1
<1> HIDE DEF days
<1>6. /\ row \in BalanceRow
      /\ row.taken <= Allowance
      /\ row.owed > 0 => row.taken = Allowance
      /\ row.taken + row.owed = calls[c].taken + calls[c].owed + days
  BY <1>3, <1>4, SettledRow
<1> HIDE DEF row, b
<1>7. /\ DOMAIN balances' = DOMAIN balances
      /\ balances'[b] = row
      /\ \A d \in DOMAIN balances \ {b} : balances'[d] = balances[d]
  BY <1>3, <1>5
<1>8. /\ charged' \in [BalanceIds -> Nat]
      /\ charged'[b] = charged[b] + days
      /\ \A d \in BalanceIds : charged[d] <= charged'[d]
  BY <1>3, <1>4, <1>5 DEF IInv, TypeOK
<1>9. PICK x \in Call :
        /\ calls' = [calls EXCEPT ![c] = x]
        /\ x.req = calls[c].req
        /\ x.pc \notin {"charge", "log"}
        /\ LocalsOK(x)
        /\ x.op = "generate" =>
             /\ x.req \notin issued
             /\ \A k \in Calls \ {c} : calls[k].req # x.req
  <2>1. {"settleFind", "setStatus"}
          \subseteq Points \ {"idle", "charge", "log", "insert"}
    BY DEF Points
  <2> QED
    BY <1>1, <1>2, <2>1, NextYearLocals
<1>10. calls' \in [Calls -> Call]
  BY <1>9 DEF IInv, TypeOK
<1>11. TypeOK'
  BY <1>2, <1>6, <1>7, <1>8, <1>10 DEF IInv, TypeOK
<1>12. DebtOnlyWhenExhausted'
  BY <1>6, <1>7 DEF IInv, DebtOnlyWhenExhausted
<1>13. NoInventedDays'
  <2>1. row.taken + row.owed <= charged'[b]
    <3>1. row.taken \in Nat /\ row.owed \in Nat
      BY <1>6 DEF BalanceRow
    <3> QED
      BY <3>1, <1>3, <1>4, <1>6, <1>8
  <2>2. ASSUME NEW d \in DOMAIN balances \ {b}
        PROVE  balances[d].taken + balances[d].owed <= charged'[d]
    <3>1. /\ balances[d].taken + balances[d].owed <= charged[d]
          /\ balances[d].taken \in Nat /\ balances[d].owed \in Nat
          /\ d \in BalanceIds /\ charged[d] \in Nat /\ charged'[d] \in Nat
      BY <1>8 DEF IInv, TypeOK, NoInventedDays, BalanceRow
    <3> QED
      BY <3>1, <1>8
  <2> QED
    BY <2>1, <2>2, <1>7 DEF NoInventedDays
<1>14. LoggedIsDecided'
  BY <1>2, NowOK DEF LoggedIsDecided, Decided, Exists
<1>15. SnapshotOK(x)' /\ DecisionOK(x)'
  BY <1>9 DEF SnapshotOK, DecisionOK
<1>16. CallsOK'
  BY <1>2, <1>7, <1>8, <1>9, <1>11, <1>15, NowOK, CallsStep
<1> QED
  BY <1>11, <1>12, <1>13, <1>14, <1>16 DEF IInv

-----------------------------------------------------------------------------
(* The invariant is inductive. *)

LEMMA InitInv == Init => IInv
<1> SUFFICES ASSUME Init PROVE IInv
  OBVIOUS
<1> USE DEF Init
<1>1. TypeOK
  BY IdleIsCall, ConstantsAssumption DEF TypeOK
<1>2. DebtOnlyWhenExhausted /\ NoInventedDays
  BY DEF DebtOnlyWhenExhausted, NoInventedDays
<1>3. LoggedIsDecided
  BY DEF LoggedIsDecided
<1>4. CallsOK
  BY DEF CallsOK, LocalsOK, SnapshotOK, DecisionOK, FreshId, Idle
<1> QED
  BY <1>1, <1>2, <1>3, <1>4 DEF IInv

LEMMA StepInv == IInv /\ [Next]_vars => IInv'
<1> SUFFICES ASSUME IInv, [Next]_vars PROVE IInv'
  OBVIOUS
<1>1. ASSUME NEW c \in Calls, Begin(c)
      PROVE  IInv'
  BY <1>1, BeginGenerateInv, BeginUpdateInv, BeginProcessInv, BeginDeleteInv,
     BeginViewInv DEF Begin
<1>2. ASSUME NEW c \in Calls, Step(c)
      PROVE  IInv'
  <2>1. {"approve", "reject"} \subseteq Ops \ {"none"}
        /\ {"APPROVED", "REJECTED"} \subseteq Verdicts
    BY DEF Ops, Verdicts
  <2>2. CASE \/ GenerateCheckPending(c) \/ GenerateCheckOverlap(c)
             \/ UpdateCheckPending(c) \/ UpdateCheckOverlap(c)
    BY <2>2, CheckInv
  <2>3. CASE InsertRequest(c) \/ WriteRequest(c) \/ EraseRequest(c)
    BY <2>3, InsertRequestInv, WriteRequestInv, EraseRequestInv
  <2>4. CASE SettleFind(c) \/ SettleCreate(c) \/ Charge(c)
    BY <2>4, SettleFindInv, SettleCreateInv, ChargeInv
  <2>5. CASE SetApproved(c) \/ SetRejected(c)
    BY <2>1, <2>5, SetStatusInv DEF SetApproved, SetRejected
  <2>6. CASE LogApproved(c)
    BY <2>1, <2>6, InsertLogInv DEF LogApproved
  <2>7. CASE LogRejected(c)
    BY <2>1, <2>7, InsertLogInv DEF LogRejected
  <2>8. CASE FindBalance(c) \/ CreateBalance(c)
    BY <2>8, FindBalanceInv, CreateBalanceInv
  <2> QED
    BY <1>2, <2>2, <2>3, <2>4, <2>5, <2>6, <2>7, <2>8 DEF Step
<1>3. ASSUME NEW c \in Calls, Abort(c)
      PROVE  IInv'
  BY <1>3, AbortInv
<1>4. CASE UNCHANGED vars
  BY <1>4 DEF vars, IInv, TypeOK, DebtOnlyWhenExhausted, NoInventedDays,
       LoggedIsDecided, CallsOK, LocalsOK, SnapshotOK, DecisionOK, FreshId,
       Decided, Exists
<1> QED
  BY <1>1, <1>2, <1>3, <1>4 DEF Next

\* The tables and the locals of the handlers in flight keep agreeing, whatever
\* the interleaving and the faults.
THEOREM VacationsInvariant == Spec => []IInv
<1> QED
  BY InitInv, StepInv, PTL DEF Spec

-----------------------------------------------------------------------------
(* What follows for the tables. *)

\* Every row of the four tables and every local of a handler keeps its type; in
\* particular no settlement makes a balance negative (lines 507-521).
THEOREM VacationsTypeOK == Spec => []TypeOK
<1>1. IInv => TypeOK
  BY DEF IInv
<1> QED
  BY <1>1, VacationsInvariant, PTL

\* A balance owes days only when all its own are taken, and gives no more than
\* the allowance, although settlements overwrite one another and handlers are
\* cut short (settleBalancePerYear, lines 507-521).
THEOREM DebtSound == Spec => []DebtOnlyWhenExhausted
<1>1. IInv => DebtOnlyWhenExhausted
  BY DEF IInv
<1> QED
  BY <1>1, VacationsInvariant, PTL

\* A balance never holds more days than settlements have charged to it: racing
\* approvals can only lose days (settleBalancePerYear, lines 490-522).
THEOREM ChargesSound == Spec => []NoInventedDays
<1>1. IInv => NoInventedDays
  BY DEF IInv
<1> QED
  BY <1>1, VacationsInvariant, PTL

\* A request with a logged decision exists and is decided, whatever deletes,
\* updates and approvals were in flight (lines 238, 289, 426-442, 458-473).
THEOREM LogSound == Spec => []LoggedIsDecided
<1>1. IInv => LoggedIsDecided
  BY DEF IInv
<1> QED
  BY <1>1, VacationsInvariant, PTL

-----------------------------------------------------------------------------
(* One handler at a time. *)

\* A handler that has answered relies on nothing.
LEMMA IdleOK == HandlerOK(Idle) /\ HandlerOK(Idle)'
BY DEF HandlerOK, OnRoute, ChecksOK, ReadOK, Deciding, BalanceReadOK, Idle

\* The only handler is the one that steps.
LEMMA SerialCalls ==
    ASSUME Serial, TypeOK, NEW c \in Calls, NEW x,
           calls' = [calls EXCEPT ![c] = x], HandlerOK(x)'
    PROVE  \A k \in Calls : HandlerOK(calls[k])'
<1>1. \A k \in Calls : k = c
  BY DEF Serial
<1>2. calls'[c] = x
  BY DEF TypeOK
<1>3. HandlerOK(calls[c])'
  BY <1>2 DEF HandlerOK, OnRoute, ChecksOK, ReadOK, BalanceReadOK, Deciding,
       Passed
<1> QED
  BY <1>1, <1>3

\* What a handler relies on is in the two tables.
LEMMA SameTables ==
    ASSUME NEW x, UNCHANGED <<requests, balances>>, HandlerOK(x)
    PROVE  HandlerOK(x)'
BY DEF HandlerOK, OnRoute, ChecksOK, ReadOK, Deciding, BalanceReadOK, Passed,
       hasVacationRequestPending, hasVacationInRange, hasOverlap, BalancesFor,
       Pending, Exists

\* A step that leaves requests and balances alone.
LEMMA QuietSerial ==
    ASSUME Serial, SerialInv, IInv', NEW c \in Calls, NEW x,
           calls' = [calls EXCEPT ![c] = x], UNCHANGED <<requests, balances>>,
           HandlerOK(x)
    PROVE  SerialInv'
<1>1. \A k \in Calls : HandlerOK(calls[k])'
  BY SameTables, SerialCalls DEF SerialInv, IInv
<1>2. /\ IsFiniteSet(DOMAIN requests)'
      /\ OneBalancePerYear' /\ OnePendingPerYear' /\ NoOverlap'
  BY DEF SerialInv, OneBalancePerYear, OnePendingPerYear, NoOverlap, Pending,
         Proper, Exists
<1> QED
  BY <1>1, <1>2 DEF SerialInv

-----------------------------------------------------------------------------
(* One handler at a time: the first statements. *)

LEMMA BeginGenerateSerial ==
    ASSUME Serial, SerialInv, IInv', NEW c \in Calls, BeginGenerate(c)
    PROVE  SerialInv'
<1>1. PICK u \in Users, span \in Spans, r \in Requests \ issued :
        Start(c, [Idle EXCEPT
          !.op = "generate", !.req = r, !.user = u,
          !.start = span[1], !.end = span[2],
          !.todo = splitYears(span[1], span[2]),
          !.pc = IF splitYears(span[1], span[2]) = {} THEN "findBalance"
                                                      ELSE "checkPending"])
  BY DEF BeginGenerate
<1> DEFINE years == splitYears(span[1], span[2])
           x == [Idle EXCEPT
                   !.op = "generate", !.req = r, !.user = u,
                   !.start = span[1], !.end = span[2], !.todo = years,
                   !.pc = IF years = {} THEN "findBalance"
                                        ELSE "checkPending"]
<1>2. Start(c, x)
  BY <1>1
<1>3. HandlerOK(x)
  BY DEF Idle, HandlerOK, OnRoute, ChecksOK, ReadOK, Deciding, BalanceReadOK,
         Passed
<1> HIDE DEF x
<1> QED
  BY <1>2, <1>3, QuietSerial DEF Start, BeginGenerate

LEMMA BeginUpdateSerial ==
    ASSUME Serial, SerialInv, IInv', NEW c \in Calls, BeginUpdate(c)
    PROVE  SerialInv'
<1>1. PICK r \in DOMAIN requests, u \in Users, span \in Spans :
        \E s \in {span[1], requests[r].start}, e \in {span[2], requests[r].end} :
          /\ Pending(r)
          /\ s <= e
          /\ Start(c, [Idle EXCEPT
               !.op = "update", !.pc = "checkPending", !.req = r, !.user = u,
               !.start = s, !.end = e, !.todo = splitYears(s, e)])
  BY DEF BeginUpdate
<1>2. PICK s \in {span[1], requests[r].start}, e \in {span[2], requests[r].end} :
        /\ Pending(r)
        /\ s <= e
        /\ Start(c, [Idle EXCEPT
             !.op = "update", !.pc = "checkPending", !.req = r, !.user = u,
             !.start = s, !.end = e, !.todo = splitYears(s, e)])
  BY <1>1
<1> DEFINE x == [Idle EXCEPT
                   !.op = "update", !.pc = "checkPending", !.req = r,
                   !.user = u, !.start = s, !.end = e,
                   !.todo = splitYears(s, e)]
<1>3. HandlerOK(x)
  BY <1>2 DEF Idle, HandlerOK, OnRoute, ChecksOK, ReadOK, Deciding,
              BalanceReadOK, Passed
<1>4. Start(c, x)
  BY <1>2
<1> HIDE DEF x
<1> QED
  BY <1>3, <1>4, QuietSerial DEF Start, BeginUpdate

\* The row of a pending request, by what a handler reads of it.
LEMMA PendingRow ==
    ASSUME TypeOK, NEW r, Pending(r)
    PROVE  /\ r \in DOMAIN requests
           /\ requests[r] = [user |-> requests[r].user,
                             start |-> requests[r].start,
                             end |-> requests[r].end, status |-> "PENDING"]
BY DEF TypeOK, RequestRow, Pending, Exists

LEMMA BeginProcessSerial ==
    ASSUME Serial, SerialInv, IInv', NEW c \in Calls, BeginProcess(c)
    PROVE  SerialInv'
<1>1. PICK r \in DOMAIN requests :
        LET row == requests[r]
            call == [Idle EXCEPT !.req = r, !.user = row.user,
                                 !.start = row.start, !.end = row.end]
        IN  /\ Pending(r)
            /\ \/ Start(c, [call EXCEPT !.op = "reject", !.pc = "setStatus"])
               \/ Start(c, [call EXCEPT !.op = "approve", !.pc = "findBalance",
                                !.todo = splitYears(row.start, row.end)])
  BY DEF BeginProcess
<1> DEFINE row == requests[r]
           years == splitYears(row.start, row.end)
           call == [Idle EXCEPT !.req = r, !.user = row.user,
                                !.start = row.start, !.end = row.end]
           x == [call EXCEPT !.op = "reject", !.pc = "setStatus"]
           y == [call EXCEPT !.op = "approve", !.pc = "findBalance",
                             !.todo = years]
<1>2. /\ r \in DOMAIN requests
      /\ requests[r] = [user |-> row.user, start |-> row.start,
                        end |-> row.end, status |-> "PENDING"]
  BY <1>1, PendingRow DEF SerialInv, IInv
<1> HIDE DEF row
<1>3. HandlerOK(x)
  BY <1>2 DEF Idle, HandlerOK, OnRoute, ChecksOK, ReadOK, Deciding,
              BalanceReadOK
<1>4. HandlerOK(y)
  BY <1>2 DEF Idle, HandlerOK, OnRoute, ChecksOK, ReadOK, Deciding,
              BalanceReadOK
<1>5. Start(c, x) \/ Start(c, y)
  BY <1>1 DEF row
<1> HIDE DEF x, y
<1> QED
  BY <1>3, <1>4, <1>5, QuietSerial DEF Start, BeginProcess

LEMMA BeginDeleteSerial ==
    ASSUME Serial, SerialInv, IInv', NEW c \in Calls, BeginDelete(c)
    PROVE  SerialInv'
<1>1. PICK r \in DOMAIN requests :
        /\ Pending(r)
        /\ Start(c, [Idle EXCEPT !.op = "delete", !.pc = "erase", !.req = r])
  BY DEF BeginDelete
<1> DEFINE x == [Idle EXCEPT !.op = "delete", !.pc = "erase", !.req = r]
<1>2. HandlerOK(x)
  BY <1>1 DEF Idle, HandlerOK, OnRoute, ChecksOK, ReadOK, Deciding,
              BalanceReadOK
<1>3. Start(c, x)
  BY <1>1
<1> HIDE DEF x
<1> QED
  BY <1>2, <1>3, QuietSerial DEF Start, BeginDelete

LEMMA BeginViewSerial ==
    ASSUME Serial, SerialInv, IInv', NEW c \in Calls, BeginView(c)
    PROVE  SerialInv'
<1>1. PICK r \in DOMAIN requests :
        Start(c, [Idle EXCEPT
          !.op = "view", !.pc = "findBalance", !.req = r,
          !.user = requests[r].user, !.start = requests[r].start,
          !.end = requests[r].end])
  BY DEF BeginView
<1> DEFINE x == [Idle EXCEPT
                   !.op = "view", !.pc = "findBalance", !.req = r,
                   !.user = requests[r].user, !.start = requests[r].start,
                   !.end = requests[r].end]
<1>2. HandlerOK(x)
  BY DEF Idle, HandlerOK, OnRoute, ChecksOK, ReadOK, Deciding, BalanceReadOK
<1>3. Start(c, x)
  BY <1>1
<1> HIDE DEF x
<1> QED
  BY <1>2, <1>3, QuietSerial DEF Start, BeginView

-----------------------------------------------------------------------------
(* One handler at a time: the statements that write no request or balance. *)

LEMMA ReturnSerial ==
    ASSUME Serial, SerialInv, IInv', NEW c \in Calls, Return(c),
           UNCHANGED <<requests, balances>>
    PROVE  SerialInv'
BY IdleOK, QuietSerial DEF Return

\* One year of the loop is the next.
LEMMA NextUnique ==
    ASSUME NEW T \in SUBSET Years, NEW y, NEW z, IsNext(y, T), IsNext(z, T)
    PROVE  y = z
<1>1. Years \subseteq Nat
  BY ConstantsAssumption DEF Years
<1> QED
  BY <1>1 DEF IsNext

\* The locals of the handler that goes to another point.
LEMMA GotoLocals ==
    ASSUME TypeOK, NEW c \in Calls, NEW p, Goto(c, p)
    PROVE  \E x :
             /\ calls' = [calls EXCEPT ![c] = x]
             /\ x.pc = p
             /\ x.op = calls[c].op /\ x.req = calls[c].req
             /\ x.user = calls[c].user /\ x.start = calls[c].start
             /\ x.end = calls[c].end /\ x.todo = calls[c].todo
<1> DEFINE x == [calls[c] EXCEPT !.pc = p]
<1>1. calls[c] \in Call
  BY DEF TypeOK
<1>2. /\ x.pc = p
      /\ x.op = calls[c].op /\ x.req = calls[c].req
      /\ x.user = calls[c].user /\ x.start = calls[c].start
      /\ x.end = calls[c].end /\ x.todo = calls[c].todo
  BY <1>1 DEF Call
<1>3. calls' = [calls EXCEPT ![c] = x]
  BY DEF Goto
<1> HIDE DEF x
<1> QED
  BY <1>2, <1>3

\* The locals of the handler that leaves a year behind.
LEMMA YearLocals ==
    ASSUME TypeOK, NEW c \in Calls, NEW y, NEW loop, NEW exit,
           NextYear(c, y, loop, exit)
    PROVE  \E x :
             /\ calls' = [calls EXCEPT ![c] = x]
             /\ x.pc = IF x.todo = {} THEN exit ELSE loop
             /\ x.op = calls[c].op /\ x.req = calls[c].req
             /\ x.user = calls[c].user /\ x.start = calls[c].start
             /\ x.end = calls[c].end /\ x.todo = calls[c].todo \ {y}
<1> DEFINE rest == calls[c].todo \ {y}
           p == IF rest = {} THEN exit ELSE loop
           x == [calls[c] EXCEPT !.pc = p, !.todo = rest, !.bal = None,
                                 !.taken = 0, !.owed = 0]
<1>1. calls[c] \in Call
  BY DEF TypeOK
<1>2. calls' = [calls EXCEPT ![c] = x]
  BY DEF NextYear
<1> HIDE DEF rest
<1>3. /\ x.pc = p
      /\ x.op = calls[c].op /\ x.req = calls[c].req
      /\ x.user = calls[c].user /\ x.start = calls[c].start
      /\ x.end = calls[c].end /\ x.todo = rest
  BY <1>1 DEF Call
<1> HIDE DEF x
<1> QED
  BY <1>2, <1>3 DEF rest

LEMMA CheckPendingSerial ==
    ASSUME Serial, SerialInv, IInv', NEW c \in Calls,
           GenerateCheckPending(c) \/ UpdateCheckPending(c)
    PROVE  SerialInv'
<1> DEFINE h == calls[c]
<1>1. UNCHANGED <<requests, balances>>
  BY DEF GenerateCheckPending, UpdateCheckPending
<1>2. /\ h.op \in {"generate", "update"} /\ h.pc = "checkPending"
      /\ h.todo \in SUBSET Years
      /\ HandlerOK(h)
      /\ TypeOK
  BY DEF GenerateCheckPending, UpdateCheckPending, At, SerialInv, IInv, TypeOK,
         Call
<1>3. PICK y \in h.todo :
        /\ IsNext(y, h.todo)
        /\ \/ Return(c)
           \/ /\ Goto(c, "checkOverlap")
              /\ ~hasVacationRequestPending(h.user, y, h.req)
  <2>1. \A u, y, own : hasVacationRequestPending(u, y, own)
                       => hasVacationRequestPending(u, y, None)
    BY <1>2, ConstantsAssumption DEF hasVacationRequestPending, TypeOK
  <2> QED
    BY <2>1 DEF GenerateCheckPending, UpdateCheckPending
<1>4. CASE Return(c)
  BY <1>1, <1>4, ReturnSerial
<1>5. CASE /\ Goto(c, "checkOverlap")
           /\ ~hasVacationRequestPending(h.user, y, h.req)
  <2>1. PICK x :
          /\ calls' = [calls EXCEPT ![c] = x]
          /\ x.pc = "checkOverlap"
          /\ x.op = h.op /\ x.req = h.req /\ x.user = h.user
          /\ x.start = h.start /\ x.end = h.end /\ x.todo = h.todo
    BY <1>2, <1>5, GotoLocals
  <2>2. \A z \in h.todo : IsNext(z, h.todo) => z = y
    BY <1>2, <1>3, NextUnique
  <2> HIDE DEF h
  <2>3. HandlerOK(x)
    BY <1>2, <1>5, <2>1, <2>2 DEF HandlerOK, OnRoute, ChecksOK, ReadOK,
       Deciding, BalanceReadOK, Passed
  <2> QED
    BY <1>1, <2>1, <2>3, QuietSerial
<1> QED
  BY <1>3, <1>4, <1>5

LEMMA CheckOverlapSerial ==
    ASSUME Serial, SerialInv, IInv', NEW c \in Calls,
           GenerateCheckOverlap(c) \/ UpdateCheckOverlap(c)
    PROVE  SerialInv'
<1> DEFINE h == calls[c]
<1>1. UNCHANGED <<requests, balances>>
  BY DEF GenerateCheckOverlap, UpdateCheckOverlap
<1>2. /\ h.op \in {"generate", "update"} /\ h.pc = "checkOverlap"
      /\ HandlerOK(h)
      /\ TypeOK
  BY DEF GenerateCheckOverlap, UpdateCheckOverlap, At, SerialInv, IInv
<1>3. PICK y \in h.todo, exit \in {"findBalance", "write"} :
        /\ IsNext(y, h.todo)
        /\ \/ Return(c)
           \/ /\ NextYear(c, y, "checkPending", exit)
              /\ exit = "write" <=> h.op = "update"
              /\ h.op = "generate" => ~hasVacationInRange(h.user, y)
              /\ h.op = "update" => ~hasOverlap(h.user, h.start, h.end, h.req)
  BY DEF GenerateCheckOverlap, UpdateCheckOverlap
<1>4. CASE Return(c)
  BY <1>1, <1>4, ReturnSerial
<1>5. CASE /\ NextYear(c, y, "checkPending", exit)
           /\ exit = "write" <=> h.op = "update"
           /\ h.op = "generate" => ~hasVacationInRange(h.user, y)
           /\ h.op = "update" => ~hasOverlap(h.user, h.start, h.end, h.req)
  <2>1. PICK x :
          /\ calls' = [calls EXCEPT ![c] = x]
          /\ x.pc = IF x.todo = {} THEN exit ELSE "checkPending"
          /\ x.op = h.op /\ x.req = h.req /\ x.user = h.user
          /\ x.start = h.start /\ x.end = h.end /\ x.todo = h.todo \ {y}
    BY <1>2, <1>5, YearLocals
  <2> HIDE DEF h
  <2>2. ~hasVacationRequestPending(h.user, y, h.req)
    BY <1>2, <1>3 DEF HandlerOK, ChecksOK
  <2>3. HandlerOK(x)
    BY <1>2, <1>5, <2>1, <2>2 DEF HandlerOK, OnRoute, ChecksOK, ReadOK,
       Deciding, BalanceReadOK, Passed
  <2> QED
    BY <1>1, <2>1, <2>3, QuietSerial
<1> QED
  BY <1>3, <1>4, <1>5

\* The locals of the handler that has read a balance.
LEMMA HoldLocals ==
    ASSUME TypeOK, NEW c \in Calls, NEW b, NEW taken, NEW owed,
           Hold(c, b, taken, owed)
    PROVE  \E x :
             /\ calls' = [calls EXCEPT ![c] = x]
             /\ x.pc = "charge" /\ x.bal = b
             /\ x.taken = taken /\ x.owed = owed
             /\ x.op = calls[c].op /\ x.req = calls[c].req
             /\ x.user = calls[c].user /\ x.start = calls[c].start
             /\ x.end = calls[c].end /\ x.todo = calls[c].todo
<1> DEFINE x == [calls[c] EXCEPT !.pc = "charge", !.bal = b, !.taken = taken,
                                 !.owed = owed]
<1>1. calls[c] \in Call
  BY DEF TypeOK
<1>2. /\ x.pc = "charge" /\ x.bal = b /\ x.taken = taken /\ x.owed = owed
      /\ x.op = calls[c].op /\ x.req = calls[c].req
      /\ x.user = calls[c].user /\ x.start = calls[c].start
      /\ x.end = calls[c].end /\ x.todo = calls[c].todo
  BY <1>1 DEF Call
<1>3. calls' = [calls EXCEPT ![c] = x]
  BY DEF Hold
<1> HIDE DEF x
<1> QED
  BY <1>2, <1>3

LEMMA SettleFindSerial ==
    ASSUME Serial, SerialInv, IInv', NEW c \in Calls, SettleFind(c)
    PROVE  SerialInv'
<1> DEFINE h == calls[c]
<1>1. UNCHANGED <<requests, balances>>
  BY DEF SettleFind
<1>2. /\ h.op = "approve" /\ h.pc = "settleFind"
      /\ h.todo \in SUBSET Years
      /\ HandlerOK(h)
      /\ TypeOK
  BY DEF SettleFind, At, SerialInv, IInv, TypeOK, Call, HandlerOK, OnRoute
<1>3. PICK y \in h.todo :
        /\ IsNext(y, h.todo)
        /\ \/ BalancesFor(h.user, y) = {} /\ Goto(c, "settleCreate")
           \/ \E b \in BalancesFor(h.user, y) :
                Hold(c, b, balances[b].taken, balances[b].owed)
  BY DEF SettleFind
<1>4. \A z \in h.todo : IsNext(z, h.todo) => z = y
  BY <1>2, <1>3, NextUnique
<1>5. CASE BalancesFor(h.user, y) = {} /\ Goto(c, "settleCreate")
  <2>1. PICK x :
          /\ calls' = [calls EXCEPT ![c] = x]
          /\ x.pc = "settleCreate"
          /\ x.op = h.op /\ x.req = h.req /\ x.user = h.user
          /\ x.start = h.start /\ x.end = h.end /\ x.todo = h.todo
    BY <1>2, <1>5, GotoLocals
  <2> HIDE DEF h
  <2>2. HandlerOK(x)
    BY <1>2, <1>4, <1>5, <2>1 DEF HandlerOK, OnRoute, ChecksOK, ReadOK,
       Deciding, BalanceReadOK
  <2> QED
    BY <1>1, <2>1, <2>2, QuietSerial
<1>6. ASSUME NEW b \in BalancesFor(h.user, y),
             Hold(c, b, balances[b].taken, balances[b].owed)
      PROVE  SerialInv'
  <2>1. PICK x :
          /\ calls' = [calls EXCEPT ![c] = x]
          /\ x.pc = "charge" /\ x.bal = b
          /\ x.taken = balances[b].taken /\ x.owed = balances[b].owed
          /\ x.op = h.op /\ x.req = h.req /\ x.user = h.user
          /\ x.start = h.start /\ x.end = h.end /\ x.todo = h.todo
    BY <1>2, <1>6, HoldLocals
  <2>2. balances[b] = [user |-> h.user, year |-> y,
                       taken |-> x.taken, owed |-> x.owed]
    BY <1>2, <2>1 DEF BalancesFor, TypeOK, BalanceRow
  <2> HIDE DEF h
  <2>3. HandlerOK(x)
    BY <1>2, <1>4, <2>1, <2>2 DEF HandlerOK, OnRoute, ChecksOK, ReadOK,
       Deciding, BalanceReadOK
  <2> QED
    BY <1>1, <2>1, <2>3, QuietSerial
<1> QED
  BY <1>3, <1>5, <1>6

LEMMA InsertLogSerial ==
    ASSUME Serial, SerialInv, IInv', NEW c \in Calls,
           LogApproved(c) \/ LogRejected(c)
    PROVE  SerialInv'
<1> DEFINE h == calls[c]
<1>1. UNCHANGED <<requests, balances>>
  BY DEF LogApproved, LogRejected, InsertLog
<1>2. h.pc = "log" /\ HandlerOK(h) /\ TypeOK
  BY DEF LogApproved, LogRejected, InsertLog, At, SerialInv, IInv
<1>3. \/ Return(c)
      \/ Goto(c, "findBalance") /\ h.op = "reject"
  BY DEF LogApproved, LogRejected, InsertLog
<1>4. CASE Return(c)
  BY <1>1, <1>4, ReturnSerial
<1>5. CASE Goto(c, "findBalance") /\ h.op = "reject"
  <2>1. PICK x :
          /\ calls' = [calls EXCEPT ![c] = x]
          /\ x.pc = "findBalance"
          /\ x.op = h.op /\ x.req = h.req /\ x.user = h.user
          /\ x.start = h.start /\ x.end = h.end /\ x.todo = h.todo
    BY <1>2, <1>5, GotoLocals
  <2> HIDE DEF h
  <2>2. HandlerOK(x)
    BY <1>2, <1>5, <2>1 DEF HandlerOK, OnRoute, ChecksOK, ReadOK,
       Deciding, BalanceReadOK
  <2> QED
    BY <1>1, <2>1, <2>2, QuietSerial
<1> QED
  BY <1>3, <1>4, <1>5

\* The handler goes on from getUserVacationBalance.
LEMMA AfterLocals ==
    ASSUME SerialInv, NEW c \in Calls, AfterBalance(c),
           calls[c].pc \in {"findBalance", "createBalance"}
    PROVE  \/ Return(c)
           \/ \E x :
                /\ calls' = [calls EXCEPT ![c] = x]
                /\ x.op = calls[c].op /\ x.req = calls[c].req
                /\ x.todo = calls[c].todo /\ x.user = calls[c].user
                /\ x.start = calls[c].start /\ x.end = calls[c].end
                /\ x.pc \in {"insert", "setStatus", "settleFind"}
                /\ HandlerOK(x)
<1> DEFINE h == calls[c]
<1>1. \/ Return(c)
      \/ \E p \in {"insert", "setStatus", "settleFind"} :
           /\ Goto(c, p)
           /\ p = "insert" => h.op = "generate"
           /\ p = "settleFind" => h.op = "approve"
           /\ p = "setStatus" => h.op = "approve" /\ h.todo = {}
  BY DEF AfterBalance
<1>2. HandlerOK(h) /\ TypeOK /\ h.pc \in {"findBalance", "createBalance"}
  BY DEF SerialInv, IInv
<1>3. ASSUME NEW p \in {"insert", "setStatus", "settleFind"}, Goto(c, p),
             p = "insert" => h.op = "generate",
             p = "settleFind" => h.op = "approve",
             p = "setStatus" => h.op = "approve" /\ h.todo = {}
      PROVE  \E x :
                /\ calls' = [calls EXCEPT ![c] = x]
                /\ x.op = h.op /\ x.req = h.req
                /\ x.todo = h.todo /\ x.user = h.user
                /\ x.start = h.start /\ x.end = h.end
                /\ x.pc \in {"insert", "setStatus", "settleFind"}
                /\ HandlerOK(x)
  <2>1. PICK x :
          /\ calls' = [calls EXCEPT ![c] = x]
          /\ x.pc = p
          /\ x.op = h.op /\ x.req = h.req /\ x.user = h.user
          /\ x.start = h.start /\ x.end = h.end /\ x.todo = h.todo
    BY <1>2, <1>3, GotoLocals
  <2> HIDE DEF h
  <2>2. HandlerOK(x)
    BY <1>2, <1>3, <2>1 DEF HandlerOK, OnRoute, ChecksOK, ReadOK,
       Deciding, BalanceReadOK, Passed
  <2> QED
    BY <2>1, <2>2
<1> QED
  BY <1>1, <1>3

LEMMA FindBalanceSerial ==
    ASSUME Serial, SerialInv, IInv', NEW c \in Calls, FindBalance(c)
    PROVE  SerialInv'
<1> DEFINE h == calls[c]
<1>1. UNCHANGED <<requests, balances>>
  BY DEF FindBalance
<1>2. h.pc = "findBalance" /\ HandlerOK(h) /\ TypeOK
  BY DEF FindBalance, At, SerialInv, IInv
<1>3. CASE /\ BalancesFor(h.user, YearOf[h.start]) = {}
           /\ Goto(c, "createBalance")
  <2>1. PICK x :
          /\ calls' = [calls EXCEPT ![c] = x]
          /\ x.pc = "createBalance"
          /\ x.op = h.op /\ x.req = h.req /\ x.user = h.user
          /\ x.start = h.start /\ x.end = h.end /\ x.todo = h.todo
    BY <1>2, <1>3, GotoLocals
  <2> HIDE DEF h
  <2>2. HandlerOK(x)
    BY <1>2, <1>3, <2>1 DEF HandlerOK, OnRoute, ChecksOK, ReadOK,
       Deciding, BalanceReadOK, Passed
  <2> QED
    BY <1>1, <2>1, <2>2, QuietSerial
<1>4. CASE AfterBalance(c)
  BY <1>1, <1>2, <1>4, AfterLocals, QuietSerial, ReturnSerial
<1> QED
  BY <1>3, <1>4 DEF FindBalance

-----------------------------------------------------------------------------
(* One handler at a time: the statements that write a request. *)

\* A handler that answers after writing a table.
LEMMA AnswerSerial ==
    ASSUME Serial, SerialInv, IInv', NEW c \in Calls, Return(c),
           IsFiniteSet(DOMAIN requests'), OneBalancePerYear',
           OnePendingPerYear', NoOverlap'
    PROVE  SerialInv'
<1>1. \A k \in Calls : HandlerOK(calls[k])'
  BY IdleOK, SerialCalls DEF SerialInv, IInv, Return
<1> QED
  BY <1>1 DEF SerialInv

\* A row is put in the table, or changed there, that is clear of the others.
LEMMA Placed ==
    ASSUME OnePendingPerYear, NoOverlap, NEW r, NEW u, NEW s, NEW e,
           DOMAIN requests' = DOMAIN requests \cup {r},
           requests'[r] = [user |-> u, start |-> s, end |-> e,
                           status |-> "PENDING"],
           \A q \in DOMAIN requests \ {r} :
              /\ requests'[q] = requests[q]
              /\ requests[q].user = u =>
                   /\ (requests[q].start .. requests[q].end) \cap (s..e) = {}
                   /\ Pending(q) /\ Proper(q) /\ s <= e =>
                        YearOf[requests[q].start] # YearOf[s]
    PROVE  OnePendingPerYear' /\ NoOverlap'
<1>1. ASSUME NEW p \in DOMAIN requests', NEW q \in DOMAIN requests', p # q,
             requests'[p].user = requests'[q].user
      PROVE  /\ (requests'[p].start .. requests'[p].end)
                  \cap (requests'[q].start .. requests'[q].end) = {}
             /\ Pending(p)' /\ Pending(q)' /\ Proper(p)' /\ Proper(q)' =>
                  YearOf[requests'[p].start] # YearOf[requests'[q].start]
  <2>1. CASE p = r
    BY <1>1, <2>1 DEF Pending, Proper, Exists
  <2>2. CASE q = r
    BY <1>1, <2>2 DEF Pending, Proper, Exists
  <2>3. CASE p # r /\ q # r
    <3>1. /\ p \in DOMAIN requests /\ requests'[p] = requests[p]
          /\ q \in DOMAIN requests /\ requests'[q] = requests[q]
      BY <2>3
    <3> QED
      BY <1>1, <3>1 DEF OnePendingPerYear, NoOverlap, Pending, Proper, Exists
  <2> QED
    BY <2>1, <2>2, <2>3
<1> QED
  BY <1>1 DEF OnePendingPerYear, NoOverlap

\* A request about to be inserted is clear of the user's others: the years
\* between two shared days were all looked at.
LEMMA ClearInsert ==
    ASSUME SerialInv, NEW c \in Calls, calls[c].pc = "insert",
           NEW q \in DOMAIN requests, requests[q].user = calls[c].user
    PROVE  /\ (requests[q].start .. requests[q].end)
                \cap (calls[c].start .. calls[c].end) = {}
           /\ Pending(q) /\ calls[c].start <= calls[c].end =>
                YearOf[requests[q].start] # YearOf[calls[c].start]
<1> DEFINE h == calls[c]
<1>1. /\ h.op = "generate" /\ h.todo = {} /\ HandlerOK(h)
      /\ h.req \notin DOMAIN requests
      /\ h.start \in Days /\ h.end \in Days
      /\ requests[q].start \in Days /\ requests[q].end \in Days
  BY DEF SerialInv, IInv, TypeOK, Call, RequestRow, CallsOK, LocalsOK, FreshId,
         HandlerOK, ChecksOK
<1>2. \A y \in splitYears(h.start, h.end) :
         /\ ~hasVacationRequestPending(h.user, y, h.req)
         /\ ~hasVacationInRange(h.user, y)
  BY <1>1 DEF HandlerOK, ChecksOK, Passed
<1>3. ASSUME NEW d \in (requests[q].start .. requests[q].end)
                         \cap (h.start .. h.end)
      PROVE  FALSE
  <2>1. d \in Days
    BY <1>1, ConstantsAssumption DEF Days
  <2>2. /\ YearOf[requests[q].start] <= YearOf[d]
        /\ YearOf[d] <= YearOf[requests[q].end]
    <3>1. requests[q].start <= d /\ d <= requests[q].end
      BY <1>1, <1>3, ConstantsAssumption DEF Days
    <3> QED
      BY <1>1, <2>1, <3>1, ConstantsAssumption
  <2>3. YearOf[d] \in splitYears(h.start, h.end)
    BY DEF splitYears
  <2>4. ~hasVacationInRange(h.user, YearOf[d])
    BY <1>2, <2>3
  <2> QED
    BY <2>2, <2>4 DEF hasVacationInRange
<1>4. ASSUME Pending(q), h.start <= h.end
      PROVE  YearOf[requests[q].start] # YearOf[h.start]
  <2>1. h.start \in h.start .. h.end
    BY <1>1, <1>4, ConstantsAssumption DEF Days
  <2>2. ~hasVacationRequestPending(h.user, YearOf[h.start], h.req)
    BY <1>2, <2>1 DEF splitYears
  <2> QED
    BY <1>1, <1>4, <2>2 DEF hasVacationRequestPending, Pending, Exists
<1> QED
  BY <1>3, <1>4

\* So is a request about to be rewritten.
LEMMA ClearWrite ==
    ASSUME SerialInv, NEW c \in Calls, calls[c].pc = "write",
           NEW q \in DOMAIN requests \ {calls[c].req},
           requests[q].user = calls[c].user
    PROVE  /\ (requests[q].start .. requests[q].end)
                \cap (calls[c].start .. calls[c].end) = {}
           /\ Pending(q) => YearOf[requests[q].start] # YearOf[calls[c].start]
<1> DEFINE h == calls[c]
<1>1. /\ h.op = "update" /\ h.todo = {} /\ HandlerOK(h)
      /\ h.start <= h.end
      /\ h.start \in Days /\ h.end \in Days
      /\ requests[q].start \in Days /\ requests[q].end \in Days
  BY DEF SerialInv, IInv, TypeOK, Call, RequestRow, HandlerOK, OnRoute,
         ChecksOK, ReadOK
<1>2. YearOf[h.start] \in splitYears(h.start, h.end)
  <2>1. h.start \in h.start .. h.end
    BY <1>1, ConstantsAssumption DEF Days
  <2> QED
    BY <2>1 DEF splitYears
<1>3. /\ ~hasVacationRequestPending(h.user, YearOf[h.start], h.req)
      /\ ~hasOverlap(h.user, h.start, h.end, h.req)
  BY <1>1, <1>2 DEF HandlerOK, ChecksOK, Passed
<1>4. ASSUME NEW d \in (requests[q].start .. requests[q].end)
                         \cap (h.start .. h.end)
      PROVE  FALSE
  <2>1. requests[q].start <= h.end /\ requests[q].end >= h.start
    BY <1>1, <1>4, ConstantsAssumption DEF Days
  <2> QED
    BY <1>3, <2>1 DEF hasOverlap
<1>5. Pending(q) => YearOf[requests[q].start] # YearOf[h.start]
  BY <1>3 DEF hasVacationRequestPending, Pending
<1> QED
  BY <1>4, <1>5

LEMMA InsertRequestSerial ==
    ASSUME Serial, SerialInv, IInv', NEW c \in Calls, InsertRequest(c)
    PROVE  SerialInv'
<1> DEFINE r == calls[c].req
           row == [user |-> calls[c].user, start |-> calls[c].start,
                   end |-> calls[c].end, status |-> "PENDING"]
<1>1. /\ DOMAIN requests' = DOMAIN requests \cup {r}
      /\ requests'[r] = row
      /\ \A q \in DOMAIN requests \ {r} : requests'[q] = requests[q]
  BY DEF InsertRequest, Put
<1>2. IsFiniteSet(DOMAIN requests')
  BY <1>1, FS_AddElement DEF SerialInv
<1>3. OnePendingPerYear' /\ NoOverlap'
  BY <1>1, ClearInsert, Placed DEF SerialInv, InsertRequest, At
<1>4. OneBalancePerYear'
  BY DEF SerialInv, OneBalancePerYear, InsertRequest
<1> QED
  BY <1>2, <1>3, <1>4, AnswerSerial DEF InsertRequest

LEMMA WriteRequestSerial ==
    ASSUME Serial, SerialInv, IInv', NEW c \in Calls, WriteRequest(c)
    PROVE  SerialInv'
<1> DEFINE r == calls[c].req
           row == [user |-> calls[c].user, start |-> calls[c].start,
                   end |-> calls[c].end, status |-> "PENDING"]
<1>1. Pending(r) /\ r \in DOMAIN requests /\ requests[r] \in RequestRow
  BY DEF WriteRequest, At, SerialInv, IInv, TypeOK, HandlerOK, OnRoute, ReadOK,
         Pending, Exists
<1>2. /\ DOMAIN requests' = DOMAIN requests
      /\ requests'[r] = row
      /\ \A q \in DOMAIN requests \ {r} : requests'[q] = requests[q]
  BY <1>1 DEF WriteRequest, RequestRow, Pending, Exists
<1>3. IsFiniteSet(DOMAIN requests')
  BY <1>2 DEF SerialInv
<1>4. OnePendingPerYear' /\ NoOverlap'
  BY <1>1, <1>2, ClearWrite, Placed DEF SerialInv, WriteRequest, At
<1>5. OneBalancePerYear'
  BY DEF SerialInv, OneBalancePerYear, WriteRequest
<1> QED
  BY <1>3, <1>4, <1>5, AnswerSerial DEF WriteRequest

LEMMA EraseRequestSerial ==
    ASSUME Serial, SerialInv, IInv', NEW c \in Calls, EraseRequest(c)
    PROVE  SerialInv'
<1>1. /\ DOMAIN requests' \subseteq DOMAIN requests
      /\ \A q \in DOMAIN requests' : requests'[q] = requests[q]
  BY DEF EraseRequest, Remove
<1>2. IsFiniteSet(DOMAIN requests')
  BY <1>1, FS_Subset DEF SerialInv
<1>3. OnePendingPerYear' /\ NoOverlap'
  BY <1>1 DEF SerialInv, OnePendingPerYear, NoOverlap, Pending, Proper, Exists
<1>4. OneBalancePerYear'
  BY DEF SerialInv, OneBalancePerYear, EraseRequest
<1> QED
  BY <1>2, <1>3, <1>4, AnswerSerial DEF EraseRequest

LEMMA SetStatusSerial ==
    ASSUME Serial, SerialInv, IInv', NEW c \in Calls,
           SetApproved(c) \/ SetRejected(c)
    PROVE  SerialInv'
<1> DEFINE h == calls[c]
<1>1. PICK v \in Verdicts : SetStatus(c, h.op, v)
  BY DEF SetApproved, SetRejected, SetStatus, Verdicts
<1>2. /\ h.pc = "setStatus" /\ HandlerOK(h) /\ TypeOK
      /\ UNCHANGED balances
  BY <1>1 DEF SetStatus, At, SerialInv, IInv
<1>3. h.req \in DOMAIN requests /\ requests[h.req] \in RequestRow
  BY <1>2 DEF HandlerOK, OnRoute, ReadOK, Deciding, TypeOK
<1>4. Goto(c, "log") /\ requests' = [requests EXCEPT ![h.req].status = v]
  BY <1>1, <1>3 DEF SetStatus, Exists
<1>5. v # "PENDING"
  BY DEF Verdicts
<1>6. /\ DOMAIN requests' = DOMAIN requests
      /\ \A q \in DOMAIN requests :
           /\ requests'[q].user = requests[q].user
           /\ requests'[q].start = requests[q].start
           /\ requests'[q].end = requests[q].end
           /\ requests'[q].status \in {requests[q].status, v}
  BY <1>2, <1>3, <1>4 DEF RequestRow, TypeOK
<1>7. IsFiniteSet(DOMAIN requests)'
  BY <1>6 DEF SerialInv
<1>8. OnePendingPerYear' /\ NoOverlap'
  BY <1>5, <1>6 DEF SerialInv, OnePendingPerYear, NoOverlap, Pending, Proper,
                    Exists
<1>9. OneBalancePerYear'
  BY <1>2 DEF SerialInv, OneBalancePerYear
<1>10. PICK x :
         /\ calls' = [calls EXCEPT ![c] = x]
         /\ x.pc = "log"
         /\ x.op = h.op /\ x.req = h.req /\ x.user = h.user
         /\ x.start = h.start /\ x.end = h.end /\ x.todo = h.todo
  BY <1>2, <1>4, GotoLocals
<1> HIDE DEF h
<1>11. HandlerOK(x)'
  BY <1>2, <1>10 DEF HandlerOK, OnRoute, ChecksOK, ReadOK, Deciding,
     BalanceReadOK
<1>12. \A k \in Calls : HandlerOK(calls[k])'
  BY <1>2, <1>10, <1>11, SerialCalls
<1> QED
  BY <1>7, <1>8, <1>9, <1>12 DEF SerialInv

-----------------------------------------------------------------------------
(* One handler at a time: the statements that write a balance. *)

\* Away from the points where a balance has been read, a handler relies on the
\* requests alone.
LEMMA SameRequests ==
    ASSUME NEW x, UNCHANGED requests, HandlerOK(x),
           x.pc \notin {"createBalance", "settleCreate", "charge"}
    PROVE  HandlerOK(x)'
BY DEF HandlerOK, OnRoute, ChecksOK, ReadOK, Deciding, BalanceReadOK, Passed,
       hasVacationRequestPending, hasVacationInRange, hasOverlap, Pending,
       Exists

\* The tables a step of requests leaves alone stay sound.
LEMMA RequestsKept ==
    ASSUME SerialInv, UNCHANGED requests
    PROVE  /\ IsFiniteSet(DOMAIN requests')
           /\ OnePendingPerYear' /\ NoOverlap'
BY DEF SerialInv, OnePendingPerYear, NoOverlap, Pending, Proper, Exists

\* A new balance is the only one of a year that had none.
LEMMA OnlyBalance ==
    ASSUME OneBalancePerYear, NEW b, b \notin DOMAIN balances, NEW u, NEW y,
           balances' = Put(balances, b, NewBalance(u, y)),
           BalancesFor(u, y) = {}
    PROVE  OneBalancePerYear'
<1>1. /\ DOMAIN balances' = DOMAIN balances \cup {b}
      /\ balances'[b].user = u /\ balances'[b].year = y
      /\ \A a \in DOMAIN balances : balances'[a] = balances[a]
  BY DEF Put, NewBalance
<1>2. \A a \in DOMAIN balances :
         ~(balances[a].user = u /\ balances[a].year = y)
  BY DEF BalancesFor
<1> QED
  BY <1>1, <1>2 DEF OneBalancePerYear

LEMMA CreateBalanceSerial ==
    ASSUME Serial, SerialInv, IInv', NEW c \in Calls, CreateBalance(c)
    PROVE  SerialInv'
<1>1. PICK b \in BalanceIds \ DOMAIN balances :
        balances' = Put(balances, b,
                        NewBalance(calls[c].user, YearOf[calls[c].start]))
  BY DEF CreateBalance
<1>2. /\ calls[c].pc = "createBalance" /\ AfterBalance(c)
      /\ UNCHANGED requests
      /\ BalancesFor(calls[c].user, YearOf[calls[c].start]) = {}
  BY DEF CreateBalance, At, SerialInv, HandlerOK, BalanceReadOK
<1>3. OneBalancePerYear'
  BY <1>1, <1>2, OnlyBalance DEF SerialInv
<1>4. CASE Return(c)
  BY <1>2, <1>3, <1>4, RequestsKept, AnswerSerial
<1>5. ASSUME NEW x, calls' = [calls EXCEPT ![c] = x], HandlerOK(x),
             x.pc \in {"insert", "setStatus", "settleFind"}
      PROVE  SerialInv'
  <2>1. HandlerOK(x)'
    BY <1>2, <1>5, SameRequests
  <2>2. \A k \in Calls : HandlerOK(calls[k])'
    BY <1>5, <2>1, SerialCalls DEF SerialInv, IInv
  <2> QED
    BY <1>2, <1>3, <2>2, RequestsKept DEF SerialInv
<1> QED
  BY <1>2, <1>4, <1>5, AfterLocals

LEMMA SettleCreateSerial ==
    ASSUME Serial, SerialInv, IInv', NEW c \in Calls, SettleCreate(c)
    PROVE  SerialInv'
<1> DEFINE h == calls[c]
<1>1. PICK y \in h.todo, b \in BalanceIds \ DOMAIN balances :
        /\ IsNext(y, h.todo)
        /\ balances' = Put(balances, b, NewBalance(h.user, y))
        /\ Hold(c, b, 0, 0)
  BY DEF SettleCreate
<1>2. /\ h.pc = "settleCreate" /\ h.op = "approve"
      /\ h.todo \in SUBSET Years
      /\ HandlerOK(h) /\ TypeOK
      /\ UNCHANGED requests
      /\ BalancesFor(h.user, y) = {}
  BY <1>1 DEF SettleCreate, At, SerialInv, IInv, TypeOK, Call, HandlerOK,
              OnRoute, BalanceReadOK
<1>3. OneBalancePerYear'
  BY <1>1, <1>2, OnlyBalance DEF SerialInv
<1>4. PICK x :
        /\ calls' = [calls EXCEPT ![c] = x]
        /\ x.pc = "charge" /\ x.bal = b
        /\ x.taken = 0 /\ x.owed = 0
        /\ x.op = h.op /\ x.req = h.req /\ x.user = h.user
        /\ x.start = h.start /\ x.end = h.end /\ x.todo = h.todo
  BY <1>1, <1>2, HoldLocals
<1>5. balances'[b] = [user |-> h.user, year |-> y, taken |-> 0, owed |-> 0]
  BY <1>1 DEF Put, NewBalance
<1>6. \A z \in h.todo : IsNext(z, h.todo) => z = y
  BY <1>1, <1>2, NextUnique
<1> HIDE DEF h
<1>7. HandlerOK(x)'
  BY <1>2, <1>4, <1>5, <1>6 DEF HandlerOK, OnRoute, ChecksOK, ReadOK, Deciding,
     BalanceReadOK
<1>8. \A k \in Calls : HandlerOK(calls[k])'
  BY <1>2, <1>4, <1>7, SerialCalls
<1> QED
  BY <1>2, <1>3, <1>8, RequestsKept DEF SerialInv

\* The charge of the year y by c: what it makes of the balance that was read.
ChargeOf(c, y) ==
    LET b == calls[c].bal
        days == daysInYear(calls[c].start, calls[c].end, y)
    IN  /\ IsNext(y, calls[c].todo)
        /\ NextYear(c, y, "settleFind", "setStatus")
        /\ b \in DOMAIN balances
        /\ balances[b] = [user |-> calls[c].user, year |-> y,
                          taken |-> calls[c].taken, owed |-> calls[c].owed]
        /\ DOMAIN balances' = DOMAIN balances
        /\ \A a \in DOMAIN balances \ {b} : balances'[a] = balances[a]
        /\ balances'[b].user = calls[c].user
        /\ balances'[b].year = y
        /\ balances'[b].taken + balances'[b].owed
             = balances[b].taken + balances[b].owed + days
        /\ balances'[b].owed
             = balances[b].owed + Excess(balances[b].taken + days)

LEMMA ChargedRow ==
    ASSUME SerialInv, NEW c \in Calls, Charge(c)
    PROVE  \E y \in calls[c].todo : ChargeOf(c, y)
<1> DEFINE h == calls[c]
           b == h.bal
<1>1. PICK y \in h.todo :
        /\ IsNext(y, h.todo)
        /\ balances' = [balances EXCEPT
             ![b] = Settled(@, h.taken, h.owed, daysInYear(h.start, h.end, y))]
        /\ NextYear(c, y, "settleFind", "setStatus")
  BY DEF Charge
<1> DEFINE days == daysInYear(h.start, h.end, y)
<1>2. /\ h.pc = "charge" /\ HandlerOK(h) /\ SnapshotOK(h)
      /\ h \in Call
  BY DEF Charge, At, SerialInv, IInv, CallsOK, TypeOK
<1>3. /\ b \in DOMAIN balances
      /\ balances[b] = [user |-> h.user, year |-> y, taken |-> h.taken,
                        owed |-> h.owed]
  BY <1>1, <1>2 DEF HandlerOK, BalanceReadOK, SnapshotOK
<1>4. days \in Nat /\ h.taken \in Nat /\ h.owed \in Nat
  BY <1>2, DaysAreCounted DEF Call
<1> HIDE DEF h, days
<1>5. balances' = [balances EXCEPT
                     ![b] = Settled(balances[b], h.taken, h.owed, days)]
  BY <1>1 DEF h, days
<1>6. balances'[b] = Settled(balances[b], h.taken, h.owed, days)
  BY <1>3, <1>5
<1> HIDE DEF b
<1> DEFINE total == h.taken + days
           excess == Excess(total)
           taken == total - excess
           owed == h.owed + excess
           row == [balances[b] EXCEPT !.taken = taken, !.owed = owed]
<1>7. balances'[b] = row
  BY <1>6 DEF Settled
<1>8. excess \in Nat
  BY <1>4, ConstantsAssumption DEF Excess
<1> HIDE DEF excess
<1>9. taken + owed = h.taken + h.owed + days
  BY <1>4, <1>8
<1> HIDE DEF taken
<1>10. owed = balances[b].owed + Excess(balances[b].taken + days)
  BY <1>3 DEF excess
<1> HIDE DEF owed
<1>11. /\ balances'[b].user = h.user /\ balances'[b].year = y
       /\ balances'[b].taken + balances'[b].owed
            = balances[b].taken + balances[b].owed + days
       /\ balances'[b].owed
            = balances[b].owed + Excess(balances[b].taken + days)
  <2>1. /\ row.user = h.user /\ row.year = y
        /\ row.taken = taken /\ row.owed = owed
        /\ balances[b].taken = h.taken /\ balances[b].owed = h.owed
    BY <1>3
  <2> HIDE DEF row
  <2> QED
    BY <1>7, <1>9, <1>10, <2>1
<1>12. /\ DOMAIN balances' = DOMAIN balances
       /\ \A a \in DOMAIN balances \ {b} : balances'[a] = balances[a]
  BY <1>5
<1> QED
  BY <1>1, <1>3, <1>11, <1>12 DEF h, days, b, ChargeOf

LEMMA ChargeSerial ==
    ASSUME Serial, SerialInv, IInv', NEW c \in Calls, Charge(c)
    PROVE  SerialInv'
<1> DEFINE h == calls[c]
<1>0. PICK y \in h.todo : ChargeOf(c, y)
  BY ChargedRow
<1>1. /\ NextYear(c, y, "settleFind", "setStatus")
      /\ h.bal \in DOMAIN balances
      /\ balances[h.bal].user = h.user
      /\ balances[h.bal].year = y
      /\ DOMAIN balances' = DOMAIN balances
      /\ \A a \in DOMAIN balances \ {h.bal} : balances'[a] = balances[a]
      /\ balances'[h.bal].user = h.user
      /\ balances'[h.bal].year = y
  BY <1>0 DEF ChargeOf
<1>2. /\ h.pc = "charge" /\ HandlerOK(h) /\ TypeOK
      /\ UNCHANGED requests
  BY DEF Charge, At, SerialInv, IInv
<1>3. OneBalancePerYear'
  <2>1. \A a \in DOMAIN balances :
           /\ balances'[a].user = balances[a].user
           /\ balances'[a].year = balances[a].year
    <3> TAKE a \in DOMAIN balances
    <3>1. CASE a = h.bal
      BY <1>1, <3>1
    <3>2. CASE a # h.bal
      <4>1. balances'[a] = balances[a]
        BY <1>1, <3>2
      <4> QED
        BY <4>1
    <3> QED
      BY <3>1, <3>2
  <2> QED
    BY <1>1, <2>1 DEF SerialInv, OneBalancePerYear
<1>4. PICK x :
        /\ calls' = [calls EXCEPT ![c] = x]
        /\ x.pc = IF x.todo = {} THEN "setStatus" ELSE "settleFind"
        /\ x.op = h.op /\ x.req = h.req /\ x.user = h.user
        /\ x.start = h.start /\ x.end = h.end /\ x.todo = h.todo \ {y}
  BY <1>1, <1>2, YearLocals
<1> HIDE DEF h
<1>5. HandlerOK(x)
  BY <1>2, <1>4 DEF HandlerOK, OnRoute, ChecksOK, ReadOK, Deciding,
     BalanceReadOK
<1>6. HandlerOK(x)'
  BY <1>2, <1>4, <1>5, SameRequests
<1>7. \A k \in Calls : HandlerOK(calls[k])'
  BY <1>2, <1>4, <1>6, SerialCalls
<1> QED
  BY <1>2, <1>3, <1>7, RequestsKept DEF SerialInv

-----------------------------------------------------------------------------
(* One handler at a time: the theorems. *)

LEMMA InitSerial == Init => SerialInv
<1> SUFFICES ASSUME Init PROVE SerialInv
  OBVIOUS
<1>1. DOMAIN requests = {} /\ DOMAIN balances = {}
  BY DEF Init
<1>2. IsFiniteSet(DOMAIN requests)
  BY <1>1, FS_EmptySet
<1>3. OneBalancePerYear /\ OnePendingPerYear /\ NoOverlap
  BY <1>1 DEF OneBalancePerYear, OnePendingPerYear, NoOverlap
<1>4. \A c \in Calls : HandlerOK(calls[c])
  BY IdleOK DEF Init
<1> QED
  BY <1>2, <1>3, <1>4, InitInv DEF SerialInv

LEMMA NextSerial ==
    ASSUME Serial, SerialInv, [Next]_vars
    PROVE  SerialInv'
<1>1. IInv'
  BY StepInv DEF SerialInv
<1>2. ASSUME NEW c \in Calls, Begin(c)
      PROVE  SerialInv'
  BY <1>1, <1>2, BeginGenerateSerial, BeginUpdateSerial, BeginProcessSerial,
     BeginDeleteSerial, BeginViewSerial DEF Begin
<1>3. ASSUME NEW c \in Calls, Step(c)
      PROVE  SerialInv'
  BY <1>1, <1>3, CheckPendingSerial, CheckOverlapSerial, InsertRequestSerial,
     WriteRequestSerial, SettleFindSerial, SettleCreateSerial, ChargeSerial,
     SetStatusSerial, InsertLogSerial, EraseRequestSerial, FindBalanceSerial,
     CreateBalanceSerial DEF Step
<1>4. ASSUME NEW c \in Calls, Abort(c)
      PROVE  SerialInv'
  BY <1>1, <1>4, ReturnSerial DEF Abort
<1>5. CASE UNCHANGED vars
  <2>1. \A c \in Calls : HandlerOK(calls[c])'
    BY <1>5, SameTables DEF vars, SerialInv
  <2> QED
    BY <1>1, <1>5, <2>1 DEF vars, SerialInv, OneBalancePerYear,
       OnePendingPerYear, NoOverlap, Pending, Proper, Exists
<1> QED
  BY <1>2, <1>3, <1>4, <1>5 DEF Next

\* One handler at a time, what a handler has read is still so when it writes,
\* although handlers are cut short.
THEOREM SerialInvariant ==
    ASSUME Serial
    PROVE  Spec => []SerialInv
<1>1. Init => SerialInv
  BY InitSerial
<1>2. SerialInv /\ [Next]_vars => SerialInv'
  BY NextSerial
<1> QED
  BY <1>1, <1>2, PTL DEF Spec

\* One handler at a time, no two pending requests of a user, of those with
\* their dates in order, start in one year (lines 118-120 and 212-216).
THEOREM PendingSound ==
    ASSUME Serial
    PROVE  Spec => []OnePendingPerYear
<1>1. SerialInv => OnePendingPerYear
  BY DEF SerialInv
<1> QED
  BY <1>1, SerialInvariant, PTL

\* One handler at a time, no two requests of a user share a day: those filed
\* are compared year by year, those amended by their dates (lines 122-126 and
\* 218-221).
THEOREM OverlapSound ==
    ASSUME Serial
    PROVE  Spec => []NoOverlap
<1>1. SerialInv => NoOverlap
  BY DEF SerialInv
<1> QED
  BY <1>1, SerialInvariant, PTL

\* One handler at a time, a step finds the request it writes pending.
LEMMA DecidedKept ==
    ASSUME Serial, SerialInv, [Next]_vars, NEW r, Decided(r)
    PROVE  r \in DOMAIN requests' /\ requests'[r] = requests[r]
<1>1. ~Pending(r) /\ r \in DOMAIN requests
  BY DEF Decided, Pending, Verdicts, Exists
<1>2. CASE UNCHANGED requests
  BY <1>1, <1>2
<1>3. ASSUME NEW c \in Calls,
             \/ InsertRequest(c) \/ WriteRequest(c) \/ EraseRequest(c)
             \/ SetApproved(c) \/ SetRejected(c)
      PROVE  r \in DOMAIN requests' /\ requests'[r] = requests[r]
  <2> DEFINE h == calls[c]
  <2>1. HandlerOK(h) /\ LocalsOK(h) /\ FreshId(c) /\ TypeOK
    BY DEF SerialInv, IInv, CallsOK
  <2>2. CASE InsertRequest(c)
    <3>1. r # h.req
      BY <1>1, <2>1, <2>2 DEF InsertRequest, At, LocalsOK, FreshId, TypeOK
    <3> QED
      BY <1>1, <2>2, <3>1 DEF InsertRequest, Put
  <2>3. CASE \/ WriteRequest(c) \/ EraseRequest(c)
             \/ SetApproved(c) \/ SetRejected(c)
    <3>1. Pending(h.req)
      BY <2>1, <2>3 DEF WriteRequest, EraseRequest, SetApproved, SetRejected,
         SetStatus, At, HandlerOK, OnRoute, ReadOK, Deciding, Pending, Exists
    <3>2. r # h.req
      BY <1>1, <3>1
    <3> QED
      BY <1>1, <2>3, <3>2 DEF WriteRequest, EraseRequest, Remove, SetApproved,
         SetRejected, SetStatus
  <2> QED
    BY <1>3, <2>2, <2>3
<1>4. ASSUME NEW c \in Calls, Begin(c) \/ Abort(c)
      PROVE  UNCHANGED requests
  BY <1>4 DEF Begin, BeginGenerate, BeginUpdate, BeginProcess, BeginDelete,
     BeginView, Abort
<1>5. ASSUME NEW c \in Calls, Step(c)
      PROVE  \/ UNCHANGED requests
             \/ InsertRequest(c) \/ WriteRequest(c) \/ EraseRequest(c)
             \/ SetApproved(c) \/ SetRejected(c)
  BY <1>5 DEF Step, GenerateCheckPending, GenerateCheckOverlap,
     UpdateCheckPending, UpdateCheckOverlap, SettleFind, SettleCreate, Charge,
     LogApproved, LogRejected, InsertLog, FindBalance, CreateBalance
<1>6. CASE UNCHANGED vars
  BY <1>2, <1>6 DEF vars
<1> QED
  BY <1>2, <1>3, <1>4, <1>5, <1>6 DEF Next

\* One handler at a time, a decided request is not updated, deleted or decided
\* again, whatever is cut short (lines 180, 272 and 287).
THEOREM DecidedIsFinalSound ==
    ASSUME Serial
    PROVE  Spec => DecidedIsFinal
<1>1. SerialInv /\ [Next]_vars
        => [\A r \in Requests :
              Decided(r) => r \in DOMAIN requests' /\ requests'[r] = requests[r]]_vars
  BY DecidedKept
<1> QED
  BY <1>1, SerialInvariant, PTL DEF Spec, DecidedIsFinal

-----------------------------------------------------------------------------
(* Sums of sizes of sets. *)

LEMMA TallyNone ==
    ASSUME NEW f, DOMAIN f = {}
    PROVE  Tally(f) = 0
<1>1. Counted(f) = {}
  BY DEF Counted
<1> QED
  BY <1>1, FS_EmptySet DEF Tally

\* The elements of one set, told apart from all others.
LEMMA CountedOne ==
    ASSUME NEW x, NEW S, IsFiniteSet(S)
    PROVE  IsFiniteSet({x} \X S) /\ Cardinality({x} \X S) = Cardinality(S)
<1>1. IsFiniteSet({x}) /\ Cardinality({x}) = 1
  BY FS_Singleton
<1>2. Cardinality(S) \in Nat
  BY FS_CardinalityType
<1>3. /\ IsFiniteSet({x} \X S)
      /\ Cardinality({x} \X S) = Cardinality({x}) * Cardinality(S)
  BY <1>1, FS_Product
<1>4. 1 * Cardinality(S) = Cardinality(S)
  BY <1>2
<1> QED
  BY <1>1, <1>3, <1>4

LEMMA TallyOne ==
    ASSUME NEW f, NEW x, DOMAIN f = {x}, IsFiniteSet(f[x])
    PROVE  Tally(f) = Cardinality(f[x])
<1>1. Counted(f) = {x} \X f[x]
  BY DEF Counted
<1> QED
  BY <1>1, CountedOne DEF Tally

\* One set more.
LEMMA TallyMore ==
    ASSUME NEW f, NEW g, NEW x, x \notin DOMAIN f,
           DOMAIN g = DOMAIN f \cup {x}, \A z \in DOMAIN f : g[z] = f[z],
           IsFiniteSet(Counted(f)), IsFiniteSet(g[x])
    PROVE  Tally(g) = Tally(f) + Cardinality(g[x])
<1> DEFINE new == {x} \X g[x]
<1>1. Counted(g) = Counted(f) \cup new
  BY DEF Counted
<1>2. Counted(f) \cap new = {}
  BY DEF Counted
<1>3. IsFiniteSet(new) /\ Cardinality(new) = Cardinality(g[x])
  BY CountedOne
<1> HIDE DEF new
<1>4. Cardinality(Counted(g)) = Cardinality(Counted(f)) + Cardinality(new)
                                  - Cardinality({})
  BY <1>1, <1>2, <1>3, FS_Union
<1>5. Cardinality(Counted(f)) \in Nat /\ Cardinality(new) \in Nat
  BY <1>3, FS_CardinalityType
<1> QED
  BY <1>3, <1>4, <1>5, FS_EmptySet DEF Tally

LEMMA CountedFinite ==
    ASSUME NEW f, NEW D, IsFiniteSet(DOMAIN f), IsFiniteSet(D),
           \A x \in DOMAIN f : f[x] \subseteq D
    PROVE  IsFiniteSet(Counted(f))
<1>1. IsFiniteSet((DOMAIN f) \X D)
  BY FS_Product
<1>2. Counted(f) \subseteq (DOMAIN f) \X D
  BY DEF Counted
<1> QED
  BY <1>1, <1>2, FS_Subset

\* The days of a span in a year are a finite set of days.
LEMMA WithinFinite ==
    ASSUME NEW s \in Days, NEW e \in Days, NEW y
    PROVE  /\ IsFiniteSet(DaysWithin(s, e, y))
           /\ DaysWithin(s, e, y) \subseteq Days
           /\ Cardinality(DaysWithin(s, e, y)) = daysInYear(s, e, y)
           /\ y \notin splitYears(s, e) => daysInYear(s, e, y) = 0
<1>1. s \in Int /\ e \in Int
  BY ConstantsAssumption DEF Days
<1>2. IsFiniteSet(s..e)
  BY <1>1, FS_Interval
<1>3. IsFiniteSet(DaysWithin(s, e, y))
  BY <1>2, FS_Subset DEF DaysWithin
<1>4. DaysWithin(s, e, y) \subseteq Days
  BY <1>1, ConstantsAssumption DEF DaysWithin, Days
<1>5. Cardinality(DaysWithin(s, e, y)) = daysInYear(s, e, y)
  BY DEF DaysWithin, daysInYear
<1>6. ASSUME y \notin splitYears(s, e) PROVE daysInYear(s, e, y) = 0
  <2>1. {d \in s..e : YearOf[d] = y} = {}
    BY <1>6 DEF splitYears
  <2> QED
    BY <2>1, FS_EmptySet DEF daysInYear
<1> QED
  BY <1>3, <1>4, <1>5, <1>6

-----------------------------------------------------------------------------
(* One handler at a time: the books. *)

\* A user's year has at most one balance.
LEMMA Held ==
    TypeOK /\ OneBalancePerYear =>
      \A u, y :
         /\ BalancesFor(u, y) = {} => DaysHeld(u, y) = 0
         /\ \A b \in BalancesFor(u, y) :
              DaysHeld(u, y) = balances[b].taken + balances[b].owed
<1> SUFFICES ASSUME TypeOK, OneBalancePerYear, NEW u, NEW y
             PROVE  /\ BalancesFor(u, y) = {} => DaysHeld(u, y) = 0
                    /\ \A b \in BalancesFor(u, y) :
                         DaysHeld(u, y) = balances[b].taken + balances[b].owed
  OBVIOUS
<1> DEFINE f == [b \in BalancesFor(u, y) |->
                   1..(balances[b].taken + balances[b].owed)]
<1>1. BalancesFor(u, y) = {} => DaysHeld(u, y) = 0
  BY TallyNone DEF DaysHeld
<1>2. ASSUME NEW b \in BalancesFor(u, y)
      PROVE  DaysHeld(u, y) = balances[b].taken + balances[b].owed
  <2> DEFINE n == balances[b].taken + balances[b].owed
  <2>1. DOMAIN f = {b}
    BY DEF BalancesFor, OneBalancePerYear
  <2>2. n \in Nat
    BY DEF BalancesFor, TypeOK, BalanceRow
  <2>3. f[b] = 1..n
    OBVIOUS
  <2> HIDE DEF n
  <2>4. IsFiniteSet(1..n) /\ Cardinality(1..n) = n
    BY <2>2, FS_Interval
  <2>5. Tally(f) = n
    BY <2>1, <2>3, <2>4, TallyOne
  <2> QED
    BY <2>5 DEF DaysHeld, n
<1> QED
  BY <1>1, <1>2

\* The days the handler has charged and not decided.
UnderwayOf(call, u, y) ==
    IF /\ call.op = "approve" /\ call.pc # "log"
       /\ call.user = u /\ y \notin call.todo
    THEN daysInYear(call.start, call.end, y) ELSE 0

LEMMA Underway ==
    ASSUME Serial
    PROVE  TypeOK => \A c \in Calls : \A u, y :
                       /\ DaysUnderway(u, y) = UnderwayOf(calls[c], u, y)
                       /\ DaysUnderway(u, y) \in Nat
<1> SUFFICES ASSUME TypeOK, NEW c \in Calls, NEW u, NEW y
             PROVE  /\ DaysUnderway(u, y) = UnderwayOf(calls[c], u, y)
                    /\ DaysUnderway(u, y) \in Nat
  OBVIOUS
<1> DEFINE h == calls[c]
           f == [k \in Charging(u, y) |->
                   DaysWithin(calls[k].start, calls[k].end, y)]
<1>1. h.start \in Days /\ h.end \in Days
  BY DEF TypeOK, Call
<1>2. CASE /\ h.op = "approve" /\ h.pc # "log"
           /\ h.user = u /\ y \notin h.todo
  <2>1. DOMAIN f = {c} /\ f[c] = DaysWithin(h.start, h.end, y)
    BY <1>2 DEF Charging, Serial, At
  <2>2. IsFiniteSet(f[c]) /\ Cardinality(f[c]) = daysInYear(h.start, h.end, y)
    BY <1>1, <2>1, WithinFinite
  <2>3. daysInYear(h.start, h.end, y) \in Nat
    BY <1>1, DaysAreCounted
  <2>4. Tally(f) = daysInYear(h.start, h.end, y)
    BY <2>1, <2>2, TallyOne
  <2> QED
    BY <1>2, <2>3, <2>4 DEF DaysUnderway, UnderwayOf
<1>3. CASE ~(/\ h.op = "approve" /\ h.pc # "log"
             /\ h.user = u /\ y \notin h.todo)
  <2>1. DOMAIN f = {}
    BY <1>3 DEF Charging, Serial, At
  <2>2. Tally(f) = 0
    BY <2>1, TallyNone
  <2> QED
    BY <1>3, <2>2 DEF DaysUnderway, UnderwayOf
<1> QED
  BY <1>2, <1>3

LEMMA ApprovedCounted ==
    ASSUME SerialInv, NEW u, NEW y
    PROVE  /\ IsFiniteSet(Counted([r \in ApprovedOf(u) |->
                DaysWithin(requests[r].start, requests[r].end, y)]))
           /\ DaysApproved(u, y) \in Nat
<1> DEFINE f == [r \in ApprovedOf(u) |->
                   DaysWithin(requests[r].start, requests[r].end, y)]
<1>1. IsFiniteSet(DOMAIN f)
  <2>1. ApprovedOf(u) \subseteq DOMAIN requests
    BY DEF ApprovedOf
  <2> QED
    BY <2>1, FS_Subset DEF SerialInv
<1>2. \A r \in DOMAIN f : f[r] \subseteq Days
  BY WithinFinite DEF ApprovedOf, SerialInv, IInv, TypeOK, RequestRow
<1>3. IsFiniteSet(Days)
  BY ConstantsAssumption, FS_Interval DEF Days
<1>4. IsFiniteSet(Counted(f))
  BY <1>1, <1>2, <1>3, CountedFinite
<1> QED
  BY <1>4, FS_CardinalityType DEF DaysApproved, Tally

LEMMA HeldCounted ==
    ASSUME SerialInv, NEW u, NEW y
    PROVE  DaysHeld(u, y) \in Nat
<1>1. TypeOK /\ OneBalancePerYear
  BY DEF SerialInv, IInv
<1>2. CASE BalancesFor(u, y) = {}
  BY <1>1, <1>2, Held
<1>3. ASSUME NEW b \in BalancesFor(u, y)
      PROVE  DaysHeld(u, y) \in Nat
  <2>1. balances[b].taken + balances[b].owed \in Nat
    BY <1>1 DEF BalancesFor, TypeOK, BalanceRow
  <2> QED
    BY <1>1, <2>1, Held
<1> QED
  BY <1>2, <1>3

\* The same of the next state.
LEMMA HeldNext ==
    (TypeOK /\ OneBalancePerYear =>
      \A u, y :
         /\ BalancesFor(u, y) = {} => DaysHeld(u, y) = 0
         /\ \A b \in BalancesFor(u, y) :
              DaysHeld(u, y) = balances[b].taken + balances[b].owed)'
BY Held, PTL

LEMMA UnderwayNext ==
    ASSUME Serial
    PROVE  (TypeOK => \A c \in Calls : \A u, y :
                        /\ DaysUnderway(u, y) = UnderwayOf(calls[c], u, y)
                        /\ DaysUnderway(u, y) \in Nat)'
BY Underway, PTL

\* The balances of a user's year are the same rows with the same days.
LEMMA HeldKept ==
    ASSUME SerialInv, SerialInv', NEW u, NEW y,
           BalancesFor(u, y)' = BalancesFor(u, y),
           \A b \in BalancesFor(u, y) :
              balances'[b].taken + balances'[b].owed
                = balances[b].taken + balances[b].owed
    PROVE  DaysHeld(u, y)' = DaysHeld(u, y)
<1>1. TypeOK /\ OneBalancePerYear /\ (TypeOK /\ OneBalancePerYear)'
  BY DEF SerialInv, IInv
<1>2. CASE BalancesFor(u, y) = {}
  BY <1>1, <1>2, Held, HeldNext
<1>3. ASSUME NEW b \in BalancesFor(u, y)
      PROVE  DaysHeld(u, y)' = DaysHeld(u, y)
  <2>1. DaysHeld(u, y) = balances[b].taken + balances[b].owed
    BY <1>1, Held
  <2>2. DaysHeld(u, y)' = balances'[b].taken + balances'[b].owed
    BY <1>1, HeldNext
  <2> QED
    BY <2>1, <2>2
<1> QED
  BY <1>2, <1>3

\* The approved requests of a user are the same.
LEMMA ApprovedKept ==
    ASSUME NEW u, NEW y, ApprovedOf(u)' = ApprovedOf(u),
           \A r \in ApprovedOf(u) :
              /\ requests'[r].start = requests[r].start
              /\ requests'[r].end = requests[r].end
    PROVE  DaysApproved(u, y)' = DaysApproved(u, y)
<1>1. [r \in ApprovedOf(u) |->
         DaysWithin(requests[r].start, requests[r].end, y)]'
        = [r \in ApprovedOf(u) |->
             DaysWithin(requests[r].start, requests[r].end, y)]
  BY DEF DaysWithin
<1> QED
  BY <1>1 DEF DaysApproved

\* A step of c leaves the books alone.
BooksKept ==
    \A u, y : /\ DaysHeld(u, y)' = DaysHeld(u, y)
              /\ DaysApproved(u, y)' = DaysApproved(u, y)
              /\ DaysUnderway(u, y)' = DaysUnderway(u, y)

\* A step that leaves the days of the balances, the approved requests and what
\* the handler has charged alone.
LEMMA KeepsBooks ==
    ASSUME Serial, SerialInv, SerialInv', NEW c \in Calls,
           \A u, y : UnderwayOf(calls[c], u, y)' = UnderwayOf(calls[c], u, y),
           \A u, y : DaysHeld(u, y)' = DaysHeld(u, y),
           \A u : ApprovedOf(u)' = ApprovedOf(u),
           \A r \in DOMAIN requests :
              requests[r].status = "APPROVED" =>
                r \in DOMAIN requests' /\ requests'[r] = requests[r]
    PROVE  BooksKept
<1> SUFFICES ASSUME NEW u, NEW y
             PROVE  /\ DaysHeld(u, y)' = DaysHeld(u, y)
                    /\ DaysApproved(u, y)' = DaysApproved(u, y)
                    /\ DaysUnderway(u, y)' = DaysUnderway(u, y)
  BY DEF BooksKept
<1>1. DaysHeld(u, y)' = DaysHeld(u, y)
  OBVIOUS
<1>2. DaysApproved(u, y)' = DaysApproved(u, y)
  BY ApprovedKept DEF ApprovedOf
<1>3. DaysUnderway(u, y)' = DaysUnderway(u, y)
  <2>1. TypeOK /\ TypeOK'
    BY DEF SerialInv, IInv
  <2>2. DaysUnderway(u, y) = UnderwayOf(calls[c], u, y)
    BY <2>1, Underway
  <2>3. DaysUnderway(u, y)' = UnderwayOf(calls[c], u, y)'
    BY <2>1, UnderwayNext
  <2> QED
    BY <2>2, <2>3
<1> QED
  BY <1>1, <1>2, <1>3

\* No days are under way outside an approval, before its loop and after it has
\* written the status.
Uncharged(call) ==
    \/ call.op # "approve"
    \/ call.pc = "log"
    \/ call.todo = splitYears(call.start, call.end)

LEMMA NoneUnderway ==
    SerialInv => \A c \in Calls :
      Uncharged(calls[c]) => \A u, y : UnderwayOf(calls[c], u, y) = 0
<1> SUFFICES ASSUME SerialInv, NEW c \in Calls, Uncharged(calls[c]),
                    NEW u, NEW y
             PROVE  UnderwayOf(calls[c], u, y) = 0
  OBVIOUS
<1>1. calls[c].start \in Days /\ calls[c].end \in Days
  BY DEF SerialInv, IInv, TypeOK, Call
<1>2. y \notin splitYears(calls[c].start, calls[c].end)
        => daysInYear(calls[c].start, calls[c].end, y) = 0
  BY <1>1, WithinFinite
<1> QED
  BY <1>2 DEF Uncharged, UnderwayOf

LEMMA NoneUnderwayNext ==
    (SerialInv => \A c \in Calls :
      Uncharged(calls[c]) => \A u, y : UnderwayOf(calls[c], u, y) = 0)'
BY NoneUnderway, PTL

\* Nothing is under way before or after.
LEMMA UnchargedStep ==
    ASSUME SerialInv, SerialInv', NEW c \in Calls, Uncharged(calls[c]),
           Uncharged(calls[c])'
    PROVE  \A u, y : UnderwayOf(calls[c], u, y)' = UnderwayOf(calls[c], u, y)
<1>1. \A u, y : UnderwayOf(calls[c], u, y) = 0
  BY NoneUnderway
<1>2. \A u, y : UnderwayOf(calls[c], u, y)' = 0
  BY NoneUnderwayNext
<1> QED
  BY <1>1, <1>2

\* A statement ends the handler or keeps what it is asked to do.
LEMMA StepKeepsOp ==
    ASSUME TypeOK, NEW c \in Calls, Step(c)
    PROVE  calls'[c].op \in {calls[c].op, "none"}
<1>1. \/ Return(c)
      \/ \E p : Goto(c, p)
      \/ \E y, loop, exit : NextYear(c, y, loop, exit)
      \/ \E b, taken, owed : Hold(c, b, taken, owed)
  BY DEF Step, GenerateCheckPending, GenerateCheckOverlap, UpdateCheckPending,
     UpdateCheckOverlap, InsertRequest, WriteRequest, SettleFind, SettleCreate,
     Charge, SetApproved, SetRejected, SetStatus, LogApproved, LogRejected,
     EraseRequest, FindBalance, CreateBalance, AfterBalance
<1>2. \E x : calls' = [calls EXCEPT ![c] = x] /\ x.op \in {calls[c].op, "none"}
  <2>1. CASE Return(c)
    <3>1. Idle.op = "none"
      BY DEF Idle
    <3> QED
      BY <2>1, <3>1 DEF Return
  <2>2. CASE \E p : Goto(c, p)
    BY <2>2, GotoLocals
  <2>3. CASE \E y, loop, exit : NextYear(c, y, loop, exit)
    BY <2>3, YearLocals
  <2>4. CASE \E b, taken, owed : Hold(c, b, taken, owed)
    BY <2>4, HoldLocals
  <2> QED
    BY <1>1, <2>1, <2>2, <2>3, <2>4
<1> QED
  BY <1>2 DEF TypeOK

\* A request becomes approved in SetApproved only.
LEMMA ApprovedBefore ==
    ASSUME SerialInv, NEW c \in Calls, ~SetApproved(c),
           Begin(c) \/ Step(c) \/ Abort(c),
           NEW r \in DOMAIN requests', requests'[r].status = "APPROVED"
    PROVE  r \in DOMAIN requests /\ requests[r].status = "APPROVED"
<1>1. CASE UNCHANGED requests
  BY <1>1
<1>2. CASE Begin(c) \/ Abort(c)
  BY <1>2 DEF Begin, BeginGenerate, BeginUpdate, BeginProcess, BeginDelete,
     BeginView, Abort
<1>3. CASE InsertRequest(c)
  BY <1>3 DEF InsertRequest, Put
<1>4. CASE EraseRequest(c)
  BY <1>4 DEF EraseRequest, Remove
<1>5. CASE WriteRequest(c) \/ SetRejected(c)
  <2>1. \A q \in DOMAIN requests : requests[q] \in RequestRow
    BY DEF SerialInv, IInv, TypeOK
  <2>2. r \in DOMAIN requests
    BY <1>5 DEF WriteRequest, SetRejected, SetStatus
  <2>3. requests'[r].status \in {requests[r].status, "REJECTED"}
    <3>1. CASE WriteRequest(c)
      <4> DEFINE q == calls[c].req
                 new == [requests[q] EXCEPT !.user = calls[c].user,
                                            !.start = calls[c].start,
                                            !.end = calls[c].end]
      <4>1. \/ UNCHANGED requests
            \/ q \in DOMAIN requests /\ requests' = [requests EXCEPT ![q] = new]
        BY <3>1 DEF WriteRequest, Exists
      <4>2. q \in DOMAIN requests => new.status = requests[q].status
        BY <2>1 DEF RequestRow
      <4> HIDE DEF new
      <4> QED
        BY <2>2, <4>1, <4>2
    <3>2. CASE SetRejected(c)
      BY <2>1, <2>2, <3>2 DEF SetRejected, SetStatus, RequestRow
    <3> QED
      BY <1>5, <3>1, <3>2
  <2> QED
    BY <2>2, <2>3
<1>6. CASE Step(c)
  <2>1. \/ UNCHANGED requests
        \/ InsertRequest(c) \/ WriteRequest(c) \/ EraseRequest(c)
        \/ SetRejected(c)
    BY <1>6 DEF Step, GenerateCheckPending, GenerateCheckOverlap,
       UpdateCheckPending, UpdateCheckOverlap, SettleFind, SettleCreate,
       Charge, LogApproved, LogRejected, InsertLog, FindBalance, CreateBalance
  <2> QED
    BY <1>1, <1>3, <1>4, <1>5, <2>1
<1> QED
  BY <1>2, <1>6

\* So the approved requests stay as they are in every other step.
LEMMA ApprovedStay ==
    ASSUME Serial, SerialInv, NEW c \in Calls, ~SetApproved(c),
           Begin(c) \/ Step(c) \/ Abort(c)
    PROVE  /\ \A u : ApprovedOf(u)' = ApprovedOf(u)
           /\ \A r \in DOMAIN requests :
                requests[r].status = "APPROVED" =>
                  r \in DOMAIN requests' /\ requests'[r] = requests[r]
<1>1. \A r \in DOMAIN requests :
         requests[r].status = "APPROVED" =>
           r \in DOMAIN requests' /\ requests'[r] = requests[r]
  <2>1. Next
    BY DEF Next
  <2>2. \A r \in DOMAIN requests :
           requests[r].status = "APPROVED" => Decided(r)
    BY DEF Decided, Exists, Verdicts
  <2> QED
    BY <2>1, <2>2, DecidedKept
<1>2. \A r \in DOMAIN requests' :
         requests'[r].status = "APPROVED" =>
           r \in DOMAIN requests /\ requests[r].status = "APPROVED"
  BY ApprovedBefore
<1>3. ASSUME NEW u
      PROVE  ApprovedOf(u)' = ApprovedOf(u)
  BY <1>1, <1>2 DEF ApprovedOf
<1> QED
  BY <1>1, <1>3

\* The first statement of a handler finds nothing under way and leaves it so.
LEMMA BeginUncharged ==
    ASSUME SerialInv, SerialInv', NEW c \in Calls, Begin(c)
    PROVE  Uncharged(calls[c]) /\ Uncharged(calls[c])' /\ UNCHANGED balances
<1>1. Uncharged(calls[c])
  <2>1. calls[c].pc = "idle" /\ LocalsOK(calls[c])
    BY DEF Begin, BeginGenerate, BeginUpdate, BeginProcess, BeginDelete,
       BeginView, Start, At, SerialInv, IInv, CallsOK
  <2> QED
    BY <2>1 DEF LocalsOK, Uncharged
<1>2. calls'[c].op = "approve" => calls'[c].pc = "findBalance"
  <2>1. calls \in [Calls -> Call]
    BY DEF SerialInv, IInv, TypeOK
  <2>2. CASE BeginGenerate(c)
    BY <2>1, <2>2 DEF BeginGenerate, Start, Idle
  <2>3. CASE BeginUpdate(c)
    BY <2>1, <2>3 DEF BeginUpdate, Start, Idle
  <2>4. CASE BeginProcess(c)
    BY <2>1, <2>4 DEF BeginProcess, Start, Idle
  <2>5. CASE BeginDelete(c)
    BY <2>1, <2>5 DEF BeginDelete, Start, Idle
  <2>6. CASE BeginView(c)
    BY <2>1, <2>6 DEF BeginView, Start, Idle
  <2> QED
    BY <2>2, <2>3, <2>4, <2>5, <2>6 DEF Begin
<1>3. HandlerOK(calls[c])'
  BY DEF SerialInv
<1>4. Uncharged(calls[c])'
  BY <1>2, <1>3 DEF HandlerOK, BalanceReadOK, Uncharged
<1> QED
  BY <1>1, <1>4 DEF Begin, BeginGenerate, BeginUpdate, BeginProcess,
     BeginDelete, BeginView

\* No statement of a handler that is not an approval charges anything.
LEMMA OtherUncharged ==
    ASSUME SerialInv, NEW c \in Calls, Step(c), calls[c].op # "approve"
    PROVE  Uncharged(calls[c]) /\ Uncharged(calls[c])'
BY StepKeepsOp DEF Uncharged, SerialInv, IInv

\* The statements of an approval before its charges, between them and after its
\* decision charge nothing.
LEMMA UnderwayKept ==
    ASSUME SerialInv, SerialInv', NEW c \in Calls, Step(c),
           ~Charge(c), ~SetApproved(c)
    PROVE  \A u, y : UnderwayOf(calls[c], u, y)' = UnderwayOf(calls[c], u, y)
<1> DEFINE h == calls[c]
<1>1. HandlerOK(h) /\ LocalsOK(h) /\ TypeOK
  BY DEF SerialInv, IInv, CallsOK
<1>2. CASE h.op # "approve"
  BY <1>2, OtherUncharged, UnchargedStep
<1>3. CASE LogApproved(c)
  <2>1. h.pc = "log" /\ calls'[c].op = "none"
    BY <1>1, <1>3 DEF LogApproved, InsertLog, At, Return, Idle, TypeOK
  <2> QED
    BY <2>1, UnchargedStep DEF Uncharged
<1>4. CASE /\ h.op = "approve"
           /\ \/ SettleFind(c) \/ SettleCreate(c) \/ FindBalance(c)
              \/ CreateBalance(c)
  <2>1. h.pc \in {"settleFind", "settleCreate", "findBalance", "createBalance"}
    BY <1>4 DEF SettleFind, SettleCreate, FindBalance, CreateBalance, At
  <2>2. \/ \E p \in {"settleCreate", "createBalance", "setStatus",
                     "settleFind"} : Goto(c, p)
        \/ \E b, taken, owed : Hold(c, b, taken, owed)
    BY <1>4 DEF SettleFind, SettleCreate, FindBalance, CreateBalance,
                AfterBalance
  <2>3. \E x :
          /\ calls' = [calls EXCEPT ![c] = x]
          /\ x.pc # "log" /\ x.op = h.op /\ x.user = h.user
          /\ x.start = h.start /\ x.end = h.end /\ x.todo = h.todo
    <3>1. CASE \E p \in {"settleCreate", "createBalance", "setStatus",
                         "settleFind"} : Goto(c, p)
      BY <1>1, <3>1, GotoLocals
    <3>2. CASE \E b, taken, owed : Hold(c, b, taken, owed)
      BY <1>1, <3>2, HoldLocals
    <3> QED
      BY <2>2, <3>1, <3>2
  <2>4. /\ calls'[c].pc # "log" /\ calls'[c].op = h.op
        /\ calls'[c].user = h.user /\ calls'[c].start = h.start
        /\ calls'[c].end = h.end /\ calls'[c].todo = h.todo
    BY <1>1, <2>3 DEF TypeOK
  <2> QED
    BY <2>1, <2>4 DEF UnderwayOf
<1>5. h.op = "approve" =>
        \/ LogApproved(c) \/ SettleFind(c) \/ SettleCreate(c)
        \/ FindBalance(c) \/ CreateBalance(c)
  BY <1>1 DEF Step, GenerateCheckPending, GenerateCheckOverlap,
     UpdateCheckPending, UpdateCheckOverlap, InsertRequest, WriteRequest,
     SetRejected, SetStatus, LogRejected, InsertLog, EraseRequest, At,
     HandlerOK, OnRoute, LocalsOK
<1> QED
  BY <1>2, <1>3, <1>4, <1>5

\* A balance that is created holds no day.
LEMMA CreatedHeld ==
    ASSUME SerialInv, SerialInv', NEW b, b \notin DOMAIN balances,
           NEW v, NEW z, BalancesFor(v, z) = {},
           balances' = Put(balances, b, NewBalance(v, z)), NEW u, NEW y
    PROVE  DaysHeld(u, y)' = DaysHeld(u, y)
<1>1. /\ DOMAIN balances' = DOMAIN balances \cup {b}
      /\ balances'[b].user = v /\ balances'[b].year = z
      /\ balances'[b].taken = 0 /\ balances'[b].owed = 0
      /\ \A a \in DOMAIN balances : balances'[a] = balances[a]
  BY DEF Put, NewBalance
<1>2. CASE u = v /\ y = z
  <2>1. TypeOK /\ OneBalancePerYear /\ (TypeOK /\ OneBalancePerYear)'
    BY DEF SerialInv, IInv
  <2>2. b \in BalancesFor(u, y)'
    BY <1>1, <1>2 DEF BalancesFor
  <2>3. DaysHeld(u, y)' = balances'[b].taken + balances'[b].owed
    BY <2>1, <2>2, HeldNext
  <2>4. DaysHeld(u, y) = 0
    BY <1>2, <2>1, Held
  <2> QED
    BY <1>1, <2>3, <2>4
<1>3. CASE ~(u = v /\ y = z)
  <2>1. BalancesFor(u, y)' = BalancesFor(u, y)
    BY <1>1, <1>3 DEF BalancesFor
  <2>2. \A a \in BalancesFor(u, y) : balances'[a] = balances[a]
    BY <1>1 DEF BalancesFor
  <2> QED
    BY <2>1, <2>2, HeldKept
<1> QED
  BY <1>2, <1>3

LEMMA SameBalances ==
    ASSUME SerialInv, SerialInv', UNCHANGED balances
    PROVE  \A u, y : DaysHeld(u, y)' = DaysHeld(u, y)
BY HeldKept DEF BalancesFor

\* The steps that are no charge, no approval and no fault leave the books alone.
LEMMA QuietBooks ==
    ASSUME Serial, SerialInv, SerialInv', NEW c \in Calls,
           Begin(c) \/ Step(c), ~Charge(c), ~SetApproved(c)
    PROVE  BooksKept
<1>1. \A u, y : UnderwayOf(calls[c], u, y)' = UnderwayOf(calls[c], u, y)
  BY UnderwayKept, BeginUncharged, UnchargedStep
<1>2. \A u, y : DaysHeld(u, y)' = DaysHeld(u, y)
  <2>1. CASE UNCHANGED balances
    BY <2>1, SameBalances
  <2>2. CASE SettleCreate(c)
    <3>1. PICK y \in calls[c].todo, b \in BalanceIds \ DOMAIN balances :
            /\ IsNext(y, calls[c].todo)
            /\ balances' = Put(balances, b, NewBalance(calls[c].user, y))
      BY <2>2 DEF SettleCreate
    <3>2. BalancesFor(calls[c].user, y) = {}
      BY <2>2, <3>1 DEF SettleCreate, At, SerialInv, HandlerOK, BalanceReadOK
    <3> QED
      BY <3>1, <3>2, CreatedHeld
  <2>3. CASE CreateBalance(c)
    <3>1. PICK b \in BalanceIds \ DOMAIN balances :
            balances' = Put(balances, b,
                            NewBalance(calls[c].user, YearOf[calls[c].start]))
      BY <2>3 DEF CreateBalance
    <3>2. BalancesFor(calls[c].user, YearOf[calls[c].start]) = {}
      BY <2>3 DEF CreateBalance, At, SerialInv, HandlerOK, BalanceReadOK
    <3> QED
      BY <3>1, <3>2, CreatedHeld
  <2>4. \/ UNCHANGED balances
        \/ SettleCreate(c) \/ CreateBalance(c)
    <3>1. CASE Begin(c)
      BY <3>1, BeginUncharged
    <3>2. CASE Step(c)
      BY <3>2 DEF Step, GenerateCheckPending, GenerateCheckOverlap,
         InsertRequest, UpdateCheckPending, UpdateCheckOverlap, WriteRequest,
         SettleFind, SetApproved, SetRejected, SetStatus, LogApproved,
         LogRejected, InsertLog, EraseRequest, FindBalance
    <3> QED
      BY <3>1, <3>2
  <2> QED
    BY <2>1, <2>2, <2>3, <2>4
<1> QED
  BY <1>1, <1>2, ApprovedStay, KeepsBooks

\* A charge adds the days of a year to the balance and to what is under way.
LEMMA ChargeBooks ==
    ASSUME Serial, SerialInv, SerialInv', NEW c \in Calls, Charge(c),
           NEW u, NEW y
    PROVE  /\ DaysApproved(u, y)' = DaysApproved(u, y)
           /\ \E n \in Nat :
                /\ DaysHeld(u, y)' = DaysHeld(u, y) + n
                /\ DaysUnderway(u, y)' = DaysUnderway(u, y) + n
<1> DEFINE h == calls[c]
           b == h.bal
<1>1. PICK z \in h.todo : ChargeOf(c, z)
  BY ChargedRow
<1> DEFINE days == daysInYear(h.start, h.end, z)
<1>2. /\ b \in DOMAIN balances
      /\ balances[b].user = h.user /\ balances[b].year = z
      /\ DOMAIN balances' = DOMAIN balances
      /\ \A a \in DOMAIN balances \ {b} : balances'[a] = balances[a]
      /\ balances'[b].user = h.user
      /\ balances'[b].year = z
      /\ balances'[b].taken + balances'[b].owed
           = balances[b].taken + balances[b].owed + days
      /\ NextYear(c, z, "settleFind", "setStatus")
  BY <1>1 DEF ChargeOf
<1>3. /\ h.pc = "charge" /\ h.op = "approve"
      /\ h.start \in Days /\ h.end \in Days
      /\ TypeOK /\ TypeOK'
      /\ OneBalancePerYear /\ OneBalancePerYear'
  BY DEF Charge, At, SerialInv, IInv, TypeOK, Call, HandlerOK, OnRoute
<1>4. DaysApproved(u, y)' = DaysApproved(u, y)
  <2>1. ~SetApproved(c) /\ Step(c)
    BY <1>3 DEF SetApproved, SetStatus, At, Step
  <2> QED
    BY <2>1, ApprovedStay, ApprovedKept DEF ApprovedOf
<1>5. days \in Nat
  BY <1>3, DaysAreCounted
<1>6. /\ DaysUnderway(u, y) = UnderwayOf(h, u, y)
      /\ DaysUnderway(u, y)' = UnderwayOf(h, u, y)'
      /\ DaysUnderway(u, y) \in Nat
  BY <1>3, Underway, UnderwayNext
<1>7. PICK x :
        /\ calls' = [calls EXCEPT ![c] = x]
        /\ x.pc = IF x.todo = {} THEN "setStatus" ELSE "settleFind"
        /\ x.op = h.op /\ x.req = h.req /\ x.user = h.user
        /\ x.start = h.start /\ x.end = h.end /\ x.todo = h.todo \ {z}
  BY <1>2, <1>3, YearLocals
<1>8. UnderwayOf(h, u, y)' = UnderwayOf(x, u, y)
  BY <1>3, <1>7 DEF TypeOK, UnderwayOf
<1>9. CASE u = h.user /\ y = z
  <2>1. b \in BalancesFor(u, y) /\ b \in BalancesFor(u, y)'
    BY <1>2, <1>9 DEF BalancesFor
  <2>2. /\ DaysHeld(u, y) = balances[b].taken + balances[b].owed
        /\ DaysHeld(u, y)' = balances'[b].taken + balances'[b].owed
    BY <1>3, <2>1, Held, HeldNext
  <2>3. UnderwayOf(h, u, y) = 0
    BY <1>9 DEF UnderwayOf
  <2>4. UnderwayOf(x, u, y) = days
    BY <1>3, <1>7, <1>9 DEF UnderwayOf
  <2> HIDE DEF h, b, days
  <2> QED
    BY <1>2, <1>4, <1>5, <1>6, <1>8, <2>2, <2>3, <2>4
<1>10. CASE ~(u = h.user /\ y = z)
  <2>1. BalancesFor(u, y)' = BalancesFor(u, y)
    <3>1. \A a \in DOMAIN balances :
             a \in BalancesFor(u, y)' <=> a \in BalancesFor(u, y)
      BY <1>2, <1>10 DEF BalancesFor
    <3> QED
      BY <1>2, <3>1 DEF BalancesFor
  <2>2. \A a \in BalancesFor(u, y) : balances'[a] = balances[a]
    BY <1>2, <1>10 DEF BalancesFor
  <2>3. DaysHeld(u, y)' = DaysHeld(u, y)
    BY <2>1, <2>2, HeldKept
  <2>4. UnderwayOf(x, u, y) = UnderwayOf(h, u, y)
    BY <1>3, <1>7, <1>10 DEF UnderwayOf
  <2>5. DaysHeld(u, y) \in Nat
    BY HeldCounted
  <2> HIDE DEF h
  <2>6. /\ DaysHeld(u, y)' = DaysHeld(u, y) + 0
        /\ DaysUnderway(u, y)' = DaysUnderway(u, y) + 0
    BY <1>6, <1>8, <2>3, <2>4, <2>5
  <2> QED
    BY <1>4, <2>6
<1> QED
  BY <1>9, <1>10

\* A decision in favour makes what was under way approved: the days of the
\* request in each of its years.
LEMMA ApproveBooks ==
    ASSUME Serial, SerialInv, SerialInv', NEW c \in Calls, SetApproved(c),
           NEW u, NEW y
    PROVE  LET r == calls[c].req
           IN  /\ DaysHeld(u, y)' = DaysHeld(u, y)
               /\ DaysUnderway(u, y)' = 0
               /\ DaysUnderway(u, y) \in Nat
               /\ DaysUnderway(u, y) =
                    IF u = requests[r].user
                    THEN daysInYear(requests[r].start, requests[r].end, y)
                    ELSE 0
               /\ DaysApproved(u, y)' = DaysApproved(u, y) + DaysUnderway(u, y)
<1> DEFINE h == calls[c]
           r == h.req
<1>1. /\ h.op = "approve" /\ h.pc = "setStatus" /\ h.todo = {}
      /\ UNCHANGED balances
      /\ h.start \in Days /\ h.end \in Days
      /\ TypeOK /\ TypeOK'
  BY DEF SetApproved, SetStatus, At, SerialInv, IInv, TypeOK, Call, HandlerOK,
         BalanceReadOK
<1>2. /\ r \in DOMAIN requests
      /\ requests[r].user = h.user /\ requests[r].status = "PENDING"
      /\ requests[r].start = h.start /\ requests[r].end = h.end
  <2>1. HandlerOK(h)
    BY DEF SerialInv
  <2>2. /\ r \in DOMAIN requests
        /\ requests[r] = [user |-> h.user, start |-> h.start, end |-> h.end,
                          status |-> "PENDING"]
    BY <1>1, <2>1 DEF HandlerOK, ReadOK, Deciding
  <2> HIDE DEF h, r
  <2> QED
    BY <2>2
<1>3. Goto(c, "log") /\ requests' = [requests EXCEPT ![r].status = "APPROVED"]
  BY <1>2 DEF SetApproved, SetStatus, Exists
<1>4. calls'[c].pc = "log"
  BY <1>1, <1>3, GotoLocals DEF TypeOK
<1>5. DaysHeld(u, y)' = DaysHeld(u, y)
  BY <1>1, SameBalances
<1>6. /\ DaysUnderway(u, y) = UnderwayOf(h, u, y)
      /\ DaysUnderway(u, y)' = UnderwayOf(h, u, y)'
      /\ DaysUnderway(u, y) \in Nat
  BY <1>1, Underway, UnderwayNext
<1>7. DaysUnderway(u, y)' = 0
  BY <1>4, <1>6 DEF UnderwayOf
<1>8. DaysUnderway(u, y) = IF u = requests[r].user
                           THEN daysInYear(h.start, h.end, y) ELSE 0
  BY <1>1, <1>2, <1>6 DEF UnderwayOf
<1>9. /\ DOMAIN requests' = DOMAIN requests
      /\ \A q \in DOMAIN requests \ {r} : requests'[q] = requests[q]
      /\ requests'[r].user = h.user /\ requests'[r].status = "APPROVED"
      /\ requests'[r].start = h.start /\ requests'[r].end = h.end
  <2>1. requests[r] \in RequestRow
    BY <1>1, <1>2 DEF TypeOK
  <2> QED
    BY <1>2, <1>3, <2>1 DEF RequestRow
<1>10. CASE u # h.user
  <2>1. ApprovedOf(u)' = ApprovedOf(u)
    BY <1>2, <1>9, <1>10 DEF ApprovedOf
  <2>2. DaysApproved(u, y)' = DaysApproved(u, y)
    BY <1>2, <1>9, <2>1, ApprovedKept DEF ApprovedOf
  <2>3. DaysApproved(u, y) \in Nat
    BY ApprovedCounted
  <2>4. DaysUnderway(u, y) = 0
    BY <1>2, <1>8, <1>10
  <2> QED
    BY <1>1, <1>2, <1>5, <1>6, <1>7, <1>8, <2>2, <2>3, <2>4
<1>11. CASE u = h.user
  <2> DEFINE f == [q \in ApprovedOf(u) |->
                     DaysWithin(requests[q].start, requests[q].end, y)]
             g == [q \in ApprovedOf(u)' |->
                     DaysWithin(requests'[q].start, requests'[q].end, y)]
  <2>1. r \notin DOMAIN f
    BY <1>2 DEF ApprovedOf
  <2>2. DOMAIN g = DOMAIN f \cup {r}
    BY <1>2, <1>9, <1>11 DEF ApprovedOf
  <2>3. \A q \in DOMAIN f : g[q] = f[q]
    BY <1>9, <2>1, <2>2 DEF ApprovedOf
  <2>4. IsFiniteSet(Counted(f))
    BY ApprovedCounted
  <2>5. g[r] = DaysWithin(h.start, h.end, y)
    BY <1>9, <2>2
  <2>6. IsFiniteSet(g[r]) /\ Cardinality(g[r]) = daysInYear(h.start, h.end, y)
    BY <1>1, <2>5, WithinFinite
  <2>7. DaysApproved(u, y) = Tally(f) /\ DaysApproved(u, y)' = Tally(g)
    BY DEF DaysApproved, Tally, Counted, DaysWithin
  <2> HIDE DEF f, g
  <2>8. Tally(g) = Tally(f) + Cardinality(g[r])
    BY <2>1, <2>2, <2>3, <2>4, <2>6, TallyMore
  <2> QED
    BY <1>1, <1>2, <1>5, <1>6, <1>7, <1>8, <1>11, <2>6, <2>7, <2>8
<1> QED
  BY <1>10, <1>11

\* A handler that is cut short leaves what it has charged in the balances.
LEMMA AbortBooks ==
    ASSUME Serial, SerialInv, SerialInv', NEW c \in Calls, Abort(c),
           NEW u, NEW y
    PROVE  /\ DaysHeld(u, y)' = DaysHeld(u, y)
           /\ DaysApproved(u, y)' = DaysApproved(u, y)
           /\ DaysUnderway(u, y)' = 0
<1>1. TypeOK /\ TypeOK' /\ UNCHANGED <<requests, balances>>
      /\ calls' = [calls EXCEPT ![c] = Idle]
  BY DEF Abort, Return, SerialInv, IInv
<1>2. calls'[c].op = "none"
  <2>1. calls'[c] = Idle
    BY <1>1 DEF TypeOK
  <2> QED
    BY <2>1 DEF Idle
<1>3. DaysUnderway(u, y)' = 0
  BY <1>1, <1>2, UnderwayNext DEF UnderwayOf
<1>4. DaysApproved(u, y)' = DaysApproved(u, y)
  BY <1>1, ApprovedKept DEF ApprovedOf
<1> QED
  BY <1>1, <1>3, <1>4, SameBalances

LEMMA InitBooks ==
    ASSUME Init, NEW u, NEW y
    PROVE  /\ DaysHeld(u, y) = 0
           /\ DaysApproved(u, y) = 0
           /\ DaysUnderway(u, y) = 0
<1>1. BalancesFor(u, y) = {} /\ ApprovedOf(u) = {}
  BY DEF Init, BalancesFor, ApprovedOf
<1>2. Charging(u, y) = {}
  BY DEF Init, Charging, Idle
<1> QED
  BY <1>1, <1>2, TallyNone DEF DaysHeld, DaysApproved, DaysUnderway

LEMMA NextPaid ==
    ASSUME Serial, SerialInv, SerialInv', PaidInv, [Next]_vars
    PROVE  PaidInv'
<1> SUFFICES ASSUME NEW u \in Users, NEW y \in Years
             PROVE  DaysHeld(u, y)'
                      >= DaysApproved(u, y)' + DaysUnderway(u, y)'
  BY DEF PaidInv
<1>1. /\ DaysHeld(u, y) >= DaysApproved(u, y) + DaysUnderway(u, y)
      /\ DaysHeld(u, y) \in Nat /\ DaysApproved(u, y) \in Nat
  BY HeldCounted, ApprovedCounted DEF PaidInv
<1>2. ASSUME NEW c \in Calls
      PROVE  DaysUnderway(u, y) \in Nat
  BY Underway DEF SerialInv, IInv
<1>3. ASSUME NEW c \in Calls, Begin(c) \/ Step(c), ~Charge(c), ~SetApproved(c)
      PROVE  DaysHeld(u, y)' >= DaysApproved(u, y)' + DaysUnderway(u, y)'
  <2>1. /\ DaysHeld(u, y)' = DaysHeld(u, y)
        /\ DaysApproved(u, y)' = DaysApproved(u, y)
        /\ DaysUnderway(u, y)' = DaysUnderway(u, y)
    BY <1>3, QuietBooks DEF BooksKept
  <2> QED
    BY <1>1, <2>1
<1>4. ASSUME NEW c \in Calls, Charge(c)
      PROVE  DaysHeld(u, y)' >= DaysApproved(u, y)' + DaysUnderway(u, y)'
  BY <1>1, <1>2, <1>4, ChargeBooks
<1>5. ASSUME NEW c \in Calls, SetApproved(c)
      PROVE  DaysHeld(u, y)' >= DaysApproved(u, y)' + DaysUnderway(u, y)'
  <2>1. /\ DaysHeld(u, y)' = DaysHeld(u, y)
        /\ DaysUnderway(u, y)' = 0
        /\ DaysApproved(u, y)' = DaysApproved(u, y) + DaysUnderway(u, y)
    BY <1>5, ApproveBooks
  <2> QED
    BY <1>1, <1>2, <2>1
<1>6. ASSUME NEW c \in Calls, Abort(c)
      PROVE  DaysHeld(u, y)' >= DaysApproved(u, y)' + DaysUnderway(u, y)'
  <2>1. /\ DaysHeld(u, y)' = DaysHeld(u, y)
        /\ DaysApproved(u, y)' = DaysApproved(u, y)
        /\ DaysUnderway(u, y)' = 0
    BY <1>6, AbortBooks
  <2> QED
    BY <1>1, <1>2, <1>6, <2>1
<1>7. CASE UNCHANGED vars
  <2>1. /\ DaysHeld(u, y)' = DaysHeld(u, y)
        /\ DaysApproved(u, y)' = DaysApproved(u, y)
        /\ DaysUnderway(u, y)' = DaysUnderway(u, y)
    BY <1>7 DEF vars, DaysHeld, DaysApproved, DaysUnderway, BalancesFor,
       ApprovedOf, Charging, At
  <2> QED
    BY <1>1, <2>1
<1> QED
  BY <1>3, <1>4, <1>5, <1>6, <1>7 DEF Next

\* One handler at a time, the days of an approved request are in the balances
\* of the user's years, although approvals are cut short between their
\* statements: every year is settled before the status is written (lines
\* 422-432).
THEOREM NeverUnderchargedSound ==
    ASSUME Serial
    PROVE  Spec => []NeverUndercharged
<1>1. Init => PaidInv
  BY InitBooks DEF PaidInv
<1>2. SerialInv /\ SerialInv' /\ PaidInv /\ [Next]_vars => PaidInv'
  BY NextPaid
<1>3. SerialInv /\ PaidInv => NeverUndercharged
  <2> SUFFICES ASSUME SerialInv, PaidInv, NEW u \in Users, NEW y \in Years
               PROVE  DaysHeld(u, y) >= DaysApproved(u, y)
    BY DEF NeverUndercharged
  <2>1. /\ DaysHeld(u, y) \in Nat /\ DaysApproved(u, y) \in Nat
        /\ DaysHeld(u, y) >= DaysApproved(u, y) + DaysUnderway(u, y)
    BY HeldCounted, ApprovedCounted DEF PaidInv
  <2>2. DaysUnderway(u, y) \in Nat
    <3>1. CASE Calls = {}
      <4>1. Charging(u, y) = {}
        BY <3>1 DEF Charging
      <4> QED
        BY <4>1, TallyNone DEF DaysUnderway
    <3>2. CASE Calls # {}
      BY <3>2, Underway DEF SerialInv, IInv
    <3> QED
      BY <3>1, <3>2
  <2> QED
    BY <2>1, <2>2
<1> QED
  BY <1>1, <1>2, <1>3, SerialInvariant, PTL DEF Spec

\* The excess that is announced is the one the charge makes.
LEMMA ExcessStep ==
    ASSUME SerialInv, NEW c \in Calls, Charge(c),
           YearOf[calls[c].start] = YearOf[calls[c].end]
    PROVE  LET call == calls[c]
               y == YearOf[call.start]
               days == daysInYear(call.start, call.end, y)
           IN  balances'[call.bal].owed - balances[call.bal].owed
                 = daysExceeded(call.user, y, days)
<1> DEFINE h == calls[c]
           b == h.bal
           y == YearOf[h.start]
           days == daysInYear(h.start, h.end, y)
<1>1. PICK z \in h.todo : ChargeOf(c, z)
  BY ChargedRow
<1>2. /\ h.op = "approve" /\ h.start \in Days /\ h.end \in Days
      /\ h.todo \subseteq splitYears(h.start, h.end)
      /\ TypeOK /\ OneBalancePerYear
      /\ h.taken \in Nat /\ h.taken <= Allowance /\ h.owed \in Nat
  BY DEF Charge, At, SerialInv, IInv, TypeOK, Call, HandlerOK, OnRoute,
         BalanceReadOK, CallsOK, SnapshotOK
<1>3. z = y
  <2>1. PICK d \in h.start .. h.end : YearOf[d] = z
    BY <1>2 DEF splitYears
  <2>2. d \in Days /\ h.start <= d /\ d <= h.end
    BY <1>2, ConstantsAssumption DEF Days
  <2>3. YearOf[h.start] <= YearOf[d] /\ YearOf[d] <= YearOf[h.end]
    BY <1>2, <2>2, ConstantsAssumption
  <2>4. YearOf[h.start] \in Nat /\ YearOf[d] \in Nat
    BY <1>2, <2>2, ConstantsAssumption
  <2> QED
    BY <2>1, <2>3, <2>4
<1>4. /\ b \in DOMAIN balances
      /\ balances[b] = [user |-> h.user, year |-> y, taken |-> h.taken,
                        owed |-> h.owed]
      /\ balances'[b].owed
           = balances[b].owed + Excess(balances[b].taken + days)
  BY <1>1, <1>3 DEF ChargeOf
<1>5. BalancesFor(h.user, y) = {b}
  <2>1. balances[b].user = h.user /\ balances[b].year = y
    BY <1>4
  <2> QED
    BY <1>2, <1>4, <2>1 DEF BalancesFor, OneBalancePerYear
<1>6. days \in Nat
  BY <1>2, DaysAreCounted
<1>7. /\ getProjectedBalance(h.user, y).available = Allowance
      /\ getProjectedBalance(h.user, y).used = h.taken
  <2>1. (CHOOSE a \in {b} : TRUE) = b
    OBVIOUS
  <2>2. balances[b].taken = h.taken
    BY <1>4
  <2> QED
    BY <1>5, <2>1, <2>2 DEF getProjectedBalance
<1>8. daysExceeded(h.user, y, days)
        = IF days > Allowance - h.taken THEN days - (Allowance - h.taken) ELSE 0
  BY <1>7 DEF daysExceeded
<1>9. balances[b].taken = h.taken /\ balances[b].owed = h.owed
  BY <1>4
<1> HIDE DEF h, b, y, days
<1>10. balances'[b].owed - balances[b].owed = Excess(h.taken + days)
  <2>1. Excess(h.taken + days) \in Nat
    BY <1>2, <1>6, ConstantsAssumption DEF Excess
  <2> QED
    BY <1>2, <1>4, <1>9, <2>1
<1>11. Excess(h.taken + days) = daysExceeded(h.user, y, days)
  BY <1>2, <1>6, <1>8, ConstantsAssumption DEF Excess
<1> QED
  BY <1>10, <1>11 DEF h, b, y, days

\* One handler at a time, the excess an answer announces for a pending request
\* inside a year is the debt that its approval then adds (lines 351 and
\* 509-524).
THEOREM ExcessSound ==
    ASSUME Serial
    PROVE  Spec => ExcessIsOwed
<1>1. SerialInv /\ [Next]_vars =>
        [\A c \in Calls :
          LET call == calls[c]
              y == YearOf[call.start]
              days == daysInYear(call.start, call.end, y)
          IN  Charge(c) /\ y = YearOf[call.end] =>
                balances'[call.bal].owed - balances[call.bal].owed
                  = daysExceeded(call.user, y, days)]_vars
  BY ExcessStep
<1> QED
  BY <1>1, SerialInvariant, PTL DEF Spec, ExcessIsOwed

-----------------------------------------------------------------------------
(* One handler at a time and no faults: the service implements LeaveLedger. *)

\* The cardinality of the instantiated LeaveLedger is that of this module.
LEMMA LedgerCardinality ==
    ASSUME NEW S
    PROVE  Ledger!Cardinality(S) = Cardinality(S)
  BY DEF Ledger!Cardinality, Cardinality

\* The days of a request, as the ledger has them.
LEMMA LedgerDays ==
    ASSUME NEW s \in Days, NEW e \in Days
    PROVE  /\ Ledger!DaysOf(s, e) = s..e
           /\ \A y : Cardinality({d \in Ledger!DaysOf(s, e) : YearOf[d] = y})
                       = daysInYear(s, e, y)
<1>1. Ledger!DaysOf(s, e) = s..e
  BY ConstantsAssumption DEF Ledger!DaysOf, Ledger!Days, Days
<1> QED
  BY <1>1 DEF daysInYear

LEMMA SpentKept ==
    ASSUME \A u \in Users, y \in Years :
              /\ DaysHeld(u, y) \in Nat /\ DaysUnderway(u, y) \in Nat
              /\ \E n \in Nat :
                   /\ DaysHeld(u, y)' = DaysHeld(u, y) + n
                   /\ DaysUnderway(u, y)' = DaysUnderway(u, y) + n
    PROVE  Spent' = Spent
<1>1. \A u \in Users, y \in Years :
         DaysHeld(u, y)' - DaysUnderway(u, y)'
           = DaysHeld(u, y) - DaysUnderway(u, y)
  <2> TAKE u \in Users, y \in Years
  <2>1. PICK n \in Nat : /\ DaysHeld(u, y)' = DaysHeld(u, y) + n
                         /\ DaysUnderway(u, y)' = DaysUnderway(u, y) + n
    OBVIOUS
  <2>2. DaysHeld(u, y) \in Nat /\ DaysUnderway(u, y) \in Nat
    OBVIOUS
  <2> QED
    BY <2>1, <2>2
<1> QED
  BY <1>1 DEF Spent

\* Every step of a handler but the approval leaves what is spent alone.
LEMMA QuietSpent ==
    ASSUME Serial, SerialInv, SerialInv', NEW c \in Calls,
           Begin(c) \/ Step(c), ~SetApproved(c)
    PROVE  Spent' = Spent
<1>1. \A u, y : DaysHeld(u, y) \in Nat /\ DaysUnderway(u, y) \in Nat
  BY HeldCounted, Underway DEF SerialInv, IInv
<1>2. CASE Charge(c)
  BY <1>1, <1>2, ChargeBooks, SpentKept
<1>3. CASE ~Charge(c)
  <2>1. \A u, y : /\ DaysHeld(u, y)' = DaysHeld(u, y) + 0
                  /\ DaysUnderway(u, y)' = DaysUnderway(u, y) + 0
    BY <1>1, <1>3, QuietBooks DEF BooksKept
  <2> QED
    BY <1>1, <2>1, SpentKept
<1> QED
  BY <1>2, <1>3

LEMMA InsertFiles ==
    ASSUME Serial, SerialInv, SerialInv', NEW c \in Calls, InsertRequest(c)
    PROVE  Ledger!LedgerNext
<1> DEFINE r == calls[c].req
           u == calls[c].user
           s == calls[c].start
           e == calls[c].end
<1>1. /\ calls[c].pc = "insert" /\ calls[c].op = "generate"
      /\ r \in Requests /\ r \notin DOMAIN requests
      /\ u \in Users /\ s \in Days /\ e \in Days
  BY DEF InsertRequest, At, SerialInv, IInv, TypeOK, Call, CallsOK, LocalsOK,
         FreshId
<1>2. Ledger!Free(u, Ledger!DaysOf(s, e), r)
  <2>1. ASSUME NEW q \in DOMAIN requests \ {r}, requests[q].user = u
        PROVE  Ledger!DaysOf(requests[q].start, requests[q].end)
                 \cap Ledger!DaysOf(s, e) = {}
    <3>1. requests[q].start \in Days /\ requests[q].end \in Days
      BY DEF SerialInv, IInv, TypeOK, RequestRow
    <3>2. (requests[q].start .. requests[q].end) \cap (s..e) = {}
      BY <1>1, <2>1, ClearInsert
    <3> QED
      BY <1>1, <3>1, <3>2, LedgerDays
  <2> QED
    BY <2>1 DEF Ledger!Free
<1>3. Spent' = Spent
  BY <1>1, QuietSpent DEF Step, SetApproved, SetStatus
<1>4. Ledger!File(r, u, s, e)
  BY <1>1, <1>2, <1>3 DEF Ledger!File, InsertRequest, Put
<1> QED
  BY <1>1, <1>4 DEF Ledger!LedgerNext, Ledger!Days, Days

LEMMA WriteFiles ==
    ASSUME Serial, SerialInv, SerialInv', NEW c \in Calls, WriteRequest(c)
    PROVE  Ledger!LedgerNext
<1> DEFINE r == calls[c].req
           u == calls[c].user
           s == calls[c].start
           e == calls[c].end
<1>1. /\ calls[c].pc = "write" /\ calls[c].op = "update"
      /\ r \in Requests /\ r \in DOMAIN requests
      /\ requests[r] \in RequestRow /\ requests[r].status = "PENDING"
      /\ u \in Users /\ s \in Days /\ e \in Days
  BY DEF WriteRequest, At, SerialInv, IInv, TypeOK, Call, CallsOK, LocalsOK,
         HandlerOK, OnRoute, ReadOK, Pending, Exists
<1>2. Ledger!Free(u, Ledger!DaysOf(s, e), r)
  <2>1. ASSUME NEW q \in DOMAIN requests \ {r}, requests[q].user = u
        PROVE  Ledger!DaysOf(requests[q].start, requests[q].end)
                 \cap Ledger!DaysOf(s, e) = {}
    <3>1. requests[q].start \in Days /\ requests[q].end \in Days
      BY DEF SerialInv, IInv, TypeOK, RequestRow
    <3>2. (requests[q].start .. requests[q].end) \cap (s..e) = {}
      BY <1>1, <2>1, ClearWrite
    <3> QED
      BY <1>1, <3>1, <3>2, LedgerDays
  <2> QED
    BY <2>1 DEF Ledger!Free
<1>3. Spent' = Spent
  BY <1>1, QuietSpent DEF Step, SetApproved, SetStatus
<1>4. requests' = [q \in DOMAIN requests \cup {r} |->
                     IF q = r THEN [user |-> u, start |-> s, end |-> e,
                                    status |-> "PENDING"]
                     ELSE requests[q]]
  <2> DEFINE new == [requests[r] EXCEPT !.user = u, !.start = s, !.end = e]
  <2>1. requests' = [requests EXCEPT ![r] = new]
    BY <1>1 DEF WriteRequest, Exists
  <2>2. ASSUME NEW row \in RequestRow, NEW v \in Users, NEW f \in Days,
               NEW t \in Days
        PROVE  [row EXCEPT !.user = v, !.start = f, !.end = t]
                 = [user |-> v, start |-> f, end |-> t, status |-> row.status]
    <3> DEFINE n == [row EXCEPT !.user = v, !.start = f, !.end = t]
               m == [user |-> v, start |-> f, end |-> t,
                     status |-> row.status]
               D == {"user", "start", "end", "status"}
    <3>1. DOMAIN row = D
      BY DEF RequestRow
    <3>2. n = [x \in D |-> n[x]] /\ m = [x \in D |-> m[x]]
      BY <3>1
    <3>3. /\ n["user"] = v /\ n["start"] = f /\ n["end"] = t
          /\ n["status"] = row["status"]
      BY <3>1
    <3>4. /\ m["user"] = v /\ m["start"] = f /\ m["end"] = t
          /\ m["status"] = row["status"]
      OBVIOUS
    <3> HIDE DEF n, m
    <3>5. \A x \in D : n[x] = m[x]
      BY <3>3, <3>4
    <3> HIDE DEF D
    <3>6. [x \in D |-> n[x]] = [x \in D |-> m[x]]
      BY <3>5
    <3>7. n = m
      BY <3>2, <3>6
    <3> QED
      BY <3>7 DEF n, m
  <2>3. new = [user |-> u, start |-> s, end |-> e, status |-> "PENDING"]
    <3> HIDE DEF r, u, s, e
    <3> QED
      BY <1>1, <2>2
  <2> HIDE DEF new
  <2> QED
    BY <1>1, <2>1, <2>3
<1>5. Ledger!File(r, u, s, e)
  BY <1>1, <1>2, <1>3, <1>4 DEF Ledger!File, Ledger!Open
<1> QED
  BY <1>1, <1>5 DEF Ledger!LedgerNext, Ledger!Days, Days

LEMMA EraseWithdraws ==
    ASSUME Serial, SerialInv, SerialInv', NEW c \in Calls, EraseRequest(c)
    PROVE  [Ledger!LedgerNext]_(Ledger!ledgerVars)
<1> DEFINE r == calls[c].req
<1>1. r \in DOMAIN requests /\ requests[r].status = "PENDING"
  BY DEF EraseRequest, At, SerialInv, HandlerOK, OnRoute, ReadOK, Pending,
         Exists
<1>2. r \in Requests /\ calls[c].pc = "erase"
  BY <1>1 DEF EraseRequest, At, SerialInv, IInv, TypeOK
<1>3. Spent' = Spent
  BY <1>2, QuietSpent DEF Step, SetApproved, SetStatus, At
<1>4. requests' = requests \/ requests' = Remove(requests, r)
  BY DEF EraseRequest
<1>5. CASE requests' = requests
  BY <1>3, <1>5 DEF Ledger!ledgerVars
<1>6. CASE requests' = Remove(requests, r)
  <2>1. Ledger!Withdraw(r)
    BY <1>1, <1>3, <1>6 DEF Ledger!Withdraw, Ledger!Open, Remove
  <2> QED
    BY <1>2, <2>1 DEF Ledger!LedgerNext
<1> QED
  BY <1>4, <1>5, <1>6

LEMMA StatusDecides ==
    ASSUME Serial, SerialInv, SerialInv', NEW c \in Calls,
           SetApproved(c) \/ SetRejected(c)
    PROVE  Ledger!LedgerNext
<1> DEFINE h == calls[c]
           r == h.req
<1>1. HandlerOK(h) /\ h.pc = "setStatus" /\ h.op \in {"approve", "reject"}
  BY DEF SetApproved, SetRejected, SetStatus, At, SerialInv
<1>2. r \in DOMAIN requests /\ requests[r].status = "PENDING"
  BY <1>1 DEF HandlerOK, ReadOK, Deciding
<1>3. r \in Requests /\ requests[r] \in RequestRow
  BY <1>2 DEF SerialInv, IInv, TypeOK
<1>4. CASE SetRejected(c)
  <2>1. requests' = [requests EXCEPT ![r].status = "REJECTED"]
    BY <1>2, <1>4 DEF SetRejected, SetStatus, Exists
  <2>2. Spent' = Spent
    BY <1>4, QuietSpent DEF Step, SetApproved, SetRejected, SetStatus
  <2>3. Ledger!Reject(r)
    BY <1>2, <2>1, <2>2 DEF Ledger!Reject, Ledger!Open
  <2> QED
    BY <1>3, <2>3 DEF Ledger!LedgerNext
<1>5. CASE SetApproved(c)
  <2>1. requests' = [requests EXCEPT ![r].status = "APPROVED"]
    BY <1>2, <1>5 DEF SetApproved, SetStatus, Exists
  <2> DEFINE row == requests[r]
             add(y) == Cardinality({d \in Ledger!DaysOf(row.start, row.end) :
                                      YearOf[d] = y})
  <2>2. ASSUME NEW u \in Users, NEW y \in Years
        PROVE  DaysHeld(u, y)' - DaysUnderway(u, y)'
                 = IF u = row.user
                   THEN DaysHeld(u, y) - DaysUnderway(u, y) + add(y)
                   ELSE DaysHeld(u, y) - DaysUnderway(u, y)
    <3>1. /\ DaysHeld(u, y)' = DaysHeld(u, y)
          /\ DaysUnderway(u, y)' = 0
          /\ DaysUnderway(u, y) \in Nat
          /\ DaysUnderway(u, y) = IF u = row.user
                                  THEN daysInYear(row.start, row.end, y)
                                  ELSE 0
      BY <1>5, ApproveBooks
    <3>2. add(y) = daysInYear(row.start, row.end, y)
      BY <1>3, LedgerDays DEF RequestRow
    <3>3. DaysHeld(u, y) \in Nat
      BY HeldCounted
    <3> HIDE DEF add, row
    <3> QED
      BY <3>1, <3>2, <3>3
  <2>3. Spent' = [a \in Users \X Years |->
                    IF a[1] = row.user THEN Spent[a] + add(a[2])
                    ELSE Spent[a]]
    <3> HIDE DEF add, row
    <3> QED
      BY <2>2 DEF Spent
  <2>4. Ledger!Years = Years
    BY DEF Ledger!Years, Ledger!Days, Years, Days
  <2>5. \A y : Ledger!Cardinality({d \in Ledger!DaysOf(row.start, row.end) :
                                  YearOf[d] = y}) = add(y)
    BY LedgerCardinality
  <2>6. Ledger!Approve(r)
    BY <1>2, <2>1, <2>3, <2>4, <2>5 DEF Ledger!Approve, Ledger!Open
  <2> QED
    BY <1>3, <2>6 DEF Ledger!LedgerNext
<1> QED
  BY <1>4, <1>5

LEMMA LedgerStep ==
    ASSUME Serial, NoFaults, SerialInv, SerialInv', [Next]_vars
    PROVE  [Ledger!LedgerNext]_(Ledger!ledgerVars)
<1>1. ASSUME NEW c \in Calls, Begin(c) \/ Step(c), UNCHANGED requests,
             ~SetApproved(c)
      PROVE  UNCHANGED Ledger!ledgerVars
  BY <1>1, QuietSpent DEF Ledger!ledgerVars
<1>2. ASSUME NEW c \in Calls, Begin(c)
      PROVE  [Ledger!LedgerNext]_(Ledger!ledgerVars)
  <2>1. UNCHANGED requests
    BY <1>2 DEF Begin, BeginGenerate, BeginUpdate, BeginProcess, BeginDelete,
       BeginView
  <2>2. ~SetApproved(c)
    BY <1>2 DEF Begin, BeginGenerate, BeginUpdate, BeginProcess, BeginDelete,
       BeginView, Start, SetApproved, SetStatus, At
  <2> QED
    BY <1>1, <1>2, <2>1, <2>2
<1>3. ASSUME NEW c \in Calls, Step(c)
      PROVE  [Ledger!LedgerNext]_(Ledger!ledgerVars)
  <2>1. \/ UNCHANGED requests
        \/ InsertRequest(c) \/ WriteRequest(c) \/ EraseRequest(c)
        \/ SetApproved(c) \/ SetRejected(c)
    BY <1>3 DEF Step, GenerateCheckPending, GenerateCheckOverlap,
       UpdateCheckPending, UpdateCheckOverlap, SettleFind, SettleCreate,
       Charge, LogApproved, LogRejected, InsertLog, FindBalance, CreateBalance
  <2> QED
    BY <1>1, <1>3, <2>1, InsertFiles, WriteFiles, EraseWithdraws, StatusDecides
<1>4. \A c \in Calls : ~Abort(c)
  BY DEF NoFaults, Abort, SerialInv, IInv, TypeOK
<1>5. CASE UNCHANGED vars
  <2>1. Spent' = Spent
    BY <1>5 DEF vars, Spent, DaysHeld, DaysUnderway, BalancesFor, Charging, At
  <2> QED
    BY <1>5, <2>1 DEF vars, Ledger!ledgerVars
<1> QED
  BY <1>2, <1>3, <1>4, <1>5 DEF Next

\* One handler at a time and without faults, the vacation service implements
\* LeaveLedger: requests are filed, amended, withdrawn and decided as if each
\* handler were one step, and an approval charges the days of its request to
\* their years once (lines 118-130, 180-240, 272-297 and 422-442).
THEOREM LedgerImplemented ==
    ASSUME Serial, NoFaults
    PROVE  Spec => ImplementsLedger
<1>1. Init => Ledger!LedgerInit
  <2> SUFFICES ASSUME Init PROVE Ledger!LedgerInit
    OBVIOUS
  <2>1. \A u, y : DaysHeld(u, y) - DaysUnderway(u, y) = 0
    BY InitBooks
  <2>2. Spent = [a \in Users \X Years |-> 0]
    BY <2>1 DEF Spent
  <2>3. Ledger!Years = Years
    BY DEF Ledger!Years, Ledger!Days, Years, Days
  <2> QED
    BY <2>2, <2>3 DEF Init, Ledger!LedgerInit
<1>2. SerialInv /\ SerialInv' /\ [Next]_vars
        => [Ledger!LedgerNext]_(Ledger!ledgerVars)
  BY LedgerStep
<1> QED
  BY <1>1, <1>2, SerialInvariant, PTL
     DEF Spec, ImplementsLedger, Ledger!LedgerSpec

=============================================================================
