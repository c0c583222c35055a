---------------------------- MODULE SalaryHistory ---------------------------
(***************************************************************************)
(* The salaries of the users and the periods they are in force, as kept by *)
(* src/src/modules/salary/salary.service.ts.                               *)
(*                                                                         *)
(* createSalary ends the record that the new one interrupts and then the   *)
(* one without an end, each at a day before the start of the new one, and  *)
(* inserts the new one: five statements without a transaction, so that     *)
(* creates of one user interleave and may be cut short between any two.    *)
(* No record is ever deleted.                                              *)
(*                                                                         *)
(* Instants are integers, Day of them are a day.  Amounts, currencies and  *)
(* comments are left out.                                                  *)
(***************************************************************************)
EXTENDS Integers

CONSTANTS
    Payees,      \* the users who are paid
    SalaryIds,
    Writers,     \* slots for the createSalary calls in flight
    Starts,      \* the starts clients ask for
    Ends,        \* the ends clients ask for
    NoEnd,       \* the null of an open end
    NoSalary,    \* the null of an id
    Day,
    MaxSalaries, \* bound on the calls of createSalary
    MaxCuts      \* bound on the calls that are cut short

ASSUME SalaryAssumption ==
    /\ Starts \subseteq Int
    /\ Ends \subseteq Int \cup {NoEnd}
    /\ NoEnd \notin Int
    /\ NoSalary \notin SalaryIds \cup Payees
    /\ Day \in Nat \ {0}
    /\ MaxSalaries \in Nat
    /\ MaxCuts \in Nat

\* A row of salary_history.  asked is a history: the end is the one asked for.
Salary == [user : Payees, from : Int, to : Int \cup {NoEnd}, asked : BOOLEAN]

\* A call of createSalary: where it is, its body and the row it has read.
SalaryPoints == {"idle", "clip", "open", "close", "insert"}

Writer == [pc : SalaryPoints, user : Payees \cup {NoSalary}, from : Int,
           to : Int \cup {NoEnd}, prev : SalaryIds \cup {NoSalary}]

NoWriter == [pc |-> "idle", user |-> NoSalary, from |-> 0, to |-> NoEnd,
             prev |-> NoSalary]

VARIABLES
    salaries,     \* the table, by id
    writers,      \* the calls in flight
    orderly,      \* history: users whose salaries came one by one, each later
    unpaid,       \* history: users one of whose calls has been cut short
    salaryCalls,  \* history: the number of calls so far
    salaryCuts    \* history: the number of calls cut short so far

salaryVars ==
    <<salaries, writers, orderly, unpaid, salaryCalls, salaryCuts>>

SalaryInit ==
    /\ salaries = [i \in {} |-> NoSalary]
    /\ writers = [w \in Writers |-> NoWriter]
    /\ orderly = Payees
    /\ unpaid = {}
    /\ salaryCalls = 0
    /\ salaryCuts = 0

-----------------------------------------------------------------------------
(* The queries. *)

\* A comparison with null is not true.
EndsBefore(s, t) == s.to # NoEnd /\ s.to < t

SalariesOf(u) == {i \in DOMAIN salaries : salaries[i].user = u}

\* orderBy validFrom desc: the latest of some rows, any of several.
Latest(S) == {i \in S : \A j \in S : salaries[j].from <= salaries[i].from}

CoveringAt(u, t) ==
    {i \in SalariesOf(u) : /\ salaries[i].from <= t
                           /\ ~ EndsBefore(salaries[i], t)}

getSalaryAtDate(u, t) == Latest(CoveringAt(u, t))

\* Mutant: a salary without an end is listed only where it starts.
PeriodForgetsOpen(u, from, to) ==
    {i \in SalariesOf(u) :
        \/ /\ salaries[i].from <= to
           /\ salaries[i].to # NoEnd
           /\ salaries[i].to >= from
        \/ salaries[i].from >= from /\ salaries[i].from <= to}

\* The three alternatives of the query, the null of an open end in each.
getSalariesInPeriod(u, from, to) ==
    {i \in SalariesOf(u) :
        \/ /\ salaries[i].from <= to
           /\ salaries[i].to # NoEnd
           /\ salaries[i].to >= from
        \/ salaries[i].from >= from /\ salaries[i].from <= to
        \/ salaries[i].to = NoEnd /\ salaries[i].from <= to}

-----------------------------------------------------------------------------
(* createSalary *)

Busy(u) == {w \in Writers : writers[w].pc # "idle" /\ writers[w].user = u}

\* Mutant: a record that ends when the new one starts is not in its way.
InterruptedStrictly(u, from) ==
    Latest({i \in SalariesOf(u) : /\ salaries[i].to # NoEnd
                                  /\ salaries[i].to > from})

\* The record that is in force at the start and has an end.
Interrupted(u, from) ==
    Latest({i \in SalariesOf(u) : /\ salaries[i].to # NoEnd
                                  /\ salaries[i].to >= from})

InOrder(u, from, to) ==
    /\ Busy(u) = {}
    /\ to = NoEnd \/ from <= to
    /\ \A i \in SalariesOf(u) : salaries[i].from + Day <= from

BeginSalary(w, u, from, to) ==
    /\ writers[w].pc = "idle"
    /\ salaryCalls < MaxSalaries
    /\ LET begun == [pc |-> "open", user |-> u, from |-> from, to |-> to,
                     prev |-> NoSalary]
           S == Interrupted(u, from)
       IN  IF S = {}
           THEN writers' = [writers EXCEPT ![w] = begun]
           ELSE \E i \in S : writers' = [writers EXCEPT
                    ![w] = [begun EXCEPT !.pc = "clip", !.prev = i]]
    /\ orderly' = IF InOrder(u, from, to) THEN orderly ELSE orderly \ {u}
    /\ salaryCalls' = salaryCalls + 1
    /\ UNCHANGED <<salaries, unpaid, salaryCuts>>

\* A record ends a day before the new one starts.
EndAt(i, from) == [salaries EXCEPT ![i] = [@ EXCEPT !.to = from - Day,
                                                    !.asked = FALSE]]

ClipInterrupted(w) ==
    /\ writers[w].pc = "clip"
    /\ salaries' = EndAt(writers[w].prev, writers[w].from)
    /\ writers' = [writers EXCEPT ![w] = [@ EXCEPT !.pc = "open",
                                                   !.prev = NoSalary]]
    /\ UNCHANGED <<orderly, unpaid, salaryCalls, salaryCuts>>

\* Mutant: the records of all users are searched.
FindOpenOfAnyone(w) ==
    /\ writers[w].pc = "open"
    /\ LET S == Latest({i \in DOMAIN salaries : salaries[i].to = NoEnd})
       IN  IF S = {}
           THEN writers' = [writers EXCEPT ![w] = [@ EXCEPT !.pc = "insert"]]
           ELSE \E i \in S : writers' = [writers EXCEPT
                    ![w] = [@ EXCEPT !.pc = "close", !.prev = i]]
    /\ UNCHANGED <<salaries, orderly, unpaid, salaryCalls, salaryCuts>>

\* closePreviousSalaryRecord reads the latest record without an end ...
FindOpenSalary(w) ==
    /\ writers[w].pc = "open"
    /\ LET S == Latest({i \in SalariesOf(writers[w].user) :
                            salaries[i].to = NoEnd})
       IN  IF S = {}
           THEN writers' = [writers EXCEPT ![w] = [@ EXCEPT !.pc = "insert"]]
           ELSE \E i \in S : writers' = [writers EXCEPT
                    ![w] = [@ EXCEPT !.pc = "close", !.prev = i]]
    /\ UNCHANGED <<salaries, orderly, unpaid, salaryCalls, salaryCuts>>

\* ... and ends it, whatever has become of it.
CloseOpenSalary(w) ==
    /\ writers[w].pc = "close"
    /\ salaries' = EndAt(writers[w].prev, writers[w].from)
    /\ writers' = [writers EXCEPT ![w] = [@ EXCEPT !.pc = "insert",
                                                   !.prev = NoSalary]]
    /\ UNCHANGED <<orderly, unpaid, salaryCalls, salaryCuts>>

\* Ids are only compared: any new one will do.
NewSalaryId == CHOOSE i \in SalaryIds : i \notin DOMAIN salaries

InsertSalary(w) ==
    /\ writers[w].pc = "insert"
    /\ SalaryIds \ DOMAIN salaries # {}
    /\ salaries' = [j \in DOMAIN salaries \cup {NewSalaryId} |->
          IF j = NewSalaryId
          THEN [user |-> writers[w].user, from |-> writers[w].from,
                to |-> writers[w].to, asked |-> TRUE]
          ELSE salaries[j]]
    /\ writers' = [writers EXCEPT ![w] = NoWriter]
    /\ UNCHANGED <<orderly, unpaid, salaryCalls, salaryCuts>>

\* A fault: a statement fails or the server stops.
CutSalary(w) ==
    /\ writers[w].pc # "idle"
    /\ salaryCuts < MaxCuts
    /\ writers' = [writers EXCEPT ![w] = NoWriter]
    /\ unpaid' = unpaid \cup {writers[w].user}
    /\ salaryCuts' = salaryCuts + 1
    /\ UNCHANGED <<salaries, orderly, salaryCalls>>

SalaryNext ==
    \E w \in Writers :
        \/ \E u \in Payees, from \in Starts, to \in Ends :
              BeginSalary(w, u, from, to)
        \/ ClipInterrupted(w)
        \/ FindOpenSalary(w)
        \/ CloseOpenSalary(w)
        \/ InsertSalary(w)
        \/ CutSalary(w)

SalarySpec == SalaryInit /\ [][SalaryNext]_salaryVars

-----------------------------------------------------------------------------
(* Properties *)

\* The type invariant.
SalaryTypeOK ==
    /\ DOMAIN salaries \subseteq SalaryIds
    /\ salaries \in [DOMAIN salaries -> Salary]
    /\ writers \in [Writers -> Writer]
    /\ \A w \in Writers :
          /\ writers[w].pc # "idle" => writers[w].user \in Payees
          /\ writers[w].pc \in {"clip", "close"} =>
                writers[w].prev \in SalariesOf(writers[w].user)
    /\ orderly \subseteq Payees
    /\ unpaid \subseteq Payees
    /\ salaryCalls \in Nat
    /\ salaryCuts \in Nat

Apart(s, t) == EndsBefore(s, t.from) \/ EndsBefore(t, s.from)

\* A user whose salaries have been entered one after the other, each starting
\* later than those before, has no two salaries at once and none that ends
\* before it starts: what createSalary closes is all there is to close, also
\* after calls cut short.
OneInForce ==
    \A u \in orderly : \A i, j \in SalariesOf(u) :
        /\ salaries[i].to = NoEnd \/ salaries[i].from <= salaries[i].to
        /\ i # j => Apart(salaries[i], salaries[j])

\* For such a user the list of a period has the salaries that are in force at
\* some instant of it and no other: the alternatives of getSalariesInPeriod
\* agree with getSalaryAtDate.
PeriodListsInForce ==
    \A u \in orderly, a, b \in Starts : a <= b =>
        getSalariesInPeriod(u, a, b) =
            UNION {getSalaryAtDate(u, t) : t \in a .. b}

\* In any interleaving, a record that createSalary has ended is followed by
\* one of the user that starts a day later, or by a call about to insert it:
\* only a call cut short leaves a user without a salary.
ClosedIsFollowed ==
    \A i \in DOMAIN salaries :
        LET s == salaries[i] IN
        \/ s.asked
        \/ s.user \in unpaid
        \/ \E j \in SalariesOf(s.user) : salaries[j].from = s.to + Day
        \/ \E w \in Busy(s.user) : writers[w].from = s.to + Day

-----------------------------------------------------------------------------
(* What a call has found out of an orderly user, and may rely on. *)

AllEndBefore(S, t) == \A i \in S : EndsBefore(salaries[i], t)

WriterSound(w) ==
    LET me == writers[w]
        S == SalariesOf(me.user)
    IN  /\ Busy(me.user) = {w}
        /\ me.to = NoEnd \/ me.from <= me.to
        /\ \A i \in S : salaries[i].from + Day <= me.from
        /\ me.pc = "clip" =>
              /\ salaries[me.prev].to # NoEnd
              /\ salaries[me.prev].to >= me.from
              /\ AllEndBefore(S \ {me.prev}, me.from)
        /\ me.pc = "open" =>
              AllEndBefore({i \in S : salaries[i].to # NoEnd}, me.from)
        /\ me.pc = "close" =>
              /\ salaries[me.prev].to = NoEnd
              /\ AllEndBefore(S \ {me.prev}, me.from)
        /\ me.pc = "insert" => AllEndBefore(S, me.from)

\* The inductive invariant.
SalaryInv ==
    /\ SalaryTypeOK
    /\ OneInForce
    /\ \A u \in orderly : \A w \in Busy(u) : WriterSound(w)
=============================================================================
