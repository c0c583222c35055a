------------------------- MODULE SalaryHistoryProofs ------------------------
(***************************************************************************)
(* Salaries for any number of users, records, calls and cuts.              *)
(*                                                                         *)
(* SalaryInv is inductive: it tells what a call has found out of an        *)
(* orderly user.  At most one record of the user can be in the way of the  *)
(* new one, because they are apart, so that the one record createSalary    *)
(* reads is all there is to end (lemmas OneInTheWay and OneOpen).          *)
(* ClosedIsFollowed needs nothing but the types.                           *)
(***************************************************************************)
EXTENDS SalaryHistory, TLAPS

\* The nulls are no values, and a day is no less than an instant.
LEMMA NullsAreNoValues ==
    /\ NoEnd \notin Int
    /\ NoSalary \notin SalaryIds
    /\ NoSalary \notin Payees
    /\ Day \in Int
    /\ Day > 0
    /\ Starts \subseteq Int
    /\ Ends \subseteq Int \cup {NoEnd}
BY SalaryAssumption

\* An idle call is a call.
LEMMA NoWriterOK == NoWriter \in Writer /\ NoWriter.pc = "idle"
BY DEF NoWriter, Writer, SalaryPoints

LEMMA InitSalary == SalaryInit => SalaryInv /\ ClosedIsFollowed
<1> SUFFICES ASSUME SalaryInit PROVE SalaryInv /\ ClosedIsFollowed
  OBVIOUS
<1>1. DOMAIN salaries = {}
  BY DEF SalaryInit
<1>2. \A u : SalariesOf(u) = {}
  BY <1>1 DEF SalariesOf
<1>3. \A w \in Writers : writers[w].pc = "idle"
  BY NoWriterOK DEF SalaryInit
<1>4. \A u : Busy(u) = {}
  BY <1>3 DEF Busy
<1>5. SalaryTypeOK
  <2>1. salaries \in [DOMAIN salaries -> Salary]
    BY <1>1 DEF SalaryInit
  <2>2. writers \in [Writers -> Writer]
    BY NoWriterOK DEF SalaryInit
  <2> QED
    BY <1>1, <1>3, <2>1, <2>2 DEF SalaryTypeOK, SalaryInit
<1> QED
  BY <1>1, <1>2, <1>4, <1>5 DEF SalaryInv, OneInForce, ClosedIsFollowed

-----------------------------------------------------------------------------
(* Types. *)

\* A record that is ended a day before an instant is a record still.
LEMMA EndedOK ==
    ASSUME SalaryTypeOK, NEW i \in DOMAIN salaries, NEW from \in Int
    PROVE  /\ DOMAIN EndAt(i, from) = DOMAIN salaries
           /\ EndAt(i, from) \in [DOMAIN salaries -> Salary]
           /\ EndAt(i, from)[i].user = salaries[i].user
           /\ EndAt(i, from)[i].from = salaries[i].from
           /\ EndAt(i, from)[i].to = from - Day
           /\ EndAt(i, from)[i].asked = FALSE
           /\ \A j \in DOMAIN salaries \ {i} :
                 EndAt(i, from)[j] = salaries[j]
<1>1. salaries[i] \in Salary
  BY DEF SalaryTypeOK
<1> DEFINE s == [salaries[i] EXCEPT !.to = from - Day, !.asked = FALSE]
<1>2. from - Day \in Int /\ FALSE \in BOOLEAN
  BY NullsAreNoValues
<1>3. [salaries[i] EXCEPT !.to = from - Day] \in Salary
  BY <1>1, <1>2 DEF Salary
<1>4. /\ s \in Salary
      /\ s.user = salaries[i].user
      /\ s.from = salaries[i].from
      /\ s.to = from - Day
      /\ s.asked = FALSE
  BY <1>1, <1>2, <1>3 DEF Salary
<1>5. salaries \in [DOMAIN salaries -> Salary]
  BY DEF SalaryTypeOK
<1>6. EndAt(i, from) = [salaries EXCEPT ![i] = s]
  BY DEF EndAt
<1> HIDE DEF s
<1> QED
  BY <1>4, <1>5, <1>6

\* What is known of a call in flight.
LEMMA CallTypes ==
    ASSUME SalaryTypeOK, NEW w \in Writers
    PROVE  /\ writers[w] \in Writer
           /\ writers[w].from \in Int
           /\ writers[w].to \in Int \cup {NoEnd}
           /\ writers[w].pc # "idle" => writers[w].user \in Payees
           /\ writers[w].pc \in {"clip", "close"} =>
                 /\ writers[w].prev \in DOMAIN salaries
                 /\ salaries[writers[w].prev].user = writers[w].user
BY DEF SalaryTypeOK, Writer, SalariesOf

\* A call moves on: its place and the row it has read change, or it ends.
LEMMA WriterTypes ==
    ASSUME SalaryTypeOK, NEW w \in Writers, NEW pc \in SalaryPoints,
           NEW i \in SalaryIds \cup {NoSalary}
    PROVE  [writers[w] EXCEPT !.pc = pc, !.prev = i] \in Writer
BY CallTypes DEF Writer

\* The id of a new record is new.
LEMMA NewIdOK ==
    ASSUME SalaryIds \ DOMAIN salaries # {}
    PROVE  NewSalaryId \in SalaryIds /\ NewSalaryId \notin DOMAIN salaries
BY DEF NewSalaryId

LEMMA TypesStep ==
    ASSUME SalaryTypeOK, [SalaryNext]_salaryVars
    PROVE  SalaryTypeOK'
<1> USE DEF SalariesOf
<1>1. CASE UNCHANGED salaryVars
  BY <1>1 DEF salaryVars, SalaryTypeOK
<1>2. ASSUME NEW w \in Writers, NEW u \in Payees, NEW from \in Starts,
             NEW to \in Ends, BeginSalary(w, u, from, to)
      PROVE  SalaryTypeOK'
  <2> DEFINE begun == [pc |-> "open", user |-> u, from |-> from, to |-> to,
                       prev |-> NoSalary]
  <2>1. begun \in Writer
    BY NullsAreNoValues DEF Writer, SalaryPoints
  <2>2. PICK k \in Writer :
          /\ writers' = [writers EXCEPT ![w] = k]
          /\ k.user = u
          /\ k.pc \in {"clip", "close"} =>
                k.prev \in DOMAIN salaries /\ salaries[k.prev].user = u
    <3>1. CASE Interrupted(u, from) = {}
      BY <1>2, <2>1, <3>1 DEF BeginSalary
    <3>2. CASE Interrupted(u, from) # {}
      <4>1. PICK i \in Interrupted(u, from) :
              writers' = [writers EXCEPT
                 ![w] = [begun EXCEPT !.pc = "clip", !.prev = i]]
        BY <1>2, <3>2 DEF BeginSalary
      <4>2. i \in DOMAIN salaries /\ salaries[i].user = u
        BY DEF Interrupted, Latest
      <4>3. i \in SalaryIds
        BY <4>2 DEF SalaryTypeOK
      <4>4. [begun EXCEPT !.pc = "clip", !.prev = i] \in Writer
        BY <2>1, <4>3 DEF Writer, SalaryPoints
      <4> QED
        BY <4>1, <4>2, <4>4
    <3> QED
      BY <3>1, <3>2
  <2>3. writers' \in [Writers -> Writer]
    BY <2>2 DEF SalaryTypeOK
  <2>4. \A x \in Writers :
          /\ writers'[x].pc # "idle" => writers'[x].user \in Payees
          /\ writers'[x].pc \in {"clip", "close"} =>
               /\ writers'[x].prev \in DOMAIN salaries
               /\ salaries[writers'[x].prev].user = writers'[x].user
    <3> TAKE x \in Writers
    <3>1. CASE x = w
      BY <2>2, <3>1 DEF SalaryTypeOK
    <3>2. CASE x # w
      BY <2>2, <3>2 DEF SalaryTypeOK
    <3> QED
      BY <3>1, <3>2
  <2>5. /\ salaries' = salaries /\ unpaid' = unpaid
        /\ salaryCuts' = salaryCuts /\ salaryCalls' = salaryCalls + 1
        /\ orderly' \subseteq orderly
    BY <1>2 DEF BeginSalary
  <2> QED
    BY <2>3, <2>4, <2>5 DEF SalaryTypeOK
<1>3. ASSUME NEW w \in Writers, ClipInterrupted(w) \/ CloseOpenSalary(w)
      PROVE  SalaryTypeOK'
  <2> DEFINE p == writers[w].prev
  <2>1. /\ writers[w].pc \in {"clip", "close"}
        /\ salaries' = EndAt(p, writers[w].from)
    BY <1>3 DEF ClipInterrupted, CloseOpenSalary
  <2>2. p \in DOMAIN salaries /\ writers[w].from \in Int
    BY <2>1, CallTypes
  <2>3. PICK pc \in {"open", "insert"} : writers' = [writers EXCEPT
            ![w] = [@ EXCEPT !.pc = pc, !.prev = NoSalary]]
    BY <1>3 DEF ClipInterrupted, CloseOpenSalary
  <2>4. pc \in SalaryPoints
    BY DEF SalaryPoints
  <2>5. [writers[w] EXCEPT !.pc = pc, !.prev = NoSalary] \in Writer
    BY <2>4, WriterTypes
  <2>6. writers' \in [Writers -> Writer]
    BY <2>3, <2>5 DEF SalaryTypeOK
  <2>7. /\ DOMAIN salaries' = DOMAIN salaries
        /\ salaries' \in [DOMAIN salaries' -> Salary]
        /\ \A j \in DOMAIN salaries : salaries'[j].user = salaries[j].user
    BY <2>1, <2>2, EndedOK
  <2>8. \A x \in Writers :
          /\ writers'[x].pc # "idle" => writers'[x].user \in Payees
          /\ writers'[x].pc \in {"clip", "close"} =>
               /\ writers'[x].prev \in DOMAIN salaries
               /\ salaries[writers'[x].prev].user = writers'[x].user
    <3> TAKE x \in Writers
    <3>1. CASE x = w
      BY <2>1, <2>3, <3>1, CallTypes DEF SalaryTypeOK, Writer
    <3>2. CASE x # w
      BY <2>3, <3>2 DEF SalaryTypeOK
    <3> QED
      BY <3>1, <3>2
  <2> QED
    BY <1>3, <2>6, <2>7, <2>8
    DEF ClipInterrupted, CloseOpenSalary, SalaryTypeOK
<1>4. ASSUME NEW w \in Writers, FindOpenSalary(w)
      PROVE  SalaryTypeOK'
  <2>1. PICK k \in Writer :
          /\ writers' = [writers EXCEPT ![w] = k]
          /\ k.user = writers[w].user
          /\ k.pc \in {"clip", "close"} =>
                k.prev \in DOMAIN salaries /\ salaries[k.prev].user = k.user
    <3> DEFINE S == Latest({i \in SalariesOf(writers[w].user) :
                               salaries[i].to = NoEnd})
    <3>1. CASE S = {}
      <4>1. [writers[w] EXCEPT !.pc = "insert"] \in Writer
        BY CallTypes DEF Writer, SalaryPoints
      <4> QED
        BY <1>4, <3>1, <4>1, CallTypes DEF FindOpenSalary, Writer
    <3>2. CASE S # {}
      <4>1. PICK i \in S : writers' = [writers EXCEPT
                ![w] = [@ EXCEPT !.pc = "close", !.prev = i]]
        BY <1>4, <3>2 DEF FindOpenSalary
      <4>2. i \in DOMAIN salaries /\ salaries[i].user = writers[w].user
        BY DEF Latest
      <4>3. i \in SalaryIds
        BY <4>2 DEF SalaryTypeOK
      <4>4. [writers[w] EXCEPT !.pc = "close", !.prev = i] \in Writer
        BY <4>3, CallTypes DEF Writer, SalaryPoints
      <4>5. /\ writers' = [writers EXCEPT
                    ![w] = [writers[w] EXCEPT !.pc = "close", !.prev = i]]
            /\ [writers[w] EXCEPT !.pc = "close", !.prev = i].user
                  = writers[w].user
            /\ [writers[w] EXCEPT !.pc = "close", !.prev = i].prev = i
        BY <4>1, CallTypes DEF Writer
      <4> QED
        BY <4>2, <4>4, <4>5
    <3> QED
      BY <3>1, <3>2
  <2>2. writers[w].user \in Payees
    BY <1>4, CallTypes DEF FindOpenSalary
  <2> QED
    BY <1>4, <2>1, <2>2 DEF FindOpenSalary, SalaryTypeOK
<1>5. ASSUME NEW w \in Writers, InsertSalary(w)
      PROVE  SalaryTypeOK'
  <2> DEFINE new == [user |-> writers[w].user, from |-> writers[w].from,
                     to |-> writers[w].to, asked |-> TRUE]
  <2>1. new \in Salary
    BY <1>5, CallTypes DEF InsertSalary, Salary
  <2>2. NewSalaryId \in SalaryIds /\ NewSalaryId \notin DOMAIN salaries
    BY <1>5, NewIdOK DEF InsertSalary
  <2>3. /\ DOMAIN salaries' = DOMAIN salaries \cup {NewSalaryId}
        /\ salaries' \in [DOMAIN salaries' -> Salary]
    <3>1. \A j \in DOMAIN salaries : salaries[j] \in Salary
      BY DEF SalaryTypeOK
    <3>2. salaries' = [j \in DOMAIN salaries \cup {NewSalaryId} |->
                          IF j = NewSalaryId THEN new ELSE salaries[j]]
      BY <1>5 DEF InsertSalary
    <3> HIDE DEF new
    <3> QED
      BY <2>1, <3>1, <3>2
  <2>4. writers' = [writers EXCEPT ![w] = NoWriter]
    BY <1>5 DEF InsertSalary
  <2> QED
    BY <1>5, <2>2, <2>3, <2>4, NoWriterOK DEF InsertSalary, SalaryTypeOK
<1>6. ASSUME NEW w \in Writers, CutSalary(w)
      PROVE  SalaryTypeOK'
  <2>1. writers[w].user \in Payees
    BY <1>6, CallTypes DEF CutSalary
  <2>2. writers' = [writers EXCEPT ![w] = NoWriter]
    BY <1>6 DEF CutSalary
  <2> QED
    BY <1>6, <2>1, <2>2, NoWriterOK DEF CutSalary, SalaryTypeOK
<1> QED
  BY <1>1, <1>2, <1>3, <1>4, <1>5, <1>6 DEF SalaryNext

-----------------------------------------------------------------------------
(* The user of a step, and the others. *)

RecordsSound(u) ==
    \A i, j \in SalariesOf(u) :
        /\ salaries[i].to = NoEnd \/ salaries[i].from <= salaries[i].to
        /\ i # j => Apart(salaries[i], salaries[j])

UserSound(u) == RecordsSound(u) /\ \A w \in Busy(u) : WriterSound(w)

\* A step that leaves the rows and the calls of a user alone.
LEMMA OtherUser ==
    ASSUME SalaryTypeOK, NEW u \in Payees, UserSound(u),
           SalariesOf(u)' = SalariesOf(u),
           \A i \in SalariesOf(u) : salaries'[i] = salaries[i],
           Busy(u)' = Busy(u),
           \A w \in Busy(u) : writers'[w] = writers[w]
    PROVE  UserSound(u)'
<1>1. RecordsSound(u)'
  BY DEF UserSound, RecordsSound
<1>2. ASSUME NEW w \in Busy(u) PROVE WriterSound(w)'
  <2>1. /\ w \in Writers
        /\ writers[w].user = u
        /\ writers'[w] = writers[w]
        /\ WriterSound(w)
    BY DEF Busy, UserSound
  <2>2. writers[w].pc \in {"clip", "close"} =>
          writers[w].prev \in SalariesOf(u)
    BY <2>1 DEF SalaryTypeOK
  <2> QED
    BY <2>1, <2>2 DEF WriterSound, AllEndBefore
<1> QED
  BY <1>1, <1>2 DEF UserSound

\* Of rows no two of which are there, each is the latest.
LEMMA LatestOfOne ==
    ASSUME SalaryTypeOK, NEW S \in SUBSET DOMAIN salaries,
           \A i, j \in S : i = j
    PROVE  Latest(S) = S
<1>1. \A i \in S : salaries[i].from \in Int
  BY DEF SalaryTypeOK, Salary
<1> QED
  BY <1>1 DEF Latest

\* The fields of the rows of a user.
LEMMA RowTypes ==
    ASSUME SalaryTypeOK, NEW u, NEW i \in SalariesOf(u)
    PROVE  /\ i \in DOMAIN salaries
           /\ salaries[i].user = u
           /\ salaries[i].from \in Int
           /\ salaries[i].to \in Int \cup {NoEnd}
BY DEF SalaryTypeOK, Salary, SalariesOf

\* Only one record can be in the way of a later one: if one with an end is,
\* all others end before.
LEMMA OneInTheWay ==
    ASSUME SalaryTypeOK, NEW u, RecordsSound(u), NEW from \in Int,
           \A i \in SalariesOf(u) : salaries[i].from + Day <= from
    PROVE  /\ Interrupted(u, from) =
                 {i \in SalariesOf(u) : /\ salaries[i].to # NoEnd
                                        /\ salaries[i].to >= from}
           /\ \A i \in Interrupted(u, from) :
                 AllEndBefore(SalariesOf(u) \ {i}, from)
<1> DEFINE S == {i \in SalariesOf(u) : /\ salaries[i].to # NoEnd
                                       /\ salaries[i].to >= from}
<1>1. ASSUME NEW i \in S, NEW j \in SalariesOf(u), i # j
      PROVE  EndsBefore(salaries[j], from)
  <2>1. /\ salaries[i].from \in Int /\ salaries[j].from \in Int
        /\ salaries[i].to \in Int /\ salaries[j].to \in Int \cup {NoEnd}
    BY <1>1, RowTypes
  <2>2. Apart(salaries[i], salaries[j])
    BY <1>1 DEF RecordsSound
  <2>3. /\ salaries[i].from + Day <= from
        /\ salaries[j].from + Day <= from
        /\ salaries[i].to >= from
    BY <1>1
  <2> QED
    BY <2>1, <2>2, <2>3, NullsAreNoValues DEF Apart, EndsBefore
<1>2. \A i, j \in S : i = j
  <2> SUFFICES ASSUME NEW i \in S, NEW j \in S, i # j PROVE FALSE
    OBVIOUS
  <2>1. EndsBefore(salaries[j], from)
    BY <1>1
  <2>2. salaries[j].to \in Int /\ salaries[j].to >= from
    BY RowTypes
  <2> QED
    BY <2>1, <2>2 DEF EndsBefore
<1>3. S \in SUBSET DOMAIN salaries
  BY DEF SalariesOf
<1>4. Interrupted(u, from) = S
  <2> HIDE DEF S
  <2>1. Latest(S) = S
    BY <1>2, <1>3, LatestOfOne
  <2> QED
    BY <2>1 DEF Interrupted, S
<1> QED
  BY <1>1, <1>4 DEF AllEndBefore

\* Only one record can have no end.
LEMMA OneOpen ==
    ASSUME SalaryTypeOK, NEW u, RecordsSound(u)
    PROVE  Latest({i \in SalariesOf(u) : salaries[i].to = NoEnd}) =
              {i \in SalariesOf(u) : salaries[i].to = NoEnd}
<1> DEFINE S == {i \in SalariesOf(u) : salaries[i].to = NoEnd}
<1>1. \A i, j \in S : i = j
  BY DEF RecordsSound, Apart, EndsBefore
<1>2. S \in SUBSET DOMAIN salaries
  BY DEF SalariesOf
<1> HIDE DEF S
<1>3. Latest(S) = S
  BY <1>1, <1>2, LatestOfOne
<1> QED
  BY <1>3 DEF S

\* What the step of a call leaves alone: the rows and the calls of others.
LEMMA StepOfOther ==
    ASSUME SalaryTypeOK, NEW w \in Writers, NEW u \in Payees, UserSound(u),
           writers[w].pc # "idle" => writers[w].user # u,
           writers'[w].pc # "idle" => writers'[w].user # u,
           \A x \in Writers \ {w} : writers'[x] = writers[x],
           SalariesOf(u)' = SalariesOf(u),
           \A i \in SalariesOf(u) : salaries'[i] = salaries[i]
    PROVE  UserSound(u)'
<1>1. Busy(u)' = Busy(u) /\ w \notin Busy(u)
  BY DEF Busy
<1>2. \A x \in Busy(u) : writers'[x] = writers[x]
  BY <1>1 DEF Busy
<1> QED
  BY <1>1, <1>2, OtherUser

LEMMA BeginStep ==
    ASSUME SalaryTypeOK, SalaryTypeOK', NEW w \in Writers, NEW u \in Payees,
           NEW from \in Starts, NEW to \in Ends,
           BeginSalary(w, u, from, to),
           u \in orderly', UserSound(u)
    PROVE  UserSound(u)'
<1> DEFINE me == writers'[w]
<1>1. /\ InOrder(u, from, to)
      /\ salaries' = salaries
      /\ SalariesOf(u)' = SalariesOf(u)
  <2>1. salaries' = salaries
    BY DEF BeginSalary
  <2>2. u \in IF InOrder(u, from, to) THEN orderly ELSE orderly \ {u}
    BY DEF BeginSalary
  <2> QED
    BY <2>1, <2>2 DEF SalariesOf
<1>2. from \in Int /\ to \in Int \cup {NoEnd}
  BY NullsAreNoValues
<1>3. \A i \in SalariesOf(u) : salaries[i].from + Day <= from
  BY <1>1 DEF InOrder
<1>4. RecordsSound(u)
  BY DEF UserSound
<1> DEFINE S == Interrupted(u, from)
<1>5. /\ S = {i \in SalariesOf(u) : /\ salaries[i].to # NoEnd
                                    /\ salaries[i].to >= from}
      /\ \A i \in S : AllEndBefore(SalariesOf(u) \ {i}, from)
  BY <1>2, <1>3, <1>4, OneInTheWay
<1>6. /\ me.user = u /\ me.from = from /\ me.to = to
      /\ me.pc # "idle"
      /\ \A x \in Writers \ {w} : writers'[x] = writers[x]
      /\ \/ S = {} /\ me.pc = "open"
         \/ me.pc = "clip" /\ me.prev \in S
  <2>0. writers \in [Writers -> Writer]
    BY DEF SalaryTypeOK
  <2> DEFINE begun == [pc |-> "open", user |-> u, from |-> from, to |-> to,
                       prev |-> NoSalary]
  <2>1. CASE S = {}
    <3>1. writers' = [writers EXCEPT ![w] = begun]
      BY <2>1 DEF BeginSalary
    <3> QED
      BY <2>0, <2>1, <3>1
  <2>2. CASE S # {}
    <3>1. PICK i \in S : writers' = [writers EXCEPT
                ![w] = [begun EXCEPT !.pc = "clip", !.prev = i]]
      BY <2>2 DEF BeginSalary
    <3> QED
      BY <2>0, <3>1
  <2> QED
    BY <2>1, <2>2
<1>7. Busy(u)' = {w}
  BY <1>1, <1>6 DEF Busy, InOrder
<1>8. WriterSound(w)'
  <2> HIDE DEF S
  <2>1. me.to = NoEnd \/ me.from <= me.to
    BY <1>1, <1>6 DEF InOrder
  <2>2. CASE S = {} /\ me.pc = "open"
    <3>1. \A i \in SalariesOf(u) :
             salaries[i].to # NoEnd => EndsBefore(salaries[i], from)
      BY <1>2, <1>5, <2>2, RowTypes DEF EndsBefore
    <3> QED
      BY <1>1, <1>3, <1>6, <1>7, <2>1, <2>2, <3>1
      DEF WriterSound, AllEndBefore
  <2>3. CASE me.pc = "clip" /\ me.prev \in S
    <3>1. /\ salaries[me.prev].to # NoEnd
          /\ salaries[me.prev].to >= from
          /\ AllEndBefore(SalariesOf(u) \ {me.prev}, from)
      BY <1>5, <2>3
    <3> QED
      BY <1>1, <1>3, <1>6, <1>7, <2>1, <2>3, <3>1
      DEF WriterSound, AllEndBefore
  <2> QED
    BY <1>6, <2>2, <2>3
<1>9. RecordsSound(u)'
  BY <1>1, <1>4 DEF RecordsSound
<1> QED
  BY <1>7, <1>8, <1>9 DEF UserSound

\* A record is ended a day before the start of the new one, when all others
\* of its user end before that start.
LEMMA EndStep ==
    ASSUME SalaryTypeOK, SalaryTypeOK', NEW w \in Writers,
           ClipInterrupted(w) \/ CloseOpenSalary(w),
           UserSound(writers[w].user)
    PROVE  \A u : u = writers[w].user => UserSound(u)'
<1> DEFINE me == writers[w]
           u == me.user
           i == me.prev
           from == me.from
<1>1. /\ me.pc \in {"clip", "close"}
      /\ salaries' = EndAt(i, from)
      /\ writers' = [writers EXCEPT ![w] = [@ EXCEPT
             !.pc = IF me.pc = "clip" THEN "open" ELSE "insert",
             !.prev = NoSalary]]
  BY DEF ClipInterrupted, CloseOpenSalary
<1>2. i \in SalariesOf(u) /\ from \in Int /\ me \in Writer
  BY <1>1, CallTypes DEF SalariesOf
<1>3. i \in DOMAIN salaries
  BY <1>2 DEF SalariesOf
<1>4. /\ DOMAIN salaries' = DOMAIN salaries
      /\ salaries'[i].user = salaries[i].user
      /\ salaries'[i].from = salaries[i].from
      /\ salaries'[i].to = from - Day
      /\ \A j \in DOMAIN salaries \ {i} : salaries'[j] = salaries[j]
  BY <1>1, <1>2, <1>3, EndedOK
<1>5. \A x : {j \in DOMAIN salaries' : salaries'[j].user = x}
                = SalariesOf(x)
  BY <1>4 DEF SalariesOf
<1>6. WriterSound(w) /\ RecordsSound(u)
  BY <1>1, <1>2 DEF UserSound, Busy
<1>7. /\ Busy(u) = {w}
      /\ me.to = NoEnd \/ from <= me.to
      /\ \A j \in SalariesOf(u) : salaries[j].from + Day <= from
      /\ AllEndBefore(SalariesOf(u) \ {i}, from)
      /\ salaries[i].to = NoEnd \/ salaries[i].to >= from
  BY <1>1, <1>6 DEF WriterSound
<1>8. ASSUME NEW j \in SalariesOf(u), j # i
      PROVE  /\ EndsBefore(salaries[j], salaries[i].from)
             /\ EndsBefore(salaries[j], from)
             /\ salaries'[j] = salaries[j]
  <2>1. /\ salaries[i].from \in Int /\ salaries[j].from \in Int
        /\ salaries[i].to \in Int \cup {NoEnd}
    BY <1>2, RowTypes
  <2>2. Apart(salaries[i], salaries[j])
    BY <1>2, <1>6, <1>8 DEF RecordsSound
  <2>3. ~ EndsBefore(salaries[i], salaries[j].from)
    BY <1>2, <1>7, <2>1, NullsAreNoValues DEF EndsBefore
  <2>4. EndsBefore(salaries[j], salaries[i].from)
    BY <2>2, <2>3 DEF Apart
  <2>5. EndsBefore(salaries[j], from)
    BY <1>7, <1>8 DEF AllEndBefore
  <2> QED
    BY <1>4, <1>8, <2>4, <2>5 DEF SalariesOf
<1>9. /\ salaries[i].from \in Int
      /\ salaries[i].from <= from - Day
      /\ from - Day < from
      /\ from - Day \in Int
      /\ from - Day # NoEnd
  BY <1>2, <1>7, RowTypes, NullsAreNoValues
<1>10. /\ writers'[w].pc = IF me.pc = "clip" THEN "open" ELSE "insert"
       /\ writers'[w].user = u
       /\ writers'[w].from = from
       /\ writers'[w].to = me.to
       /\ \A x \in Writers \ {w} : writers'[x] = writers[x]
  BY <1>1, <1>2 DEF SalaryTypeOK, Writer
<1>11. \A x : x = u => Busy(x)' = {w}
  BY <1>7, <1>10 DEF Busy
<1>12. \A x : SalariesOf(x)' = SalariesOf(x)
  BY <1>5 DEF SalariesOf
<1>13. ASSUME NEW x, x = u PROVE RecordsSound(x)'
  <2>1. ASSUME NEW j \in SalariesOf(u), NEW k \in SalariesOf(u)
        PROVE  /\ salaries'[j].to = NoEnd
                    \/ salaries'[j].from <= salaries'[j].to
               /\ j # k => Apart(salaries'[j], salaries'[k])
    <3>1. CASE j # i /\ k # i
      BY <1>6, <1>8, <3>1 DEF RecordsSound
    <3>2. CASE j = i /\ k = i
      BY <1>4, <1>9, <3>2
    <3>3. CASE j # i /\ k = i
      BY <1>4, <1>6, <1>8, <3>3 DEF RecordsSound, Apart, EndsBefore
    <3>4. CASE j = i /\ k # i
      BY <1>4, <1>8, <1>9, <3>4 DEF Apart, EndsBefore
    <3> QED
      BY <3>1, <3>2, <3>3, <3>4
  <2> QED
    BY <1>12, <1>13, <2>1 DEF RecordsSound
<1>14. WriterSound(w)'
  <2>1. \A j \in SalariesOf(u) : EndsBefore(salaries'[j], from)
    BY <1>4, <1>8, <1>9 DEF EndsBefore
  <2>2. \A j \in SalariesOf(u) : salaries'[j].from + Day <= from
    BY <1>4, <1>7, <1>8
  <2>3. writers'[w].pc \in {"open", "insert"}
    BY <1>1, <1>10
  <2>4. {x \in Writers : /\ writers'[x].pc # "idle"
                         /\ writers'[x].user = writers'[w].user} = {w}
    BY <1>7, <1>10 DEF Busy
  <2>5. {j \in DOMAIN salaries' : salaries'[j].user = writers'[w].user}
           = SalariesOf(u)
    BY <1>5, <1>10
  <2> DEFINE S == SalariesOf(u)
  <2>6. /\ \A j \in S : salaries'[j].from + Day <= writers'[w].from
        /\ \A j \in S : EndsBefore(salaries'[j], writers'[w].from)
        /\ writers'[w].to = NoEnd \/ writers'[w].from <= writers'[w].to
    BY <1>7, <1>10, <2>1, <2>2
  <2> HIDE DEF S
  <2> QED
    BY <2>3, <2>4, <2>5, <2>6
    DEF WriterSound, AllEndBefore, Busy, SalariesOf, S
<1> QED
  BY <1>11, <1>13, <1>14 DEF UserSound

LEMMA FindStep ==
    ASSUME SalaryTypeOK, SalaryTypeOK', NEW w \in Writers,
           FindOpenSalary(w), UserSound(writers[w].user)
    PROVE  \A u : u = writers[w].user => UserSound(u)'
<1> DEFINE me == writers[w]
           u == me.user
           S == {i \in SalariesOf(u) : salaries[i].to = NoEnd}
<1>1. me.pc = "open" /\ salaries' = salaries /\ me \in Writer
  BY CallTypes DEF FindOpenSalary
<1>2. WriterSound(w) /\ RecordsSound(u)
  BY <1>1 DEF UserSound, Busy
<1>3. Latest(S) = S
  BY <1>2, OneOpen
<1>4. /\ writers'[w].user = u
      /\ writers'[w].from = me.from
      /\ writers'[w].to = me.to
      /\ \A x \in Writers \ {w} : writers'[x] = writers[x]
      /\ \/ S = {} /\ writers'[w].pc = "insert"
         \/ writers'[w].pc = "close" /\ writers'[w].prev \in S
  <2>0. writers \in [Writers -> Writer]
    BY DEF SalaryTypeOK
  <2>1. CASE S = {}
    <3>1. writers' = [writers EXCEPT ![w] = [@ EXCEPT !.pc = "insert"]]
      BY <1>3, <2>1 DEF FindOpenSalary
    <3> QED
      BY <1>1, <2>0, <2>1, <3>1 DEF Writer
  <2>2. CASE S # {}
    <3>1. PICK i \in S : writers' = [writers EXCEPT
                ![w] = [@ EXCEPT !.pc = "close", !.prev = i]]
      BY <1>3, <2>2 DEF FindOpenSalary
    <3> QED
      BY <1>1, <2>0, <3>1 DEF Writer
  <2> QED
    BY <2>1, <2>2
<1>5. Busy(u) = {w}
  BY <1>1, <1>2 DEF WriterSound
<1>6. \A x : x = u => Busy(x)' = {w}
  BY <1>4, <1>5 DEF Busy
<1>7. \A x : SalariesOf(x)' = SalariesOf(x)
  BY <1>1 DEF SalariesOf
<1>8. \A x : x = u => RecordsSound(x)'
  BY <1>1, <1>2, <1>7 DEF RecordsSound
<1>9. /\ me.to = NoEnd \/ me.from <= me.to
      /\ \A j \in SalariesOf(u) : salaries[j].from + Day <= me.from
      /\ \A j \in SalariesOf(u) :
            salaries[j].to # NoEnd => EndsBefore(salaries[j], me.from)
  BY <1>1, <1>2 DEF WriterSound, AllEndBefore
<1>10. \A i \in S, j \in SalariesOf(u) : j # i => salaries[j].to # NoEnd
  BY <1>2 DEF RecordsSound, Apart, EndsBefore
<1>11. WriterSound(w)'
  <2>1. {x \in Writers : /\ writers'[x].pc # "idle"
                         /\ writers'[x].user = writers'[w].user} = {w}
    BY <1>4, <1>5 DEF Busy
  <2>2. {j \in DOMAIN salaries' : salaries'[j].user = writers'[w].user}
           = SalariesOf(u)
    BY <1>1, <1>4 DEF SalariesOf
  <2> DEFINE R == SalariesOf(u)
  <2>3. /\ \A j \in R : salaries'[j].from + Day <= writers'[w].from
        /\ writers'[w].to = NoEnd \/ writers'[w].from <= writers'[w].to
    BY <1>1, <1>4, <1>9
  <2>4. CASE S = {} /\ writers'[w].pc = "insert"
    <3>1. \A j \in R : EndsBefore(salaries'[j], writers'[w].from)
      BY <1>1, <1>4, <1>9, <2>4
    <3> HIDE DEF R
    <3> QED
      BY <2>1, <2>2, <2>3, <2>4, <3>1
      DEF WriterSound, AllEndBefore, Busy, SalariesOf, R
  <2>5. CASE writers'[w].pc = "close" /\ writers'[w].prev \in S
    <3>1. /\ salaries'[writers'[w].prev].to = NoEnd
          /\ \A j \in R \ {writers'[w].prev} :
                EndsBefore(salaries'[j], writers'[w].from)
      BY <1>1, <1>4, <1>9, <1>10, <2>5
    <3> HIDE DEF R
    <3> QED
      BY <2>1, <2>2, <2>3, <2>5, <3>1
      DEF WriterSound, AllEndBefore, Busy, SalariesOf, R
  <2> QED
    BY <1>4, <2>4, <2>5
<1> QED
  BY <1>6, <1>8, <1>11 DEF UserSound

LEMMA InsertStep ==
    ASSUME SalaryTypeOK, SalaryTypeOK', NEW w \in Writers,
           InsertSalary(w), UserSound(writers[w].user)
    PROVE  \A u : u = writers[w].user => UserSound(u)'
<1> DEFINE me == writers[w]
           u == me.user
           n == NewSalaryId
           new == [user |-> u, from |-> me.from, to |-> me.to,
                   asked |-> TRUE]
<1>1. /\ me.pc = "insert"
      /\ n \notin DOMAIN salaries
      /\ writers'[w].pc = "idle"
      /\ \A x \in Writers \ {w} : writers'[x] = writers[x]
  BY NewIdOK, NoWriterOK DEF InsertSalary, SalaryTypeOK
<1>2. /\ DOMAIN salaries' = DOMAIN salaries \cup {n}
      /\ \A j \in DOMAIN salaries : salaries'[j] = salaries[j]
      /\ salaries'[n] = new
  <2>1. salaries' = [j \in DOMAIN salaries \cup {n} |->
                        IF j = n THEN new ELSE salaries[j]]
    BY DEF InsertSalary
  <2> HIDE DEF n
  <2> QED
    BY <1>1, <2>1
<1> HIDE DEF n
<1>3. WriterSound(w) /\ RecordsSound(u)
  BY <1>1 DEF UserSound, Busy
<1>4. /\ me.to = NoEnd \/ me.from <= me.to
      /\ \A j \in SalariesOf(u) : EndsBefore(salaries[j], me.from)
      /\ Busy(u) = {w}
  BY <1>1, <1>3 DEF WriterSound, AllEndBefore
<1>5. \A x : x = u => Busy(x)' = {}
  BY <1>1, <1>4 DEF Busy
<1>6. \A x : x = u => SalariesOf(x)' = SalariesOf(u) \cup {n}
  BY <1>1, <1>2 DEF SalariesOf
<1>7. \A j \in SalariesOf(u) : j # n /\ salaries'[j] = salaries[j]
  BY <1>1, <1>2 DEF SalariesOf
<1>8. salaries'[n].from = me.from /\ salaries'[n].to = me.to
  BY <1>2
<1>9. ASSUME NEW j \in SalariesOf(u) \cup {n},
             NEW k \in SalariesOf(u) \cup {n}
      PROVE  /\ salaries'[j].to = NoEnd
                  \/ salaries'[j].from <= salaries'[j].to
             /\ j # k => Apart(salaries'[j], salaries'[k])
  <2>1. CASE j # n /\ k # n
    BY <1>3, <1>7, <2>1 DEF RecordsSound
  <2>2. CASE j = n /\ k = n
    BY <1>4, <1>8, <2>2
  <2>3. CASE j # n /\ k = n
    BY <1>3, <1>4, <1>7, <1>8, <2>3 DEF RecordsSound, Apart
  <2>4. CASE j = n /\ k # n
    BY <1>4, <1>7, <1>8, <2>4 DEF Apart
  <2> QED
    BY <2>1, <2>2, <2>3, <2>4
<1>10. \A x : x = u => RecordsSound(x)'
  BY <1>6, <1>9 DEF RecordsSound
<1> QED
  BY <1>5, <1>10 DEF UserSound

LEMMA CutStep ==
    ASSUME SalaryTypeOK, SalaryTypeOK', NEW w \in Writers, CutSalary(w),
           UserSound(writers[w].user)
    PROVE  \A u : u = writers[w].user => UserSound(u)'
<1> DEFINE u == writers[w].user
<1>1. /\ writers[w].pc # "idle"
      /\ writers'[w].pc = "idle"
      /\ \A x \in Writers \ {w} : writers'[x] = writers[x]
      /\ salaries' = salaries
  BY NoWriterOK DEF CutSalary, SalaryTypeOK
<1>2. WriterSound(w) /\ RecordsSound(u)
  BY <1>1 DEF UserSound, Busy
<1>3. Busy(u) = {w}
  BY <1>2 DEF WriterSound
<1>4. \A x : x = u => Busy(x)' = {}
  BY <1>1, <1>3 DEF Busy
<1>5. \A x : SalariesOf(x)' = SalariesOf(x)
  BY <1>1 DEF SalariesOf
<1>6. \A x : x = u => RecordsSound(x)'
  BY <1>1, <1>2, <1>5 DEF RecordsSound
<1> QED
  BY <1>4, <1>6 DEF UserSound

\* Each step keeps what is known of each orderly user.
LEMMA UsersStep ==
    ASSUME SalaryTypeOK, SalaryTypeOK', SalaryNext,
           \A x \in orderly : UserSound(x),
           NEW u \in orderly'
    PROVE  UserSound(u)'
<1>1. u \in orderly /\ u \in Payees /\ UserSound(u)
  BY DEF SalaryNext, BeginSalary, ClipInterrupted, FindOpenSalary,
         CloseOpenSalary, InsertSalary, CutSalary, SalaryTypeOK
<1>2. ASSUME NEW w \in Writers, NEW v \in Payees, NEW from \in Starts,
             NEW to \in Ends, BeginSalary(w, v, from, to)
      PROVE  UserSound(u)'
  <2>1. CASE v = u
    BY <1>1, <1>2, <2>1, BeginStep
  <2>2. CASE v # u
    <3>1. /\ writers[w].pc = "idle"
          /\ salaries' = salaries
          /\ \A x \in Writers \ {w} : writers'[x] = writers[x]
          /\ writers'[w].user = v
      <4> DEFINE begun == [pc |-> "open", user |-> v, from |-> from,
                           to |-> to, prev |-> NoSalary]
      <4>0. writers \in [Writers -> Writer]
        BY DEF SalaryTypeOK
      <4>1. CASE Interrupted(v, from) = {}
        <5>1. writers' = [writers EXCEPT ![w] = begun]
          BY <1>2, <4>1 DEF BeginSalary
        <5> QED
          BY <1>2, <4>0, <5>1 DEF BeginSalary
      <4>2. CASE Interrupted(v, from) # {}
        <5>1. PICK i \in Interrupted(v, from) : writers' = [writers EXCEPT
                  ![w] = [begun EXCEPT !.pc = "clip", !.prev = i]]
          BY <1>2, <4>2 DEF BeginSalary
        <5> QED
          BY <1>2, <4>0, <5>1 DEF BeginSalary
      <4> QED
        BY <4>1, <4>2
    <3>2. SalariesOf(u)' = SalariesOf(u)
      BY <3>1 DEF SalariesOf
    <3> QED
      BY <1>1, <2>2, <3>1, <3>2, StepOfOther
  <2> QED
    BY <2>1, <2>2
<1>3. ASSUME NEW w \in Writers, writers[w].user # u,
             \/ ClipInterrupted(w) \/ FindOpenSalary(w)
             \/ CloseOpenSalary(w) \/ InsertSalary(w) \/ CutSalary(w)
      PROVE  UserSound(u)'
  <2>0. /\ writers[w] \in Writer
        /\ writers \in [Writers -> Writer]
        /\ salaries \in [DOMAIN salaries -> Salary]
    BY DEF SalaryTypeOK
  <2>1. /\ \A x \in Writers \ {w} : writers'[x] = writers[x]
        /\ writers'[w].pc # "idle" => writers'[w].user # u
    <3>1. CASE ClipInterrupted(w) \/ CloseOpenSalary(w)
      BY <1>3, <2>0, <3>1 DEF ClipInterrupted, CloseOpenSalary, Writer
    <3>2. CASE FindOpenSalary(w)
      BY <1>3, <2>0, <3>2 DEF FindOpenSalary, Writer
    <3>3. CASE InsertSalary(w) \/ CutSalary(w)
      BY <2>0, <3>3, NoWriterOK DEF InsertSalary, CutSalary
    <3> QED
      BY <1>3, <3>1, <3>2, <3>3
  <2>2. /\ SalariesOf(u)' = SalariesOf(u)
        /\ \A i \in SalariesOf(u) : salaries'[i] = salaries[i]
    <3>1. CASE ClipInterrupted(w) \/ CloseOpenSalary(w)
      <4>1. /\ writers[w].prev \in DOMAIN salaries
            /\ salaries[writers[w].prev].user = writers[w].user
            /\ writers[w].from \in Int
            /\ salaries' = EndAt(writers[w].prev, writers[w].from)
        BY <3>1, CallTypes DEF ClipInterrupted, CloseOpenSalary
      <4>2. /\ DOMAIN salaries' = DOMAIN salaries
            /\ salaries'[writers[w].prev].user = writers[w].user
            /\ \A j \in DOMAIN salaries \ {writers[w].prev} :
                  salaries'[j] = salaries[j]
        BY <4>1, EndedOK
      <4> QED
        BY <1>3, <4>1, <4>2 DEF SalariesOf
    <3>2. CASE FindOpenSalary(w) \/ CutSalary(w)
      BY <3>2 DEF FindOpenSalary, CutSalary, SalariesOf
    <3>3. CASE InsertSalary(w)
      <4> DEFINE new == [user |-> writers[w].user,
                         from |-> writers[w].from,
                         to |-> writers[w].to, asked |-> TRUE]
                 n == NewSalaryId
      <4>1. n \notin DOMAIN salaries
        BY <3>3, NewIdOK DEF InsertSalary
      <4>2. salaries' = [j \in DOMAIN salaries \cup {n} |->
                            IF j = n THEN new ELSE salaries[j]]
        BY <3>3 DEF InsertSalary
      <4>3. new.user # u
        BY <1>3
      <4> HIDE DEF new, n
      <4> QED
        BY <4>1, <4>2, <4>3 DEF SalariesOf
    <3> QED
      BY <1>3, <3>1, <3>2, <3>3
  <2> QED
    BY <1>1, <1>3, <2>1, <2>2, StepOfOther
<1>4. ASSUME NEW w \in Writers, writers[w].user = u,
             \/ ClipInterrupted(w) \/ FindOpenSalary(w)
             \/ CloseOpenSalary(w) \/ InsertSalary(w) \/ CutSalary(w)
      PROVE  UserSound(u)'
  BY <1>1, <1>4, EndStep, FindStep, InsertStep, CutStep
<1> QED
  BY <1>2, <1>3, <1>4 DEF SalaryNext

LEMMA InvStep ==
    ASSUME SalaryInv, [SalaryNext]_salaryVars
    PROVE  SalaryInv'
<1>1. SalaryTypeOK /\ \A u \in orderly : UserSound(u)
  BY DEF SalaryInv, OneInForce, UserSound, RecordsSound
<1>2. SalaryTypeOK'
  BY <1>1, TypesStep
<1>3. \A u \in orderly' : UserSound(u)'
  <2>1. CASE SalaryNext
    BY <1>1, <1>2, <2>1, UsersStep
  <2>2. CASE UNCHANGED salaryVars
    <3>1. orderly' = orderly /\ salaries' = salaries /\ writers' = writers
      BY <2>2 DEF salaryVars
    <3> SUFFICES ASSUME NEW u \in orderly PROVE UserSound(u)'
      BY <3>1
    <3> QED
      BY <1>1, <3>1
      DEF UserSound, RecordsSound, WriterSound, AllEndBefore, Busy,
          SalariesOf
  <2> QED
    BY <2>1, <2>2
<1> QED
  BY <1>2, <1>3 DEF SalaryInv, OneInForce, UserSound, RecordsSound

\* The state of the salaries is sound in every reachable state: the types
\* hold and a call knows what it has found out of an orderly user.
THEOREM SalaryInvariant == SalarySpec => []SalaryInv
<1>1. SalaryInit => SalaryInv
  BY InitSalary
<1>2. SalaryInv /\ [SalaryNext]_salaryVars => SalaryInv'
  BY InvStep
<1> QED
  BY <1>1, <1>2, PTL DEF SalarySpec

\* Type correctness.
THEOREM SalaryTypesOK == SalarySpec => []SalaryTypeOK
<1>1. SalaryInv => SalaryTypeOK
  BY DEF SalaryInv
<1> QED
  BY <1>1, SalaryInvariant, PTL

\* A user whose salaries are entered in order has one salary at a time.
THEOREM SalariesSound == SalarySpec => []OneInForce
<1>1. SalaryInv => OneInForce
  BY DEF SalaryInv
<1> QED
  BY <1>1, SalaryInvariant, PTL

-----------------------------------------------------------------------------
(* The list of a period. *)

LEMMA PeriodOfSound ==
    ASSUME SalaryTypeOK, OneInForce
    PROVE  PeriodListsInForce
<1> SUFFICES ASSUME NEW u \in orderly, NEW a \in Starts, NEW b \in Starts,
                    a <= b
             PROVE  getSalariesInPeriod(u, a, b) =
                       UNION {getSalaryAtDate(u, t) : t \in a .. b}
  BY DEF PeriodListsInForce
<1> DEFINE listed == getSalariesInPeriod(u, a, b)
           found == UNION {getSalaryAtDate(u, t) : t \in a .. b}
<1>1. a \in Int /\ b \in Int
  BY NullsAreNoValues
<1>2. ASSUME NEW t \in Int
      PROVE  getSalaryAtDate(u, t) = CoveringAt(u, t)
  <2> DEFINE S == CoveringAt(u, t)
  <2>1. \A i, j \in S : i = j
    <3> SUFFICES ASSUME NEW i \in S, NEW j \in S, i # j PROVE FALSE
      OBVIOUS
    <3>1. /\ i \in SalariesOf(u) /\ salaries[i].from <= t
          /\ ~ EndsBefore(salaries[i], t)
          /\ j \in SalariesOf(u) /\ salaries[j].from <= t
          /\ ~ EndsBefore(salaries[j], t)
      BY DEF CoveringAt
    <3>2. Apart(salaries[i], salaries[j])
      BY <3>1 DEF OneInForce
    <3> QED
      BY <3>1, <3>2, RowTypes DEF Apart, EndsBefore
  <2>2. S \in SUBSET DOMAIN salaries
    BY DEF CoveringAt, SalariesOf
  <2> HIDE DEF S
  <2>3. Latest(S) = S
    BY <2>1, <2>2, LatestOfOne
  <2> QED
    BY <2>3 DEF getSalaryAtDate, S
<1>3. ASSUME NEW i \in listed PROVE i \in found
  <2>1. i \in SalariesOf(u)
    BY DEF getSalariesInPeriod
  <2>2. /\ salaries[i].from \in Int
        /\ salaries[i].to \in Int \cup {NoEnd}
    BY <2>1, RowTypes
  <2>3. /\ salaries[i].from <= b
        /\ salaries[i].to = NoEnd \/ salaries[i].to >= a
    BY <1>1, <2>1, <2>2 DEF getSalariesInPeriod, OneInForce
  <2> DEFINE t == IF salaries[i].from <= a THEN a ELSE salaries[i].from
  <2>4. t \in a .. b /\ salaries[i].from <= t
    BY <1>1, <2>2, <2>3
  <2>5. ~ EndsBefore(salaries[i], t)
    BY <1>1, <2>1, <2>2, <2>3 DEF EndsBefore, OneInForce
  <2>6. i \in CoveringAt(u, t)
    BY <2>1, <2>4, <2>5 DEF CoveringAt
  <2>7. i \in getSalaryAtDate(u, t)
    BY <1>2, <2>4, <2>6
  <2> QED
    BY <2>4, <2>7
<1>4. ASSUME NEW i \in found PROVE i \in listed
  <2>1. PICK t \in a .. b : i \in getSalaryAtDate(u, t)
    OBVIOUS
  <2>2. /\ i \in SalariesOf(u) /\ salaries[i].from <= t
        /\ ~ EndsBefore(salaries[i], t)
    BY <1>1, <1>2, <2>1 DEF CoveringAt
  <2>3. /\ salaries[i].from \in Int
        /\ salaries[i].to \in Int \cup {NoEnd}
    BY <2>2, RowTypes
  <2> QED
    BY <1>1, <2>2, <2>3 DEF getSalariesInPeriod, EndsBefore
<1> QED
  BY <1>3, <1>4

\* The list of a period and the salary of an instant agree.
THEOREM PeriodSound == SalarySpec => []PeriodListsInForce
<1>1. SalaryInv => PeriodListsInForce
  BY PeriodOfSound DEF SalaryInv
<1> QED
  BY <1>1, SalaryInvariant, PTL

-----------------------------------------------------------------------------
(* An ended record is followed. *)

FollowedBy(i, s) ==
    \/ s.asked
    \/ s.user \in unpaid
    \/ \E j \in SalariesOf(s.user) : salaries[j].from = s.to + Day
    \/ \E w \in Busy(s.user) : writers[w].from = s.to + Day

\* What keeps a record followed that the step leaves alone: the rows stay with
\* their users and starts, and a call stays, becomes a row or is cut short.
LEMMA StaysFollowed ==
    ASSUME NEW i, NEW s, FollowedBy(i, s),
           unpaid \subseteq unpaid',
           \A j \in DOMAIN salaries :
              /\ j \in DOMAIN salaries'
              /\ salaries'[j].user = salaries[j].user
              /\ salaries'[j].from = salaries[j].from,
           \A w \in Writers : writers[w].pc # "idle" =>
              \/ /\ writers'[w].pc # "idle"
                 /\ writers'[w].user = writers[w].user
                 /\ writers'[w].from = writers[w].from
              \/ writers[w].user \in unpaid'
              \/ \E j \in DOMAIN salaries' :
                    /\ salaries'[j].user = writers[w].user
                    /\ salaries'[j].from = writers[w].from
    PROVE  \/ s.asked
           \/ s.user \in unpaid'
           \/ \E j \in DOMAIN salaries' : /\ salaries'[j].user = s.user
                                          /\ salaries'[j].from = s.to + Day
           \/ \E w \in Writers : /\ writers'[w].pc # "idle"
                                 /\ writers'[w].user = s.user
                                 /\ writers'[w].from = s.to + Day
<1>1. CASE \E j \in SalariesOf(s.user) : salaries[j].from = s.to + Day
  BY <1>1 DEF SalariesOf
<1>2. CASE \E w \in Busy(s.user) : writers[w].from = s.to + Day
  BY <1>2 DEF Busy
<1> QED
  BY <1>1, <1>2 DEF FollowedBy

LEMMA FollowedStep ==
    ASSUME SalaryTypeOK, ClosedIsFollowed, [SalaryNext]_salaryVars
    PROVE  ClosedIsFollowed'
<1>0. \A i \in DOMAIN salaries : FollowedBy(i, salaries[i])
  BY DEF ClosedIsFollowed, FollowedBy
<1> SUFFICES ASSUME NEW i \in DOMAIN salaries'
    PROVE  LET s == salaries'[i] IN
           \/ s.asked
           \/ s.user \in unpaid'
           \/ \E j \in DOMAIN salaries' : /\ salaries'[j].user = s.user
                                          /\ salaries'[j].from = s.to + Day
           \/ \E w \in Writers : /\ writers'[w].pc # "idle"
                                 /\ writers'[w].user = s.user
                                 /\ writers'[w].from = s.to + Day
  BY DEF ClosedIsFollowed, SalariesOf, Busy
<1>1. CASE UNCHANGED salaryVars
  BY <1>0, <1>1, StaysFollowed DEF salaryVars
<1>2. ASSUME NEW w \in Writers, NEW u \in Payees, NEW from \in Starts,
             NEW to \in Ends, BeginSalary(w, u, from, to)
      PROVE  /\ salaries' = salaries /\ unpaid' = unpaid
             /\ writers[w].pc = "idle"
             /\ \A x \in Writers \ {w} : writers'[x] = writers[x]
  <2>1. \E k : writers' = [writers EXCEPT ![w] = k]
    <3>1. CASE Interrupted(u, from) = {}
      BY <1>2, <3>1 DEF BeginSalary
    <3>2. CASE Interrupted(u, from) # {}
      BY <1>2, <3>2 DEF BeginSalary
    <3> QED
      BY <3>1, <3>2
  <2> QED
    BY <1>2, <2>1 DEF BeginSalary, SalaryTypeOK
<1>3. ASSUME NEW w \in Writers, NEW u \in Payees, NEW from \in Starts,
             NEW to \in Ends, BeginSalary(w, u, from, to)
      PROVE  FollowedBy(i, salaries'[i])
  BY <1>0, <1>2, <1>3
<1>4. CASE \E w \in Writers, u \in Payees, from \in Starts, to \in Ends :
              BeginSalary(w, u, from, to)
  BY <1>2, <1>3, <1>4, StaysFollowed
<1>5. ASSUME NEW w \in Writers, ClipInterrupted(w) \/ CloseOpenSalary(w)
      PROVE  \/ salaries'[i].asked
             \/ salaries'[i].user \in unpaid'
             \/ \E j \in DOMAIN salaries' :
                   /\ salaries'[j].user = salaries'[i].user
                   /\ salaries'[j].from = salaries'[i].to + Day
             \/ \E x \in Writers :
                   /\ writers'[x].pc # "idle"
                   /\ writers'[x].user = salaries'[i].user
                   /\ writers'[x].from = salaries'[i].to + Day
  <2> DEFINE p == writers[w].prev
  <2>1. /\ p \in DOMAIN salaries
        /\ salaries[p].user = writers[w].user
        /\ writers[w].from \in Int
        /\ writers[w] \in Writer
        /\ salaries' = EndAt(p, writers[w].from)
    BY <1>5, CallTypes DEF ClipInterrupted, CloseOpenSalary
  <2>2. /\ DOMAIN salaries' = DOMAIN salaries
        /\ salaries'[p].user = salaries[p].user
        /\ salaries'[p].from = salaries[p].from
        /\ salaries'[p].to = writers[w].from - Day
        /\ \A j \in DOMAIN salaries \ {p} : salaries'[j] = salaries[j]
    BY <2>1, EndedOK
  <2>3. /\ writers'[w].pc # "idle"
        /\ writers'[w].user = writers[w].user
        /\ writers'[w].from = writers[w].from
        /\ \A x \in Writers \ {w} : writers'[x] = writers[x]
        /\ unpaid' = unpaid
    BY <1>5, <2>1
    DEF ClipInterrupted, CloseOpenSalary, SalaryTypeOK, Writer
  <2>4. CASE i = p
    <3>1. salaries'[i].to + Day = writers[w].from
      BY <2>1, <2>2, <2>4, NullsAreNoValues
    <3> QED
      BY <2>1, <2>2, <2>3, <2>4, <3>1
  <2>5. CASE i # p
    <3>1. FollowedBy(i, salaries'[i])
      BY <1>0, <2>2, <2>5
    <3> QED
      BY <2>2, <2>3, <3>1, StaysFollowed
  <2> QED
    BY <2>4, <2>5
<1>6. ASSUME NEW w \in Writers, FindOpenSalary(w)
      PROVE  /\ FollowedBy(i, salaries'[i])
             /\ salaries' = salaries /\ unpaid' = unpaid
             /\ writers'[w].pc # "idle"
             /\ writers'[w].user = writers[w].user
             /\ writers'[w].from = writers[w].from
             /\ \A x \in Writers \ {w} : writers'[x] = writers[x]
  BY <1>0, <1>6 DEF FindOpenSalary, SalaryTypeOK, Writer
<1>7. CASE \E w \in Writers : FindOpenSalary(w)
  BY <1>6, <1>7, StaysFollowed
<1>8. ASSUME NEW w \in Writers, InsertSalary(w)
      PROVE  \/ salaries'[i].asked
             \/ /\ FollowedBy(i, salaries'[i])
                /\ unpaid' = unpaid
                /\ \A x \in Writers \ {w} : writers'[x] = writers[x]
                /\ \A j \in DOMAIN salaries :
                      /\ j \in DOMAIN salaries'
                      /\ salaries'[j] = salaries[j]
                /\ \E j \in DOMAIN salaries' :
                      /\ salaries'[j].user = writers[w].user
                      /\ salaries'[j].from = writers[w].from
  <2> DEFINE new == [user |-> writers[w].user, from |-> writers[w].from,
                     to |-> writers[w].to, asked |-> TRUE]
             n == NewSalaryId
  <2>1. n \notin DOMAIN salaries
    BY <1>8, NewIdOK DEF InsertSalary
  <2>2. salaries' = [j \in DOMAIN salaries \cup {n} |->
                        IF j = n THEN new ELSE salaries[j]]
    BY <1>8 DEF InsertSalary
  <2>3. /\ new.asked
        /\ new.user = writers[w].user /\ new.from = writers[w].from
    OBVIOUS
  <2> HIDE DEF new, n
  <2>4. /\ DOMAIN salaries' = DOMAIN salaries \cup {n}
        /\ salaries'[n] = new
        /\ \A j \in DOMAIN salaries : salaries'[j] = salaries[j]
    BY <2>1, <2>2
  <2>5. /\ unpaid' = unpaid
        /\ \A x \in Writers \ {w} : writers'[x] = writers[x]
    BY <1>8 DEF InsertSalary, SalaryTypeOK
  <2>6. CASE i = n
    BY <2>3, <2>4, <2>6
  <2>7. CASE i # n
    BY <1>0, <2>3, <2>4, <2>5, <2>7
  <2> QED
    BY <2>6, <2>7
<1>9. CASE \E w \in Writers : InsertSalary(w)
  <2>1. PICK w \in Writers : InsertSalary(w)
    BY <1>9
  <2>2. CASE salaries'[i].asked
    BY <2>2
  <2>3. CASE ~ salaries'[i].asked
    <3>1. /\ FollowedBy(i, salaries'[i])
          /\ unpaid' = unpaid
          /\ \A x \in Writers \ {w} : writers'[x] = writers[x]
          /\ \A j \in DOMAIN salaries :
                j \in DOMAIN salaries' /\ salaries'[j] = salaries[j]
          /\ \E j \in DOMAIN salaries' :
                /\ salaries'[j].user = writers[w].user
                /\ salaries'[j].from = writers[w].from
      BY <1>8, <2>1, <2>3
    <3> QED
      BY <3>1, StaysFollowed
  <2> QED
    BY <2>2, <2>3
<1>10. ASSUME NEW w \in Writers, CutSalary(w)
       PROVE  /\ FollowedBy(i, salaries'[i])
              /\ salaries' = salaries
              /\ unpaid \subseteq unpaid'
              /\ writers[w].user \in unpaid'
              /\ \A x \in Writers \ {w} : writers'[x] = writers[x]
  BY <1>0, <1>10 DEF CutSalary, SalaryTypeOK
<1>11. CASE \E w \in Writers : CutSalary(w)
  BY <1>10, <1>11, StaysFollowed
<1> QED
  BY <1>1, <1>4, <1>5, <1>7, <1>9, <1>11 DEF SalaryNext

\* Only a call that is cut short leaves a user without a salary.
THEOREM FollowedSound == SalarySpec => []ClosedIsFollowed
<1>1. SalaryInit => ClosedIsFollowed
  BY InitSalary
<1>2. /\ SalaryTypeOK /\ ClosedIsFollowed /\ [SalaryNext]_salaryVars
      => ClosedIsFollowed'
  BY FollowedStep
<1> QED
  BY <1>1, <1>2, SalaryTypesOK, PTL DEF SalarySpec

=============================================================================
