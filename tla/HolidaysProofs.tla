--------------------------- MODULE HolidaysProofs ---------------------------
(***************************************************************************)
(* Holidays for any number of years, events, calls and faults.             *)
(*                                                                         *)
(* HolidayInv is inductive: an import that is alone of its year has yet to *)
(* insert only what is not there (ImportAlone), and what it has inserted   *)
(* starts in the year it was imported for (ImportedAsFormatted), so that   *)
(* the look for holidays of the year finds it.  Most steps only take away  *)
(* from imports and imported rows: lemma PlainStep is about all of these.  *)
(***************************************************************************)
EXTENDS Holidays, TLAPS

LEMMA NullsAreNoValues ==
    /\ NoDate \notin Int
    /\ NoDate \notin HolidayIds
    /\ \A y \in HolidayYears, e \in Events : NoDate # <<y, e>>
    /\ NoDate \notin Source
<1>1. /\ NoDate \notin Int
      /\ NoDate \notin HolidayIds
      /\ \A y \in HolidayYears, e \in Events : NoDate # <<y, e>>
  BY HolidayAssumption
<1>2. \A s \in Source : \E y \in HolidayYears, e \in Events : s = <<y, e>>
  BY DEF Source
<1> QED
  BY <1>1, <1>2

LEMMA NoCallOK == NoCall \in HolidayCall /\ NoCall.op = "idle"
BY DEF NoCall, HolidayCall

-----------------------------------------------------------------------------
(* What an event of a year becomes. *)

LEMMA DivUnique ==
    ASSUME NEW a \in Int, NEW y \in Int, NEW m \in Nat \ {0},
           y * m <= a, a < (y + 1) * m
    PROVE  a \div m = y
<1> DEFINE q == a \div m
           r == a % m
<1>1. q \in Int /\ r \in 0 .. m - 1 /\ a = m * q + r
  OBVIOUS
<1>2. ~ (q <= y - 1)
  OBVIOUS
<1>3. ~ (q >= y + 1)
  OBVIOUS
<1> QED
  BY <1>1, <1>2, <1>3

LEMMA FormattedOK ==
    ASSUME NEW y \in HolidayYears, NEW e \in EventsOf(y)
    PROVE  /\ Formatted(y, e) \in Holiday
           /\ Formatted(y, e).source = <<y, e>>
           /\ YearOf(Formatted(y, e).start) = y
<1>1. /\ y \in Int /\ DaysPerYear \in Nat \ {0}
      /\ \A f \in Feriados[y] :
            f[2] \in y * DaysPerYear .. (y + 1) * DaysPerYear - 1
      /\ \E d \in DatesOf(y, e) : \A x \in DatesOf(y, e) : d <= x
      /\ \E d \in DatesOf(y, e) : \A x \in DatesOf(y, e) : x <= d
  BY HolidayAssumption
<1>2. \A d \in DatesOf(y, e) :
         d \in y * DaysPerYear .. (y + 1) * DaysPerYear - 1
  BY <1>1 DEF DatesOf
<1>3. FirstOf(y, e) \in DatesOf(y, e) /\ LastOf(y, e) \in DatesOf(y, e)
  BY <1>1 DEF FirstOf, LastOf
<1> DEFINE f == FirstOf(y, e)
           h == 24 * f + 5
           m == 24 * DaysPerYear
           b == y * DaysPerYear
<1>4. /\ f \in Int /\ LastOf(y, e) \in Int
      /\ b \in Int /\ b <= f /\ f <= b + DaysPerYear - 1
  BY <1>1, <1>2, <1>3
<1>5. y * m = 24 * b /\ (y + 1) * m = 24 * b + 24 * DaysPerYear
  BY <1>1
<1>6. h \div m = y
  <2>1. h \in Int /\ m \in Nat \ {0}
    BY <1>1, <1>4
  <2>2. y * m <= h /\ h < (y + 1) * m
    <3> HIDE DEF b, f
    <3> QED
      BY <1>1, <1>4, <1>5
  <2> HIDE DEF h, m
  <2> QED
    BY <1>1, <2>1, <2>2, DivUnique
<1>7. /\ Formatted(y, e).start = h
      /\ Formatted(y, e).end \in Int
      /\ Formatted(y, e).source = <<y, e>>
  BY <1>4 DEF Formatted, toUtcEcuadorStart, toUtcEcuadorEnd, Ecuador
<1>8. e \in Events
  BY DEF EventsOf
<1>9. Formatted(y, e) \in Holiday
  BY <1>4, <1>8 DEF Formatted, toUtcEcuadorStart, toUtcEcuadorEnd, Ecuador,
     Holiday, Source
<1> QED
  BY <1>6, <1>7, <1>9 DEF YearOf

-----------------------------------------------------------------------------
(* Rows and calls. *)

LEMMA RowAdded ==
    ASSUME HolidayTypeOK, NEW i \in HolidayIds, NEW h \in Holiday
    PROVE  /\ DOMAIN WithRow(i, h) = DOMAIN holidays \cup {i}
           /\ DOMAIN WithRow(i, h) \subseteq HolidayIds
           /\ WithRow(i, h) \in [DOMAIN WithRow(i, h) -> Holiday]
           /\ WithRow(i, h)[i] = h
           /\ \A j \in DOMAIN holidays \ {i} :
                 WithRow(i, h)[j] = holidays[j]
<1>1. \A j \in DOMAIN holidays : holidays[j] \in Holiday
  BY DEF HolidayTypeOK
<1> QED
  BY <1>1 DEF WithRow, HolidayTypeOK

LEMMA NewIdOK ==
    ASSUME FreeHolidayIds # {}
    PROVE  NewHolidayId \in HolidayIds /\ NewHolidayId \notin DOMAIN holidays
BY DEF NewHolidayId, FreeHolidayIds

\* What the types say of a call.
CallOK(k) ==
    /\ k \in HolidayCall
    /\ k.op \in {"read", "sync"} =>
          k.year \in HolidayYears /\ k.todo \subseteq EventsOf(k.year)
    /\ k.op = "update" =>
          k.id \in HolidayIds /\ k.start \in Int /\ k.end \in Int

LEMMA CallsOK ==
    ASSUME HolidayTypeOK, NEW c \in HolidayCalls
    PROVE  CallOK(holidayCalls[c])
BY DEF HolidayTypeOK, CallOK

\* The types after a step of call c and any change of the rows.
LEMMA TypesAfter ==
    ASSUME HolidayTypeOK, NEW c \in HolidayCalls, NEW k, CallOK(k),
           holidayCalls' = [holidayCalls EXCEPT ![c] = k],
           DOMAIN holidays' \subseteq HolidayIds,
           holidays' \in [DOMAIN holidays' -> Holiday],
           imported' \subseteq HolidayYears,
           crowded' \subseteq HolidayYears,
           withdrawn' \subseteq Source,
           holidayRequests' \in Nat,
           holidayFaults' \in Nat
    PROVE  HolidayTypeOK'
<1>1. holidayCalls' \in [HolidayCalls -> HolidayCall]
  BY DEF HolidayTypeOK, CallOK
<1>2. \A x \in HolidayCalls : CallOK(holidayCalls'[x])
  <2> TAKE x \in HolidayCalls
  <2>1. CASE x = c
    BY <2>1 DEF HolidayTypeOK
  <2>2. CASE x # c
    BY <2>2, CallsOK DEF HolidayTypeOK
  <2> QED
    BY <2>1, <2>2
<1> QED
  BY <1>1, <1>2 DEF HolidayTypeOK, CallOK

\* The call that remains when the inserts of some events are over.
Rest(c, E) == IF holidayCalls[c].todo \subseteq E THEN NoCall
              ELSE [holidayCalls[c] EXCEPT !.todo = holidayCalls[c].todo \ E]

LEMMA WithoutOK ==
    ASSUME HolidayTypeOK, NEW c \in HolidayCalls, NEW E,
           holidayCalls[c].op \in {"read", "sync"}
    PROVE  /\ Without(c, E) = [holidayCalls EXCEPT ![c] = Rest(c, E)]
           /\ CallOK(Rest(c, E))
           /\ \/ Rest(c, E) = NoCall /\ holidayCalls[c].todo \subseteq E
              \/ /\ Rest(c, E).op = holidayCalls[c].op
                 /\ Rest(c, E).year = holidayCalls[c].year
                 /\ Rest(c, E).todo = holidayCalls[c].todo \ E
<1> DEFINE k == holidayCalls[c]
<1>1. k \in HolidayCall /\ CallOK(k)
  BY CallsOK DEF CallOK
<1>2. Without(c, E) = [holidayCalls EXCEPT ![c] = Rest(c, E)]
  BY DEF Without, Rest
<1>3. CASE k.todo \subseteq E
  BY <1>2, <1>3, NoCallOK DEF Rest, CallOK
<1>4. CASE ~ (k.todo \subseteq E)
  <2> DEFINE r == [k EXCEPT !.todo = k.todo \ E]
  <2>1. Rest(c, E) = r
    BY <1>4 DEF Rest
  <2>2. k.todo \ E \in SUBSET Events
    BY <1>1 DEF HolidayCall
  <2>3. /\ r \in HolidayCall /\ r.op = k.op /\ r.year = k.year
        /\ r.todo = k.todo \ E
    BY <1>1, <2>2 DEF HolidayCall
  <2> HIDE DEF r
  <2> QED
    BY <1>1, <1>2, <2>1, <2>3 DEF CallOK
<1> QED
  BY <1>3, <1>4

-----------------------------------------------------------------------------
(* Steps that only take away from imports and from imported rows. *)

Importing(k) == k.op \in {"read", "sync"}

LEMMA PlainStep ==
    ASSUME HolidayInv, HolidayTypeOK',
           imported' = imported, crowded' = crowded,
           withdrawn \subseteq withdrawn',
           \A i \in DOMAIN holidays' : holidays'[i].source # NoDate =>
              i \in DOMAIN holidays /\ holidays[i] = holidays'[i],
           \A i \in DOMAIN holidays : holidays[i].source # NoDate =>
              \/ i \in DOMAIN holidays' /\ holidays'[i] = holidays[i]
              \/ holidays[i].source \in withdrawn',
           \A x \in HolidayCalls : Importing(holidayCalls'[x]) =>
              /\ Importing(holidayCalls[x])
              /\ holidayCalls'[x].year = holidayCalls[x].year
              /\ holidayCalls'[x].todo \subseteq holidayCalls[x].todo,
           \A x \in HolidayCalls : Importing(holidayCalls[x]) =>
              \A e \in holidayCalls[x].todo :
                 \/ /\ Importing(holidayCalls'[x])
                    /\ holidayCalls'[x].year = holidayCalls[x].year
                    /\ e \in holidayCalls'[x].todo
                 \/ <<holidayCalls[x].year, e>> \in withdrawn'
    PROVE  HolidayInv'
<1>1. \A y : \A x \in HolidayCalls :
         x \in ImportersOf(y)' => x \in ImportersOf(y)
  BY DEF ImportersOf, Importing
<1>2. ImportAlone'
  <2> SUFFICES ASSUME NEW c \in HolidayCalls,
                      NEW y \in HolidayYears \ crowded,
                      c \in ImportersOf(y)'
      PROVE  /\ ImportersOf(y)' = {c}
             /\ \A i \in DOMAIN holidays', e \in holidayCalls'[c].todo :
                   holidays'[i].source # <<y, e>>
    BY DEF ImportAlone
  <2>1. /\ ImportersOf(y) = {c}
        /\ \A i \in DOMAIN holidays, e \in holidayCalls[c].todo :
              holidays[i].source # <<y, e>>
    BY <1>1 DEF HolidayInv, ImportAlone
  <2>2. ImportersOf(y)' = {c}
    <3>1. \A x \in ImportersOf(y)' : x \in ImportersOf(y)
      BY <1>1 DEF ImportersOf
    <3> QED
      BY <2>1, <3>1
  <2>3. holidayCalls'[c].todo \subseteq holidayCalls[c].todo
    BY DEF ImportersOf, Importing
  <2>4. \A e \in holidayCalls[c].todo : NoDate # <<y, e>>
    BY NullsAreNoValues, CallsOK DEF HolidayInv, CallOK, HolidayCall
  <2> QED
    BY <2>1, <2>2, <2>3, <2>4
<1>3. ImportedAsFormatted'
  BY DEF HolidayInv, ImportedAsFormatted
<1>4. EventOnce'
  BY DEF HolidayInv, EventOnce
<1>5. YearWhole'
  <2> SUFFICES ASSUME NEW y \in imported, NEW e \in EventsOf(y)
      PROVE  \/ \E i \in DOMAIN holidays' : holidays'[i].source = <<y, e>>
             \/ \E c \in ImportersOf(y)' : e \in holidayCalls'[c].todo
             \/ <<y, e>> \in withdrawn'
    BY DEF YearWhole
  <2>1. \/ \E i \in DOMAIN holidays : holidays[i].source = <<y, e>>
        \/ \E c \in ImportersOf(y) : e \in holidayCalls[c].todo
        \/ <<y, e>> \in withdrawn
    BY DEF HolidayInv, YearWhole
  <2>2. CASE \E i \in DOMAIN holidays : holidays[i].source = <<y, e>>
    <3>1. NoDate # <<y, e>>
      BY NullsAreNoValues DEF HolidayInv, HolidayTypeOK, EventsOf
    <3> QED
      BY <2>2, <3>1
  <2>3. CASE \E c \in ImportersOf(y) : e \in holidayCalls[c].todo
    BY <2>3 DEF ImportersOf, Importing
  <2> QED
    BY <2>1, <2>2, <2>3
<1> QED
  BY <1>2, <1>3, <1>4, <1>5 DEF HolidayInv

LEMMA LoseStep ==
    ASSUME HolidayInv, NEW c \in HolidayCalls,
           CutHolidayCall(c) \/ \E e \in Events : FailInsert(c, e)
    PROVE  HolidayInv'
<1> DEFINE me == holidayCalls[c]
<1>1. HolidayTypeOK /\ CallOK(me) /\ me \in HolidayCall
  BY CallsOK DEF HolidayInv, CallOK
<1>2. /\ holidays' = holidays /\ imported' = imported
      /\ crowded' = crowded /\ holidayRequests' = holidayRequests
      /\ holidayFaults' = holidayFaults + 1
  BY DEF CutHolidayCall, FailInsert
<1> DEFINE Fits(k, E) ==
        /\ CallOK(k)
        /\ holidayCalls' = [holidayCalls EXCEPT ![c] = k]
        /\ Importing(k) => /\ Importing(me) /\ k.year = me.year
                           /\ k.todo \subseteq me.todo
        /\ Importing(me) =>
              /\ withdrawn' = withdrawn \cup ({me.year} \X E)
              /\ E \subseteq me.todo
              /\ \A x \in me.todo :
                    \/ x \in E
                    \/ Importing(k) /\ k.year = me.year /\ x \in k.todo
        /\ ~ Importing(me) => withdrawn' = withdrawn
<1>3. \E k : \E E \in SUBSET Events : Fits(k, E)
  <2>1. CASE CutHolidayCall(c)
    <3>1. holidayCalls' = [holidayCalls EXCEPT ![c] = NoCall]
      BY <2>1 DEF CutHolidayCall
    <3>2. CallOK(NoCall) /\ ~ Importing(NoCall)
      BY NoCallOK DEF CallOK, Importing
    <3>3. me.todo \in SUBSET Events
      BY <1>1 DEF HolidayCall
    <3>4. /\ Importing(me) =>
                withdrawn' = withdrawn \cup ({me.year} \X me.todo)
          /\ ~ Importing(me) => withdrawn' = withdrawn
      BY <1>1, <2>1 DEF CutHolidayCall, Importing, HolidayCall
    <3>5. Fits(NoCall, me.todo)
      <4>1. \A x \in me.todo : x \in me.todo
        OBVIOUS
      <4> HIDE DEF me
      <4> QED
        BY <3>1, <3>2, <3>4, <4>1
    <3> HIDE DEF Fits
    <3> QED
      BY <3>3, <3>5
  <2>2. CASE \E e \in Events : FailInsert(c, e)
    <3>1. PICK e \in Events : FailInsert(c, e)
      BY <2>2
    <3>2. Importing(me) /\ e \in me.todo
      BY <3>1 DEF FailInsert, Importing
    <3> DEFINE lost == IF me.op = "read" THEN {e} ELSE me.todo
    <3>3. lost \in SUBSET Events /\ lost \subseteq me.todo
      BY <1>1, <3>2 DEF HolidayCall
    <3>4. /\ holidayCalls' = Without(c, lost)
          /\ withdrawn' = withdrawn \cup ({me.year} \X lost)
      BY <3>1 DEF FailInsert
    <3> HIDE DEF lost
    <3>5. /\ Without(c, lost) = [holidayCalls EXCEPT ![c] = Rest(c, lost)]
          /\ CallOK(Rest(c, lost))
          /\ \/ Rest(c, lost) = NoCall /\ me.todo \subseteq lost
             \/ /\ Rest(c, lost).op = me.op
                /\ Rest(c, lost).year = me.year
                /\ Rest(c, lost).todo = me.todo \ lost
      BY <1>1, <3>2, WithoutOK DEF Importing
    <3> DEFINE r == Rest(c, lost)
    <3>6. Fits(r, lost)
      <4>1. holidayCalls' = [holidayCalls EXCEPT ![c] = r]
        BY <3>4, <3>5
      <4>2. /\ Importing(r) => /\ Importing(me) /\ r.year = me.year
                               /\ r.todo \subseteq me.todo
            /\ \A x \in me.todo :
                  \/ x \in lost
                  \/ Importing(r) /\ r.year = me.year /\ x \in r.todo
        BY <3>2, <3>5, NoCallOK DEF Importing
      <4>3. CallOK(r)
        BY <3>5
      <4> HIDE DEF me, r
      <4> QED
        BY <3>2, <3>3, <3>4, <4>1, <4>2, <4>3
    <3> HIDE DEF Fits
    <3> QED
      BY <3>3, <3>6
  <2> QED
    BY <2>1, <2>2
<1>3a. PICK k : \E E \in SUBSET Events : Fits(k, E)
  BY <1>3
<1>3b. PICK E \in SUBSET Events : Fits(k, E)
  BY <1>3a
<1>4. /\ withdrawn' \subseteq Source
      /\ withdrawn \subseteq withdrawn'
      /\ Importing(me) => \A x \in E : <<me.year, x>> \in withdrawn'
  <2>1. CASE Importing(me)
    <3>1. me.year \in HolidayYears
      BY <1>1, <2>1 DEF CallOK, Importing
    <3> QED
      BY <1>1, <1>3b, <2>1, <3>1 DEF Source, HolidayTypeOK
  <2>2. CASE ~ Importing(me)
    BY <1>1, <1>3b, <2>2 DEF HolidayTypeOK
  <2> QED
    BY <2>1, <2>2
<1>5. HolidayTypeOK'
  <2>1. /\ DOMAIN holidays' \subseteq HolidayIds
        /\ holidays' \in [DOMAIN holidays' -> Holiday]
        /\ imported' \subseteq HolidayYears
        /\ crowded' \subseteq HolidayYears
        /\ holidayRequests' \in Nat
        /\ holidayFaults' \in Nat
    BY <1>1, <1>2 DEF HolidayTypeOK
  <2> QED
    BY <1>1, <1>3b, <1>4, <2>1, TypesAfter
<1>6. /\ holidayCalls'[c] = k
      /\ \A x \in HolidayCalls \ {c} : holidayCalls'[x] = holidayCalls[x]
  BY <1>1, <1>3b DEF HolidayTypeOK
<1>7. \A x \in HolidayCalls : Importing(holidayCalls'[x]) =>
         /\ Importing(holidayCalls[x])
         /\ holidayCalls'[x].year = holidayCalls[x].year
         /\ holidayCalls'[x].todo \subseteq holidayCalls[x].todo
  BY <1>3b, <1>6
<1>8. \A x \in HolidayCalls : Importing(holidayCalls[x]) =>
         \A e \in holidayCalls[x].todo :
            \/ /\ Importing(holidayCalls'[x])
               /\ holidayCalls'[x].year = holidayCalls[x].year
               /\ e \in holidayCalls'[x].todo
            \/ <<holidayCalls[x].year, e>> \in withdrawn'
  BY <1>3b, <1>4, <1>6
<1> QED
  BY <1>2, <1>4, <1>5, <1>7, <1>8, PlainStep

LEMMA CreateStep ==
    ASSUME HolidayInv, NEW h \in Entries, CreateHoliday(h)
    PROVE  HolidayInv'
<1> DEFINE n == NewHolidayId
           row == [start |-> h.start, end |-> h.end, source |-> NoDate]
<1>1. HolidayTypeOK
  BY DEF HolidayInv
<1>2. /\ holidays' = WithRow(n, row)
      /\ holidayCalls' = holidayCalls /\ imported' = imported
      /\ crowded' = crowded /\ withdrawn' = withdrawn
      /\ holidayFaults' = holidayFaults
      /\ holidayRequests' = holidayRequests + 1
      /\ n \in HolidayIds /\ n \notin DOMAIN holidays
  BY NewIdOK DEF CreateHoliday, RequestHoliday
<1>3. row \in Holiday
  BY HolidayAssumption DEF Holiday
<1>4. row.source = NoDate
  OBVIOUS
<1> HIDE DEF n, row
<1>5. /\ DOMAIN holidays' = DOMAIN holidays \cup {n}
      /\ DOMAIN holidays' \subseteq HolidayIds
      /\ holidays' \in [DOMAIN holidays' -> Holiday]
      /\ holidays'[n] = row
      /\ \A j \in DOMAIN holidays : holidays'[j] = holidays[j]
  <2>1. /\ DOMAIN WithRow(n, row) = DOMAIN holidays \cup {n}
        /\ DOMAIN WithRow(n, row) \subseteq HolidayIds
        /\ WithRow(n, row) \in [DOMAIN WithRow(n, row) -> Holiday]
        /\ WithRow(n, row)[n] = row
        /\ \A j \in DOMAIN holidays \ {n} :
              WithRow(n, row)[j] = holidays[j]
    BY <1>1, <1>2, <1>3, RowAdded
  <2> QED
    BY <1>2, <2>1
<1>6. HolidayTypeOK'
  BY <1>1, <1>2, <1>5 DEF HolidayTypeOK
<1> QED
  BY <1>2, <1>4, <1>5, <1>6, PlainStep

LEMMA RemoveStep ==
    ASSUME HolidayInv, NEW i \in HolidayIds, RemoveHoliday(i)
    PROVE  HolidayInv'
<1>1. HolidayTypeOK
  BY DEF HolidayInv
<1>2. /\ holidays' = [j \in DOMAIN holidays \ {i} |-> holidays[j]]
      /\ i \in DOMAIN holidays
      /\ holidayCalls' = holidayCalls /\ imported' = imported
      /\ crowded' = crowded /\ withdrawn' = Withdraw(i)
      /\ holidayFaults' = holidayFaults
      /\ holidayRequests' = holidayRequests + 1
  BY DEF RemoveHoliday, RequestHoliday
<1>3. holidays[i].source \in Source \cup {NoDate}
  BY <1>1, <1>2 DEF HolidayTypeOK, Holiday
<1>4. /\ withdrawn' \subseteq Source
      /\ withdrawn \subseteq withdrawn'
      /\ holidays[i].source # NoDate => holidays[i].source \in withdrawn'
  BY <1>1, <1>2, <1>3 DEF Withdraw, HolidayTypeOK
<1>5. /\ DOMAIN holidays' = DOMAIN holidays \ {i}
      /\ \A j \in DOMAIN holidays' : holidays'[j] = holidays[j]
      /\ holidays' \in [DOMAIN holidays' -> Holiday]
  BY <1>1, <1>2 DEF HolidayTypeOK
<1>6. HolidayTypeOK'
  BY <1>1, <1>2, <1>4, <1>5 DEF HolidayTypeOK
<1> QED
  BY <1>2, <1>4, <1>5, <1>6, PlainStep

LEMMA BeginUpdateStep ==
    ASSUME HolidayInv, NEW c \in HolidayCalls, NEW i \in HolidayIds,
           NEW h \in Edits, BeginUpdateHoliday(c, i, h)
    PROVE  HolidayInv'
<1> DEFINE start == IF h.start = NoDate THEN holidays[i].start
                    ELSE ServerDayStart(h.start)
           end == IF h.end = NoDate THEN holidays[i].end
                  ELSE ServerDayEnd(h.end)
           k == [NoCall EXCEPT !.op = "update", !.id = i, !.start = start,
                               !.end = end]
<1>1. HolidayTypeOK
  BY DEF HolidayInv
<1>2. /\ holidays' = holidays
      /\ holidayCalls[c].op = "idle"
      /\ i \in DOMAIN holidays
      /\ holidayCalls' = [holidayCalls EXCEPT ![c] = k]
      /\ imported' = imported /\ crowded' = crowded
      /\ withdrawn' = withdrawn /\ holidayFaults' = holidayFaults
      /\ holidayRequests' = holidayRequests + 1
  BY DEF BeginUpdateHoliday, RequestHoliday
<1>3. start \in Int /\ end \in Int
  <2>1. holidays[i].start \in Int /\ holidays[i].end \in Int
    BY <1>1, <1>2 DEF HolidayTypeOK, Holiday
  <2>2. /\ h.start \in Int \cup {NoDate} /\ h.end \in Int \cup {NoDate}
        /\ ServerZone \in Int
    BY HolidayAssumption
  <2> QED
    BY <2>1, <2>2 DEF ServerDayStart, ServerDayEnd
<1>4. CallOK(k)
  <2> HIDE DEF start, end
  <2> DEFINE a == [NoCall EXCEPT !.op = "update", !.id = i]
  <2>1. a \in HolidayCall /\ a.op = "update" /\ a.id = i
    BY NoCallOK DEF HolidayCall
  <2>2. k = [a EXCEPT !.start = start, !.end = end]
    BY NoCallOK DEF HolidayCall
  <2> HIDE DEF a, k
  <2>3. /\ k \in HolidayCall /\ k.op = "update" /\ k.id = i
        /\ k.start = start /\ k.end = end
    BY <1>3, <2>1, <2>2 DEF HolidayCall
  <2> QED
    BY <1>3, <2>3 DEF CallOK
<1>5. k.op = "update"
  BY DEF NoCall
<1> HIDE DEF k
<1>6. /\ holidayCalls'[c] = k
      /\ \A x \in HolidayCalls \ {c} : holidayCalls'[x] = holidayCalls[x]
  BY <1>1, <1>2 DEF HolidayTypeOK
<1>7. HolidayTypeOK'
  <2>1. /\ DOMAIN holidays' \subseteq HolidayIds
        /\ holidays' \in [DOMAIN holidays' -> Holiday]
        /\ imported' \subseteq HolidayYears
        /\ crowded' \subseteq HolidayYears
        /\ withdrawn' \subseteq Source
        /\ holidayRequests' \in Nat
        /\ holidayFaults' \in Nat
    BY <1>1, <1>2 DEF HolidayTypeOK
  <2> QED
    BY <1>1, <1>2, <1>4, <2>1, TypesAfter
<1>8. \A x \in HolidayCalls :
         \/ holidayCalls'[x] = holidayCalls[x]
         \/ ~ Importing(holidayCalls[x]) /\ ~ Importing(holidayCalls'[x])
  BY <1>2, <1>5, <1>6 DEF Importing
<1> QED
  BY <1>2, <1>7, <1>8, PlainStep

LEMMA WriteStep ==
    ASSUME HolidayInv, NEW c \in HolidayCalls, WriteHoliday(c)
    PROVE  HolidayInv'
<1> DEFINE me == holidayCalls[c]
           i == me.id
           row == [start |-> me.start, end |-> me.end, source |-> NoDate]
<1>1. HolidayTypeOK /\ CallOK(me)
  BY CallsOK DEF HolidayInv
<1>2. /\ me.op = "update"
      /\ holidayCalls' = [holidayCalls EXCEPT ![c] = NoCall]
      /\ imported' = imported /\ crowded' = crowded
      /\ holidayFaults' = holidayFaults
      /\ holidayRequests' = holidayRequests
  BY DEF WriteHoliday
<1>3. i \in HolidayIds /\ row \in Holiday /\ row.source = NoDate
  BY <1>1, <1>2 DEF CallOK, Holiday
<1>4. /\ DOMAIN holidays' \subseteq HolidayIds
      /\ holidays' \in [DOMAIN holidays' -> Holiday]
      /\ DOMAIN holidays' = DOMAIN holidays
      /\ withdrawn' \subseteq Source
      /\ withdrawn \subseteq withdrawn'
      /\ \A j \in DOMAIN holidays :
            \/ holidays'[j] = holidays[j]
            \/ /\ holidays'[j].source = NoDate
               /\ \/ holidays[j].source = NoDate
                  \/ holidays[j].source \in withdrawn'
  <2>1. CASE i \notin DOMAIN holidays
    <3>1. holidays' = holidays /\ withdrawn' = withdrawn
      BY <2>1 DEF WriteHoliday
    <3> QED
      BY <1>1, <3>1 DEF HolidayTypeOK
  <2>2. CASE i \in DOMAIN holidays
    <3>1. holidays' = WithRow(i, row) /\ withdrawn' = Withdraw(i)
      BY <2>2 DEF WriteHoliday
    <3>2. holidays[i].source \in Source \cup {NoDate}
      BY <1>1, <2>2 DEF HolidayTypeOK, Holiday
    <3>3. /\ withdrawn' \subseteq Source
          /\ withdrawn \subseteq withdrawn'
          /\ \/ holidays[i].source = NoDate
             \/ holidays[i].source \in withdrawn'
      BY <1>1, <3>1, <3>2 DEF Withdraw, HolidayTypeOK
    <3> HIDE DEF i, row
    <3>4. /\ DOMAIN holidays' = DOMAIN holidays \cup {i}
          /\ DOMAIN holidays' \subseteq HolidayIds
          /\ holidays' \in [DOMAIN holidays' -> Holiday]
          /\ holidays'[i] = row
          /\ \A j \in DOMAIN holidays \ {i} : holidays'[j] = holidays[j]
      BY <1>1, <1>3, <3>1, RowAdded
    <3> QED
      BY <1>3, <2>2, <3>3, <3>4
  <2> QED
    BY <2>1, <2>2
<1>5. HolidayTypeOK'
  <2>1. CallOK(NoCall)
    BY NoCallOK DEF CallOK
  <2>2. /\ imported' \subseteq HolidayYears /\ crowded' \subseteq HolidayYears
        /\ holidayRequests' \in Nat /\ holidayFaults' \in Nat
    BY <1>1, <1>2 DEF HolidayTypeOK
  <2> QED
    BY <1>1, <1>2, <1>4, <2>1, <2>2, TypesAfter
<1>6. \A x \in HolidayCalls :
         \/ holidayCalls'[x] = holidayCalls[x]
         \/ ~ Importing(holidayCalls[x]) /\ ~ Importing(holidayCalls'[x])
  BY <1>1, <1>2, NoCallOK DEF HolidayTypeOK, Importing
<1>7. /\ \A j \in DOMAIN holidays' : holidays'[j].source # NoDate =>
            j \in DOMAIN holidays /\ holidays[j] = holidays'[j]
      /\ \A j \in DOMAIN holidays : holidays[j].source # NoDate =>
            \/ j \in DOMAIN holidays' /\ holidays'[j] = holidays[j]
            \/ holidays[j].source \in withdrawn'
  BY <1>4
<1> QED
  BY <1>2, <1>4, <1>5, <1>6, <1>7, PlainStep

-----------------------------------------------------------------------------
(* The steps of an import. *)

\* A row that was imported for a year is found by the look for its holidays.
LEMMA ImportedIsFound ==
    ASSUME HolidayInv, NEW i \in DOMAIN holidays, NEW y \in HolidayYears,
           NEW e \in Events, holidays[i].source = <<y, e>>
    PROVE  i \in HolidaysOf(y)
<1>1. holidays[i].source # NoDate
  BY NullsAreNoValues
<1>2. YearOf(holidays[i].start) = holidays[i].source[1]
  BY <1>1 DEF HolidayInv, ImportedAsFormatted
<1> QED
  BY <1>2 DEF HolidaysOf

LEMMA BeginImportStep ==
    ASSUME HolidayInv, NEW c \in HolidayCalls, NEW op \in {"read", "sync"},
           NEW y \in HolidayYears, BeginImport(c, op, y)
    PROVE  HolidayInv'
<1> DEFINE k == [NoCall EXCEPT !.op = op, !.year = y, !.todo = EventsOf(y)]
<1>1. HolidayTypeOK
  BY DEF HolidayInv
<1>2. /\ holidayCalls[c].op = "idle"
      /\ HolidaysOf(y) = {}
      /\ holidayCalls' = [holidayCalls EXCEPT ![c] = k]
      /\ imported' = imported \cup {y}
      /\ crowded' = IF ImportersOf(y) = {} THEN crowded
                    ELSE crowded \cup {y}
      /\ holidays' = holidays /\ withdrawn' = withdrawn
      /\ holidayRequests' = holidayRequests
      /\ holidayFaults' = holidayFaults
  BY DEF BeginImport
<1>3. /\ CallOK(k) /\ k.op = op /\ k.year = y /\ k.todo = EventsOf(y)
  <2>1. EventsOf(y) \in SUBSET Events
    BY DEF EventsOf
  <2> DEFINE a == [NoCall EXCEPT !.op = op, !.year = y]
  <2>2. a \in HolidayCall /\ a.op = op /\ a.year = y
    BY NoCallOK DEF HolidayCall
  <2>3. k = [a EXCEPT !.todo = EventsOf(y)]
    BY NoCallOK DEF HolidayCall
  <2> HIDE DEF a, k
  <2>4. /\ k \in HolidayCall /\ k.op = op /\ k.year = y
        /\ k.todo = EventsOf(y)
    BY <2>1, <2>2, <2>3 DEF HolidayCall
  <2> QED
    BY <2>4 DEF CallOK
<1> HIDE DEF k
<1>4. /\ holidayCalls'[c] = k
      /\ \A x \in HolidayCalls \ {c} : holidayCalls'[x] = holidayCalls[x]
  BY <1>1, <1>2 DEF HolidayTypeOK
<1>5. HolidayTypeOK'
  <2>1. /\ DOMAIN holidays' \subseteq HolidayIds
        /\ holidays' \in [DOMAIN holidays' -> Holiday]
        /\ imported' \subseteq HolidayYears
        /\ crowded' \subseteq HolidayYears
        /\ withdrawn' \subseteq Source
        /\ holidayRequests' \in Nat
        /\ holidayFaults' \in Nat
    BY <1>1, <1>2 DEF HolidayTypeOK
  <2> QED
    BY <1>1, <1>2, <1>3, <2>1, TypesAfter
<1>6. /\ \A z : z # y => ImportersOf(z)' = ImportersOf(z)
      /\ ImportersOf(y)' = ImportersOf(y) \cup {c}
      /\ \A z : c \notin ImportersOf(z)
  BY <1>2, <1>3, <1>4 DEF ImportersOf
<1>7. ImportAlone'
  <2> SUFFICES ASSUME NEW x \in HolidayCalls,
                      NEW z \in HolidayYears \ crowded',
                      x \in ImportersOf(z)'
      PROVE  /\ ImportersOf(z)' = {x}
             /\ \A i \in DOMAIN holidays, e \in holidayCalls'[x].todo :
                   holidays[i].source # <<z, e>>
    BY <1>2 DEF ImportAlone
  <2>1. CASE z # y
    <3>1. x \in ImportersOf(z) /\ z \notin crowded /\ x # c
      BY <1>2, <1>6, <2>1
    <3> QED
      BY <1>4, <1>6, <2>1, <3>1 DEF HolidayInv, ImportAlone
  <2>2. CASE z = y
    <3>1. ImportersOf(y) = {} /\ x = c
      BY <1>2, <1>6, <2>2
    <3>2. \A e \in k.todo : e \in Events
      BY <1>3 DEF EventsOf
    <3>3. \A i \in DOMAIN holidays, e \in k.todo :
             holidays[i].source # <<y, e>>
      BY <1>2, <3>2, ImportedIsFound
    <3> QED
      BY <1>4, <1>6, <2>2, <3>1, <3>3
  <2> QED
    BY <2>1, <2>2
<1>8. ImportedAsFormatted'
  BY <1>2 DEF HolidayInv, ImportedAsFormatted
<1>9. EventOnce'
  BY <1>2 DEF HolidayInv, EventOnce
<1>10. YearWhole'
  <2> SUFFICES ASSUME NEW z \in imported', NEW e \in EventsOf(z)
      PROVE  \/ \E i \in DOMAIN holidays : holidays[i].source = <<z, e>>
             \/ \E x \in ImportersOf(z)' : e \in holidayCalls'[x].todo
             \/ <<z, e>> \in withdrawn
    BY <1>2 DEF YearWhole
  <2>1. CASE z = y
    BY <1>3, <1>4, <1>6, <2>1
  <2>2. CASE z # y
    <3>1. z \in imported
      BY <1>2, <2>2
    <3>2. \/ \E i \in DOMAIN holidays : holidays[i].source = <<z, e>>
          \/ \E x \in ImportersOf(z) : e \in holidayCalls[x].todo
          \/ <<z, e>> \in withdrawn
      BY <3>1 DEF HolidayInv, YearWhole
    <3>3. \A x \in ImportersOf(z) : holidayCalls'[x] = holidayCalls[x]
      BY <1>4, <1>6 DEF ImportersOf
    <3>4. ImportersOf(z)' = ImportersOf(z)
      BY <1>6, <2>2
    <3> QED
      BY <3>2, <3>3, <3>4
  <2> QED
    BY <2>1, <2>2
<1> QED
  BY <1>5, <1>7, <1>8, <1>9, <1>10 DEF HolidayInv

LEMMA InsertStep ==
    ASSUME HolidayInv, NEW c \in HolidayCalls, NEW e \in Events,
           InsertImported(c, e)
    PROVE  HolidayInv'
<1> DEFINE me == holidayCalls[c]
           y == me.year
           n == NewHolidayId
           row == Formatted(y, e)
           k == Rest(c, {e})
<1>1. HolidayTypeOK /\ CallOK(me)
  BY CallsOK DEF HolidayInv
<1>2. /\ me.op \in {"read", "sync"} /\ e \in me.todo
      /\ holidays' = WithRow(n, row)
      /\ holidayCalls' = Without(c, {e})
      /\ imported' = imported /\ crowded' = crowded
      /\ withdrawn' = withdrawn
      /\ holidayRequests' = holidayRequests
      /\ holidayFaults' = holidayFaults
      /\ n \in HolidayIds /\ n \notin DOMAIN holidays
  BY NewIdOK DEF InsertImported
<1>3. y \in HolidayYears /\ e \in EventsOf(y)
  BY <1>1, <1>2 DEF CallOK
<1>4. row \in Holiday /\ row.source = <<y, e>> /\ YearOf(row.start) = y
  BY <1>3, FormattedOK
<1>5. /\ holidayCalls' = [holidayCalls EXCEPT ![c] = k]
      /\ CallOK(k)
      /\ \/ k = NoCall /\ me.todo \subseteq {e}
         \/ k.op = me.op /\ k.year = y /\ k.todo = me.todo \ {e}
  <2>1. \A E : E = {e} =>
          /\ Without(c, E) = [holidayCalls EXCEPT ![c] = Rest(c, E)]
          /\ CallOK(Rest(c, E))
          /\ \/ Rest(c, E) = NoCall /\ me.todo \subseteq E
             \/ /\ Rest(c, E).op = me.op
                /\ Rest(c, E).year = y
                /\ Rest(c, E).todo = me.todo \ E
    <3>1. HolidayTypeOK /\ holidayCalls[c].op \in {"read", "sync"}
      BY <1>1, <1>2
    <3> HIDE DEF me, y, k
    <3>2. \A E :
            /\ Without(c, E) = [holidayCalls EXCEPT ![c] = Rest(c, E)]
            /\ CallOK(Rest(c, E))
            /\ \/ Rest(c, E) = NoCall /\ holidayCalls[c].todo \subseteq E
               \/ /\ Rest(c, E).op = holidayCalls[c].op
                  /\ Rest(c, E).year = holidayCalls[c].year
                  /\ Rest(c, E).todo = holidayCalls[c].todo \ E
      BY <3>1, WithoutOK
    <3> QED
      BY <3>2 DEF me, y
  <2> QED
    BY <1>2, <2>1
<1> HIDE DEF n, row, k
<1>6. /\ DOMAIN holidays' = DOMAIN holidays \cup {n}
      /\ DOMAIN holidays' \subseteq HolidayIds
      /\ holidays' \in [DOMAIN holidays' -> Holiday]
      /\ holidays'[n] = row
      /\ \A j \in DOMAIN holidays : holidays'[j] = holidays[j]
  <2>1. /\ DOMAIN WithRow(n, row) = DOMAIN holidays \cup {n}
        /\ DOMAIN WithRow(n, row) \subseteq HolidayIds
        /\ WithRow(n, row) \in [DOMAIN WithRow(n, row) -> Holiday]
        /\ WithRow(n, row)[n] = row
        /\ \A j \in DOMAIN holidays \ {n} :
              WithRow(n, row)[j] = holidays[j]
    BY <1>1, <1>2, <1>4, RowAdded
  <2> QED
    BY <1>2, <2>1
<1>7. /\ holidayCalls'[c] = k
      /\ \A x \in HolidayCalls \ {c} : holidayCalls'[x] = holidayCalls[x]
  BY <1>1, <1>5 DEF HolidayTypeOK
<1>8. HolidayTypeOK'
  <2>1. /\ imported' \subseteq HolidayYears
        /\ crowded' \subseteq HolidayYears
        /\ withdrawn' \subseteq Source
        /\ holidayRequests' \in Nat
        /\ holidayFaults' \in Nat
    BY <1>1, <1>2 DEF HolidayTypeOK
  <2> QED
    BY <1>1, <1>5, <1>6, <2>1, TypesAfter
<1>9. \A z : \A x \in HolidayCalls : x \in ImportersOf(z)' =>
         /\ x \in ImportersOf(z)
         /\ holidayCalls'[x].todo \subseteq holidayCalls[x].todo
         /\ x = c => z = y /\ holidayCalls'[x].todo = me.todo \ {e}
  BY <1>2, <1>5, <1>7, NoCallOK DEF ImportersOf
<1>10. c \in ImportersOf(y)
  BY <1>2 DEF ImportersOf
<1>11. ImportAlone'
  <2> SUFFICES ASSUME NEW x \in HolidayCalls,
                      NEW z \in HolidayYears \ crowded,
                      x \in ImportersOf(z)'
      PROVE  /\ ImportersOf(z)' = {x}
             /\ \A i \in DOMAIN holidays', f \in holidayCalls'[x].todo :
                   holidays'[i].source # <<z, f>>
    BY <1>2 DEF ImportAlone
  <2>1. /\ ImportersOf(z) = {x}
        /\ \A i \in DOMAIN holidays, f \in holidayCalls[x].todo :
              holidays[i].source # <<z, f>>
    BY <1>9 DEF HolidayInv, ImportAlone
  <2>2. ImportersOf(z)' = {x}
    <3>1. \A v \in ImportersOf(z)' : v \in ImportersOf(z)
      BY <1>9 DEF ImportersOf
    <3> QED
      BY <2>1, <3>1
  <2>3. \A f \in holidayCalls'[x].todo : row.source # <<z, f>>
    <3>1. CASE x = c
      BY <1>4, <1>9, <3>1
    <3>2. CASE x # c
      <4>1. z # y
        BY <1>10, <2>1, <3>2
      <4> QED
        BY <1>4, <4>1
    <3> QED
      BY <3>1, <3>2
  <2> QED
    BY <1>6, <1>9, <2>1, <2>2, <2>3
<1>12. ImportedAsFormatted'
  <2>1. /\ row.source[2] \in EventsOf(row.source[1])
        /\ row = Formatted(row.source[1], row.source[2])
        /\ YearOf(row.start) = row.source[1]
    BY <1>3, <1>4 DEF row
  <2> QED
    BY <1>6, <2>1 DEF HolidayInv, ImportedAsFormatted
<1>13. EventOnce'
  <2>1. y \notin crowded =>
           \A i \in DOMAIN holidays : holidays[i].source # row.source
    BY <1>2, <1>3, <1>4, <1>10 DEF HolidayInv, ImportAlone
  <2>2. row.source[1] = y
    BY <1>4
  <2> SUFFICES ASSUME NEW i \in DOMAIN holidays', NEW j \in DOMAIN holidays',
                      holidays'[i].source = holidays'[j].source,
                      holidays'[i].source # NoDate,
                      holidays'[i].source[1] \notin crowded
               PROVE  i = j
    BY <1>2 DEF EventOnce
  <2>3. CASE i # n /\ j # n
    BY <1>6, <2>3 DEF HolidayInv, EventOnce
  <2>4. CASE i = n \/ j = n
    BY <1>6, <2>1, <2>2, <2>4
  <2> QED
    BY <2>3, <2>4
<1>14. YearWhole'
  <2> SUFFICES ASSUME NEW z \in imported, NEW f \in EventsOf(z)
      PROVE  \/ \E i \in DOMAIN holidays' : holidays'[i].source = <<z, f>>
             \/ \E x \in ImportersOf(z)' : f \in holidayCalls'[x].todo
             \/ <<z, f>> \in withdrawn
    BY <1>2 DEF YearWhole
  <2>1. \/ \E i \in DOMAIN holidays : holidays[i].source = <<z, f>>
        \/ \E x \in ImportersOf(z) : f \in holidayCalls[x].todo
        \/ <<z, f>> \in withdrawn
    BY DEF HolidayInv, YearWhole
  <2>2. CASE \E i \in DOMAIN holidays : holidays[i].source = <<z, f>>
    BY <1>6, <2>2
  <2>3. ASSUME NEW x \in ImportersOf(z), f \in holidayCalls[x].todo
        PROVE  \/ \E i \in DOMAIN holidays' : holidays'[i].source = <<z, f>>
               \/ \E v \in ImportersOf(z)' : f \in holidayCalls'[v].todo
    <3>1. CASE x # c
      BY <1>7, <2>3, <3>1 DEF ImportersOf
    <3>2. CASE x = c /\ f = e
      <4>1. z = y
        BY <3>2 DEF ImportersOf
      <4> QED
        BY <1>4, <1>6, <3>2, <4>1
    <3>3. CASE x = c /\ f # e
      <4>1. z = y /\ ~ (me.todo \subseteq {e})
        BY <2>3, <3>3 DEF ImportersOf
      <4>2. k.op = me.op /\ k.year = y /\ k.todo = me.todo \ {e}
        BY <1>5, <4>1
      <4>3. c \in ImportersOf(z)'
        BY <1>2, <1>7, <4>1, <4>2 DEF ImportersOf
      <4> QED
        BY <1>7, <2>3, <3>3, <4>2, <4>3
    <3> QED
      BY <3>1, <3>2, <3>3
  <2> QED
    BY <2>1, <2>2, <2>3
<1> QED
  BY <1>8, <1>11, <1>12, <1>13, <1>14 DEF HolidayInv

-----------------------------------------------------------------------------
(* The theorems. *)

LEMMA InitHolidays == HolidayInit => HolidayInv
<1> SUFFICES ASSUME HolidayInit PROVE HolidayInv
  OBVIOUS
<1>1. DOMAIN holidays = {}
  BY DEF HolidayInit
<1>2. \A c \in HolidayCalls : holidayCalls[c] = NoCall
  BY DEF HolidayInit
<1>3. HolidayTypeOK
  <2>1. holidays \in [DOMAIN holidays -> Holiday]
    BY <1>1 DEF HolidayInit
  <2>2. holidayCalls \in [HolidayCalls -> HolidayCall]
    BY NoCallOK DEF HolidayInit
  <2> QED
    BY <1>1, <1>2, <2>1, <2>2, NoCallOK DEF HolidayTypeOK, HolidayInit
<1>4. \A y : ImportersOf(y) = {}
  BY <1>2, NoCallOK DEF ImportersOf
<1> QED
  BY <1>1, <1>3, <1>4 DEF HolidayInv, ImportAlone, ImportedAsFormatted,
     EventOnce, YearWhole, HolidayInit

LEMMA InvStep ==
    ASSUME HolidayInv, [HolidayNext]_holidayVars
    PROVE  HolidayInv'
<1>1. CASE UNCHANGED holidayVars
  <2>1. /\ holidays' = holidays /\ holidayCalls' = holidayCalls
        /\ imported' = imported /\ crowded' = crowded
        /\ withdrawn' = withdrawn /\ holidayRequests' = holidayRequests
        /\ holidayFaults' = holidayFaults
    BY <1>1 DEF holidayVars
  <2>2. HolidayTypeOK'
    BY <2>1 DEF HolidayInv, HolidayTypeOK
  <2> QED
    BY <2>1, <2>2, PlainStep
<1>2. CASE HolidayNext
  BY <1>2, BeginImportStep, InsertStep, LoseStep, BeginUpdateStep,
     WriteStep, CreateStep, RemoveStep DEF HolidayNext
<1> QED
  BY <1>1, <1>2

\* The types, what an import may rely on, and the three properties of
\* imported holidays hold in every reachable state.
THEOREM HolidayInvariant == HolidaySpec => []HolidayInv
<1>1. HolidayInit => HolidayInv
  BY InitHolidays
<1>2. HolidayInv /\ [HolidayNext]_holidayVars => HolidayInv'
  BY InvStep
<1> QED
  BY <1>1, <1>2, PTL DEF HolidaySpec

\* Type correctness.
THEOREM HolidayTypesOK == HolidaySpec => []HolidayTypeOK
<1>1. HolidayInv => HolidayTypeOK
  BY DEF HolidayInv
<1> QED
  BY <1>1, HolidayInvariant, PTL

\* Imports one after the other do not double an event.
THEOREM EventsOnce == HolidaySpec => []EventOnce
<1>1. HolidayInv => EventOnce
  BY DEF HolidayInv
<1> QED
  BY <1>1, HolidayInvariant, PTL

\* A year an import has begun for is whole but for what was lost to faults or
\* withdrawn by clients.
THEOREM YearsWhole == HolidaySpec => []YearWhole
<1>1. HolidayInv => YearWhole
  BY DEF HolidayInv
<1> QED
  BY <1>1, HolidayInvariant, PTL

-----------------------------------------------------------------------------
(* The days of a holiday. *)

\* Both ways of counting the days of an imported holiday give the days from
\* its first date to its last.
LEMMA DaysOfFormatted ==
    ASSUME NEW y \in HolidayYears, NEW e \in EventsOf(y), NEW h,
           h = Formatted(y, e)
    PROVE  /\ DatesOf(y, e) \subseteq WebhookDays(h)
           /\ WebhookDays(h) = {(hour + Ecuador) \div 24 :
                 hour \in {x \in h.start .. h.end : isHoliday(h, x)}}
<1> DEFINE F == FirstOf(y, e)
           L == LastOf(y, e)
           hours == {x \in h.start .. h.end : isHoliday(h, x)}
<1>1. /\ DaysPerYear \in Nat \ {0} /\ y \in Int
      /\ \A f \in Feriados[y] :
            f[2] \in y * DaysPerYear .. (y + 1) * DaysPerYear - 1
      /\ \E d \in DatesOf(y, e) : \A x \in DatesOf(y, e) : d <= x
      /\ \E d \in DatesOf(y, e) : \A x \in DatesOf(y, e) : x <= d
  BY HolidayAssumption
<1>2. \A d \in DatesOf(y, e) : d \in Int
  BY <1>1 DEF DatesOf
<1>3. /\ F \in DatesOf(y, e) /\ \A x \in DatesOf(y, e) : F <= x
      /\ L \in DatesOf(y, e) /\ \A x \in DatesOf(y, e) : x <= L
  BY <1>1 DEF FirstOf, LastOf
<1>4. /\ F \in Int /\ L \in Int /\ F <= L
      /\ \A d \in DatesOf(y, e) : d \in F .. L
  BY <1>2, <1>3
<1>5. /\ h.start = 24 * F + 5 /\ h.end = 24 * L + 28
  BY <1>4 DEF Formatted, toUtcEcuadorStart, toUtcEcuadorEnd, Ecuador
<1> HIDE DEF F, L
<1>6. WebhookDays(h) = F .. L
  <2>1. (h.end - h.start) \div 24 = L - F
    BY <1>4, <1>5
  <2>2. \A k \in 0 .. L - F : (h.start + 24 * k + Ecuador) \div 24 = F + k
    BY <1>4, <1>5 DEF Ecuador
  <2>3. WebhookDays(h) = {F + k : k \in 0 .. L - F}
    BY <2>1, <2>2 DEF WebhookDays
  <2>4. ASSUME NEW d \in F .. L PROVE d \in {F + k : k \in 0 .. L - F}
    <3>1. d - F \in 0 .. L - F /\ d = F + (d - F)
      BY <1>4
    <3> QED
      BY <3>1
  <2>5. ASSUME NEW k \in 0 .. L - F PROVE F + k \in F .. L
    BY <1>4
  <2> QED
    BY <2>3, <2>4, <2>5
<1>7. {(hour + Ecuador) \div 24 : hour \in hours} = F .. L
  <2>1. \A x : x \in hours <=> x \in 24 * F + 5 .. 24 * L + 28
    BY <1>4, <1>5 DEF isHoliday
  <2>2. ASSUME NEW x \in hours PROVE (x + Ecuador) \div 24 \in F .. L
    BY <1>4, <2>1 DEF Ecuador
  <2>3. ASSUME NEW d \in F .. L
        PROVE  d \in {(hour + Ecuador) \div 24 : hour \in hours}
    <3>1. 24 * d + 5 \in 24 * F + 5 .. 24 * L + 28
      BY <1>4
    <3>2. 24 * d + 5 \in hours
      BY <2>1, <3>1
    <3>3. (24 * d + 5 + Ecuador) \div 24 = d
      BY <1>4 DEF Ecuador
    <3> HIDE DEF hours
    <3> QED
      BY <3>2, <3>3
  <2> HIDE DEF hours
  <2> QED
    BY <2>2, <2>3
<1> QED
  BY <1>4, <1>6, <1>7

\* The webhook lists the days of an imported holiday, whatever its dates.
THEOREM DaysAgree == HolidaySpec => []ListedDaysAreHolidays
<1>1. HolidayInv => ListedDaysAreHolidays
  <2> SUFFICES ASSUME HolidayInv, NEW i \in DOMAIN holidays,
                      holidays[i].source # NoDate
      PROVE  LET h == holidays[i] IN
             /\ DatesOf(h.source[1], h.source[2]) \subseteq WebhookDays(h)
             /\ WebhookDays(h) = {(hour + Ecuador) \div 24 :
                   hour \in {x \in h.start .. h.end : isHoliday(h, x)}}
    BY DEF ListedDaysAreHolidays
  <2>1. holidays[i].source \in Source
    BY DEF HolidayInv, HolidayTypeOK, Holiday
  <2>2. /\ holidays[i].source[1] \in HolidayYears
        /\ holidays[i].source[2] \in EventsOf(holidays[i].source[1])
        /\ holidays[i] = Formatted(holidays[i].source[1],
                                   holidays[i].source[2])
    BY <2>1 DEF HolidayInv, ImportedAsFormatted, Source
  <2> QED
    BY <2>2, DaysOfFormatted
<1> QED
  BY <1>1, HolidayInvariant, PTL

=============================================================================
