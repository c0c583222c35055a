----------------------- MODULE ShiftAssignmentsProofs ----------------------
(***************************************************************************)
(* Hours, trails and the calendar, for any number of shifts, users, types, *)
(* days and concurrent handlers.                                           *)
(*                                                                         *)
(* ShiftInv is inductive.  Its part about one shift is RowOK, a statement  *)
(* about a row, its hours and its trail, so that a transaction is judged   *)
(* by the rows it writes (lemmas NewShift and ChangedShift).  LocalStep    *)
(* covers the steps that change nothing but the locals of one handler.     *)
(***************************************************************************)
EXTENDS ShiftAssignments, TLAPS

-----------------------------------------------------------------------------
(* Hours. *)

\* None is no shift and no user.
LEMMA NoneIsNoValue ==
    /\ None \notin Ids
    /\ None \notin Users
    /\ None \notin ShiftTypes
    /\ None \notin Days
BY ShiftAssumption

\* What a handler stores as hours is a natural number.
LEMMA WorkedNat ==
    ASSUME NEW t \in ShiftTypes, NEW w \in Worked(t), w # Fraction
    PROVE  w \in Nat
<1>1. CASE Schedules[t] = {}
  BY <1>1 DEF Worked
<1>2. CASE Schedules[t] # {}
  <2>1. PICK time \in Schedules[t] : w \in Hours(time)
    BY <1>2 DEF Worked
  <2>2. time \in Times
    BY <2>1, ShiftAssumption
  <2>3. WorkedMinutes(time) \in Nat
    <3>1. /\ time.startTime \in Nat /\ time.startTime < 1440
          /\ time.endTime \in Nat
      BY <2>2 DEF Times
    <3> QED
      BY <3>1 DEF WorkedMinutes
  <2>4. w = WorkedMinutes(time) \div 60
    BY <2>1 DEF Hours
  <2> QED
    BY <2>3, <2>4
<1> QED
  BY <1>1, <1>2

-----------------------------------------------------------------------------
(* One shift. *)

\* What the invariant says of a shift, its hours and its trail.
RowOK(row, worked, trail) ==
    /\ row \in Row
    /\ worked \in Nat
    /\ worked \in Worked(row.type)
    /\ trail \in Seq(Event)
    /\ trail # <<>>
    /\ trail[Len(trail)].user = row.user
    /\ row.extra => \E l \in DOMAIN trail : \E k \in 1 .. l - 1 :
                       /\ trail[l].kind = "EXTRA-REASSIGN"
                       /\ trail[k].user = row.original

\* A new shift.
LEMMA NewShift ==
    ASSUME NEW place \in Placement,
           NEW w \in Worked(place.type), w # Fraction
    PROVE  RowOK(NewRow(place), w, <<[kind |-> "CREATE", user |-> place.user]>>)
<1> DEFINE e == [kind |-> "CREATE", user |-> place.user]
<1>1. place.type \in ShiftTypes /\ place.user \in Users /\ place.day \in Days
  BY DEF Placement
<1>2. w \in Nat
  BY <1>1, WorkedNat
<1>3. /\ NewRow(place) \in Row
      /\ NewRow(place).type = place.type
      /\ NewRow(place).user = place.user
      /\ NewRow(place).extra = FALSE
  BY <1>1 DEF NewRow, Row
<1>4. e \in Event /\ e.user = place.user
  BY <1>1 DEF Event, Kinds
<1> HIDE DEF e
<1>5. <<e>> \in Seq(Event) /\ <<e>> # <<>> /\ Len(<<e>>) = 1 /\ <<e>>[1] = e
  BY <1>4
<1>6. RowOK(NewRow(place), w, <<e>>)
  BY <1>2, <1>3, <1>4, <1>5 DEF RowOK
<1> QED
  BY <1>6 DEF e

\* A shift that changes hands, with one more event.
LEMMA ChangedShift ==
    ASSUME NEW old, NEW oldWorked, NEW trail, RowOK(old, oldWorked, trail),
           NEW row \in Row, NEW w \in Nat, w \in Worked(row.type),
           NEW e \in Event, e.user = row.user,
           row.extra =>
             \/ old.extra /\ row.original = old.original
             \/ /\ e.kind = "EXTRA-REASSIGN"
                /\ \E k \in DOMAIN trail : trail[k].user = row.original
    PROVE  /\ RowOK(row, w, Append(trail, e))
           /\ \A k \in DOMAIN trail : /\ k \in DOMAIN Append(trail, e)
                                      /\ Append(trail, e)[k] = trail[k]
<1> DEFINE longer == Append(trail, e)
           n == Len(trail)
<1>1. trail \in Seq(Event) /\ n \in Nat /\ DOMAIN trail = 1 .. n
  BY DEF RowOK
<1>2. /\ longer \in Seq(Event)
      /\ Len(longer) = n + 1
      /\ DOMAIN longer = 1 .. n + 1
      /\ longer[n + 1] = e
      /\ \A k \in 1 .. n : longer[k] = trail[k]
  BY <1>1
<1> HIDE DEF longer, n
<1>3. longer # <<>>
  BY <1>1, <1>2
<1>4. ASSUME row.extra
      PROVE  \E l \in DOMAIN longer : \E k \in 1 .. l - 1 :
                /\ longer[l].kind = "EXTRA-REASSIGN"
                /\ longer[k].user = row.original
  <2>1. CASE old.extra /\ row.original = old.original
    <3>1. PICK l \in DOMAIN trail : \E k \in 1 .. l - 1 :
                /\ trail[l].kind = "EXTRA-REASSIGN"
                /\ trail[k].user = old.original
      BY <2>1 DEF RowOK
    <3>2. PICK k \in 1 .. l - 1 : /\ trail[l].kind = "EXTRA-REASSIGN"
                                  /\ trail[k].user = old.original
      BY <3>1
    <3>3. l \in 1 .. n /\ k \in 1 .. n
      BY <1>1, <3>1, <3>2
    <3> QED
      BY <1>1, <1>2, <2>1, <3>2, <3>3
  <2>2. CASE /\ e.kind = "EXTRA-REASSIGN"
             /\ \E k \in DOMAIN trail : trail[k].user = row.original
    <3>1. PICK k \in DOMAIN trail : trail[k].user = row.original
      BY <2>2
    <3>2. k \in 1 .. (n + 1) - 1 /\ n + 1 \in DOMAIN longer
      BY <1>1, <1>2, <3>1
    <3> QED
      BY <1>1, <1>2, <2>2, <3>1, <3>2
  <2> QED
    BY <1>4, <2>1, <2>2
<1>5. RowOK(row, w, longer)
  BY <1>1, <1>2, <1>3, <1>4 DEF RowOK
<1> QED
  BY <1>1, <1>2, <1>5 DEF longer

-----------------------------------------------------------------------------
(* The tables. *)

\* What the invariant says of the tables.
TablesOK ==
    /\ DOMAIN shifts \subseteq Ids
    /\ shifts \in [DOMAIN shifts -> Row]
    /\ hours \in [DOMAIN shifts -> Nat]
    /\ events \in [Ids -> Seq(Event)]
    /\ \A i \in Ids : events[i] = <<>> <=> i \notin DOMAIN shifts
    /\ \A i \in DOMAIN shifts : RowOK(shifts[i], hours[i], events[i])

\* The invariant is what it says of the tables, the handlers and the calendar.
LEMMA Parts ==
    ShiftInv <=> /\ TablesOK
                 /\ calls \in [Calls -> Call]
                 /\ checked \subseteq DOMAIN shifts
                 /\ OneShiftPerDay
                 /\ \A c \in Calls : CallOK(calls[c])
<1>1. ASSUME ShiftInv PROVE TablesOK
  <2>1. SUFFICES ASSUME NEW i \in DOMAIN shifts
                 PROVE  RowOK(shifts[i], hours[i], events[i])
    BY <1>1 DEF ShiftInv, TypeOK, TablesOK
  <2>2. /\ i \in Ids /\ shifts[i] \in Row /\ hours[i] \in Nat
        /\ events[i] \in Seq(Event)
    BY <1>1 DEF ShiftInv, TypeOK
  <2> QED
    BY <1>1, <2>2 DEF ShiftInv, HoursFollowShift, LastEventNamesHolder,
                      OriginalInTrail, RowOK
<1>2. ASSUME TablesOK
      PROVE  HoursFollowShift /\ LastEventNamesHolder /\ OriginalInTrail
  BY <1>2 DEF TablesOK, RowOK, HoursFollowShift, LastEventNamesHolder,
              OriginalInTrail
<1>3. ShiftInv => /\ calls \in [Calls -> Call]
                  /\ checked \subseteq DOMAIN shifts
                  /\ OneShiftPerDay
                  /\ \A c \in Calls : CallOK(calls[c])
  BY DEF ShiftInv, TypeOK
<1>4. ASSUME TablesOK, calls \in [Calls -> Call], checked \subseteq DOMAIN shifts
      PROVE  TypeOK
  BY <1>4 DEF TablesOK, TypeOK
<1> QED
  BY <1>1, <1>2, <1>3, <1>4 DEF ShiftInv

\* Shifts stay, and trails only get longer.
Kept ==
    /\ DOMAIN shifts \subseteq DOMAIN shifts'
    /\ \A i \in DOMAIN shifts : \A k \in DOMAIN events[i] :
         k \in DOMAIN events'[i] /\ events'[i][k] = events[i][k]

\* New shifts.
LEMMA Inserted ==
    ASSUME TablesOK, NEW n \in Nat, NEW new \in FreshIds(n),
           NEW placed \in [1 .. n -> Placement], NEW worked,
           \A k \in 1 .. n : /\ worked[placed[k].type] \in Worked(placed[k].type)
                             /\ worked[placed[k].type] # Fraction,
           Insert(new, placed, worked)
    PROVE  /\ TablesOK'
           /\ Kept
           /\ \A i \in DOMAIN shifts : shifts'[i] = shifts[i]
           /\ \A k \in 1 .. n : /\ new[k] \in DOMAIN shifts' \ DOMAIN shifts
                                /\ shifts'[new[k]] = NewRow(placed[k])
<1> DEFINE ids == {new[k] : k \in DOMAIN new}
           at(i) == placed[CHOOSE k \in DOMAIN new : new[k] = i]
<1>1. /\ DOMAIN new = 1 .. n
      /\ \A k \in 1 .. n : new[k] \in Ids \ DOMAIN shifts
      /\ \A j, k \in 1 .. n : new[j] = new[k] => j = k
  BY DEF FreshIds
<1>2. ids \subseteq Ids /\ ids \cap DOMAIN shifts = {}
  BY <1>1
<1>3. \A k \in 1 .. n : new[k] \in ids /\ at(new[k]) = placed[k]
  BY <1>1
<1>4. \A i \in ids : \E k \in 1 .. n : i = new[k] /\ at(i) = placed[k]
  BY <1>1, <1>3
<1>5. /\ shifts' = [i \in DOMAIN shifts \cup ids |->
                      IF i \in ids THEN NewRow(at(i)) ELSE shifts[i]]
      /\ hours' = [i \in DOMAIN hours \cup ids |->
                     IF i \in ids THEN worked[at(i).type] ELSE hours[i]]
      /\ events' = [i \in Ids |->
                      IF i \in ids
                      THEN <<[kind |-> "CREATE", user |-> at(i).user]>>
                      ELSE events[i]]
  BY DEF Insert
<1> HIDE DEF ids, at
<1>6. DOMAIN hours = DOMAIN shifts
  BY DEF TablesOK
<1>7. \A i \in DOMAIN shifts : /\ i \in DOMAIN shifts' /\ i \in Ids
                               /\ shifts'[i] = shifts[i]
                               /\ hours'[i] = hours[i]
                               /\ events'[i] = events[i]
  BY <1>2, <1>5, <1>6 DEF TablesOK
<1>8. \A i \in ids : RowOK(shifts'[i], hours'[i], events'[i])
  <2> SUFFICES ASSUME NEW i \in ids PROVE RowOK(shifts'[i], hours'[i], events'[i])
    OBVIOUS
  <2>1. PICK k \in 1 .. n : i = new[k] /\ at(i) = placed[k]
    BY <1>4
  <2>2. /\ shifts'[i] = NewRow(placed[k])
        /\ hours'[i] = worked[placed[k].type]
        /\ events'[i] = <<[kind |-> "CREATE", user |-> placed[k].user]>>
    BY <1>2, <1>5, <2>1
  <2>3. placed[k] \in Placement
    OBVIOUS
  <2>4. RowOK(NewRow(placed[k]), worked[placed[k].type],
              <<[kind |-> "CREATE", user |-> placed[k].user]>>)
    BY <2>3, NewShift
  <2> QED
    BY <2>2, <2>4
<1>9. \A i \in DOMAIN shifts' : RowOK(shifts'[i], hours'[i], events'[i])
  BY <1>5, <1>7, <1>8 DEF TablesOK
<1>10. /\ DOMAIN shifts' = DOMAIN shifts \cup ids
       /\ DOMAIN hours' = DOMAIN shifts \cup ids
       /\ DOMAIN events' = Ids
  BY <1>5, <1>6
<1>11. \A i \in Ids : i \notin ids => events'[i] = events[i]
  BY <1>5
<1>12. \A i \in Ids : events'[i] \in Seq(Event)
                      /\ (events'[i] = <<>> <=> i \notin DOMAIN shifts')
  BY <1>2, <1>9, <1>10, <1>11 DEF TablesOK, RowOK
<1>13. TablesOK'
  <2>1. DOMAIN shifts' \subseteq Ids
    BY <1>2, <1>10 DEF TablesOK
  <2>2. shifts' \in [DOMAIN shifts' -> Row] /\ hours' \in [DOMAIN shifts' -> Nat]
    <3>1. \A i \in DOMAIN shifts' : shifts'[i] \in Row /\ hours'[i] \in Nat
      BY <1>9 DEF RowOK
    <3>2. /\ shifts' = [i \in DOMAIN shifts' |-> shifts'[i]]
          /\ hours' = [i \in DOMAIN shifts' |-> hours'[i]]
      BY <1>5, <1>6
    <3> QED
      BY <3>1, <3>2
  <2>3. events' \in [Ids -> Seq(Event)]
    BY <1>5, <1>12
  <2> QED
    BY <2>1, <2>2, <2>3, <1>9, <1>12 DEF TablesOK
<1> QED
  BY <1>2, <1>3, <1>5, <1>7, <1>13, <1>10, <1>1 DEF Kept

\* One shift changed.
LEMMA Changed ==
    ASSUME TablesOK, NEW i \in DOMAIN shifts, NEW row, NEW w, NEW e,
           RowOK(row, w, Append(events[i], e)),
           \A k \in DOMAIN events[i] : /\ k \in DOMAIN Append(events[i], e)
                                       /\ Append(events[i], e)[k] = events[i][k],
           shifts' = [shifts EXCEPT ![i] = row],
           hours' = [hours EXCEPT ![i] = w],
           events' = [events EXCEPT ![i] = Append(@, e)]
    PROVE  /\ TablesOK'
           /\ Kept
           /\ DOMAIN shifts' = DOMAIN shifts
           /\ shifts'[i] = row
           /\ \A j \in DOMAIN shifts : j # i => shifts'[j] = shifts[j]
<1>1. /\ DOMAIN shifts \subseteq Ids /\ i \in Ids
      /\ shifts \in [DOMAIN shifts -> Row]
      /\ hours \in [DOMAIN shifts -> Nat]
      /\ events \in [Ids -> Seq(Event)]
  BY DEF TablesOK
<1>2. row \in Row /\ w \in Nat /\ Append(events[i], e) \in Seq(Event)
      /\ Append(events[i], e) # <<>>
  BY DEF RowOK
<1>3. /\ DOMAIN shifts' = DOMAIN shifts
      /\ shifts'[i] = row /\ hours'[i] = w /\ events'[i] = Append(events[i], e)
      /\ \A j \in DOMAIN shifts : j # i => shifts'[j] = shifts[j] /\ hours'[j] = hours[j]
      /\ \A j \in Ids : j # i => events'[j] = events[j]
  BY <1>1
<1>4. /\ shifts' \in [DOMAIN shifts' -> Row]
      /\ hours' \in [DOMAIN shifts' -> Nat]
      /\ events' \in [Ids -> Seq(Event)]
  BY <1>1, <1>2, <1>3
<1>5. \A j \in DOMAIN shifts : RowOK(shifts'[j], hours'[j], events'[j])
  BY <1>1, <1>3 DEF TablesOK
<1>6. \A j \in Ids : events'[j] = <<>> <=> j \notin DOMAIN shifts'
  BY <1>1, <1>2, <1>3 DEF TablesOK
<1>7. TablesOK'
  BY <1>1, <1>3, <1>4, <1>5, <1>6 DEF TablesOK
<1>8. Kept
  BY <1>1, <1>3 DEF Kept
<1> QED
  BY <1>3, <1>7, <1>8

-----------------------------------------------------------------------------
(* The handlers in flight. *)

\* A handler that does nothing may rely on everything.
LEMMA IdleOK ==
    Idle \in Call /\ CallOK(Idle)
BY DEF Idle, Call, Ops, Points, CallOK

\* A step that changes nothing but the locals of one handler.
LEMMA LocalStep ==
    ASSUME ShiftInv, NEW c \in Calls, NEW x \in Call, CallOK(x),
           calls' = [calls EXCEPT ![c] = x],
           UNCHANGED <<tables, checked>>
    PROVE  ShiftInv'
<1>1. calls \in [Calls -> Call]
  BY Parts
<1>2. calls' \in [Calls -> Call]
  BY <1>1
<1>3. ASSUME NEW d \in Calls PROVE CallOK(calls[d])'
  <2>1. PICK y : y = calls'[d]
    OBVIOUS
  <2>2. CallOK(y)
    BY <1>1, <2>1 DEF ShiftInv
  <2>3. CallOK(y)'
    BY <2>2 DEF CallOK, DayFree, tables
  <2> QED
    BY <2>1, <2>3 DEF CallOK, DayFree
<1> QED
  BY <1>2, <1>3 DEF ShiftInv, TypeOK, HoursFollowShift, LastEventNamesHolder,
                    OriginalInTrail, OneShiftPerDay, tables

\* After a commit the other handlers may rely on less.
LEMMA Committed ==
    ASSUME ShiftInv, NEW c \in Calls, Commit(c), Kept
    PROVE  /\ calls' \in [Calls -> Call]
           /\ \A d \in Calls : CallOK(calls[d])'
<1>1. calls \in [Calls -> Call]
  BY Parts
<1>2. ASSUME NEW d \in Calls PROVE calls'[d] \in Call /\ CallOK(calls[d])'
  <2>1. CASE d = c
    <3>1. calls'[d] = Idle
      BY <2>1 DEF Commit
    <3> QED
      BY <3>1, IdleOK DEF CallOK, Idle
  <2>2. CASE d # c
    <3> DEFINE old == calls[d]
               new == [old EXCEPT !.fresh =
                         @ /\ old.op \notin {"single", "update"}]
    <3>1. old \in Call /\ CallOK(old)
      BY <1>1 DEF ShiftInv
    <3>2. calls'[d] = new
      BY <2>2 DEF Commit
    <3>3. /\ new \in Call
          /\ new.op = old.op /\ new.pc = old.pc /\ new.id = old.id
          /\ new.row = old.row /\ new.looked = old.looked
          /\ new.fresh => old.op \notin {"single", "update"}
      BY <3>1 DEF Call
    <3>4. PICK x, y : x = old /\ y = new
      OBVIOUS
    <3>5. /\ CallOK(x)
          /\ y.op = x.op /\ y.pc = x.pc /\ y.id = x.id
          /\ y.row = x.row /\ y.looked = x.looked
          /\ y.fresh => x.op \notin {"single", "update"}
      BY <3>1, <3>3, <3>4
    <3>6. CallOK(y)'
      BY <3>5 DEF CallOK, Kept
    <3>7. calls'[d] = y
      BY <3>2, <3>4
    <3> QED
      BY <3>2, <3>3, <3>6, <3>7 DEF CallOK, DayFree
  <2> QED
    BY <2>1, <2>2
<1>3. calls' \in [Calls -> Call]
  <2>1. calls' = [d \in Calls |-> calls'[d]]
    BY DEF Commit
  <2> QED
    BY <1>2, <2>1
<1> QED
  BY <1>2, <1>3

\* A commit keeps the invariant if the tables and the calendar are right.
LEMMA CommitStep ==
    ASSUME ShiftInv, NEW c \in Calls, Commit(c), Kept, TablesOK',
           checked' \subseteq DOMAIN shifts', OneShiftPerDay'
    PROVE  ShiftInv'
<1>1. TypeOK'
  BY Committed DEF TablesOK, TypeOK
<1>2. HoursFollowShift' /\ LastEventNamesHolder' /\ OriginalInTrail'
  BY DEF TablesOK, RowOK, HoursFollowShift, LastEventNamesHolder,
         OriginalInTrail
<1> QED
  BY <1>1, <1>2, Committed DEF ShiftInv

-----------------------------------------------------------------------------
(* The transactions. *)

\* A batch of shifts keeps the invariant.
LEMMA AssignBatchStep ==
    ASSUME ShiftInv, NEW c \in Calls, AssignBatch(c)
    PROVE  ShiftInv'
<1>0. PICK n \in 1 .. MaxBatch : \E placed \in [1 .. n -> Placement] :
         \E map \in HoursMaps : \E new \in FreshIds(n) :
           /\ \A k \in 1 .. n : map[placed[k].type] # Fraction
           /\ Insert(new, placed, map)
  BY DEF AssignBatch
<1>1. PICK placed \in [1 .. n -> Placement], map \in HoursMaps,
           new \in FreshIds(n) :
             /\ \A k \in 1 .. n : map[placed[k].type] # Fraction
             /\ Insert(new, placed, map)
  BY <1>0
<1>2. Commit(c) /\ checked' = checked
  BY DEF AssignBatch
<1>3. n \in Nat
  BY ShiftAssumption
<1>4. \A k \in 1 .. n : map[placed[k].type] \in Worked(placed[k].type)
  <2>1. \A k \in 1 .. n : placed[k].type \in ShiftTypes
    BY DEF Placement
  <2> QED
    BY <2>1 DEF HoursMaps
<1>5. /\ TablesOK'
      /\ Kept
      /\ \A i \in DOMAIN shifts : shifts'[i] = shifts[i]
  BY <1>1, <1>3, <1>4, Parts, Inserted
<1>6. checked' \subseteq DOMAIN shifts' /\ OneShiftPerDay'
  BY <1>2, <1>5, Parts DEF Kept, OneShiftPerDay
<1> QED
  BY <1>2, <1>5, <1>6, CommitStep

\* The insertion of one shift keeps the invariant: if the day found free is
\* still free, the new shift is the only one there.
LEMMA InsertSingleStep ==
    ASSUME ShiftInv, NEW c \in Calls, InsertSingle(c)
    PROVE  ShiftInv'
<1> DEFINE row == calls[c].row
           place == [user |-> row.user, type |-> row.type, day |-> row.day]
<1>1. /\ row \in Row
      /\ calls[c].fresh => DayFree(row.user, row.day, None)
  BY DEF InsertSingle, ShiftInv, CallOK
<1>2. /\ place \in Placement
      /\ place.user = row.user /\ place.type = row.type /\ place.day = row.day
      /\ row.type \in ShiftTypes
  BY <1>1 DEF Row, Placement
<1>3. PICK w \in Worked(row.type) :
        IF w = Fraction
        THEN Fail(c)
        ELSE /\ \E new \in FreshIds(1) :
                  /\ Insert(new, <<place>>, [t \in {row.type} |-> w])
                  /\ checked' = IF calls[c].fresh
                                THEN checked \cup {new[1]} ELSE checked
             /\ Commit(c)
  BY DEF InsertSingle
<1> HIDE DEF place, row
<1>4. CASE w = Fraction
  BY <1>3, <1>4, IdleOK, LocalStep DEF Fail
<1>5. CASE w # Fraction
  <2>1. PICK new \in FreshIds(1) :
          /\ Insert(new, <<place>>, [t \in {row.type} |-> w])
          /\ checked' = IF calls[c].fresh
                        THEN checked \cup {new[1]} ELSE checked
    BY <1>3, <1>5
  <2>2. Commit(c)
    BY <1>3, <1>5
  <2> DEFINE placed == <<place>>
             worked == [t \in {row.type} |-> w]
  <2>3. /\ placed \in [1 .. 1 -> Placement]
        /\ placed[1] = place
        /\ worked[row.type] = w
    BY <1>2
  <2> HIDE DEF placed, worked
  <2>4. \A k \in 1 .. 1 : /\ worked[placed[k].type] \in Worked(placed[k].type)
                          /\ worked[placed[k].type] # Fraction
    BY <1>2, <1>3, <1>5, <2>3
  <2>5. Insert(new, placed, worked)
    BY <2>1 DEF placed, worked
  <2>6. /\ TablesOK'
        /\ Kept
        /\ \A i \in DOMAIN shifts : shifts'[i] = shifts[i]
        /\ new[1] \in DOMAIN shifts' \ DOMAIN shifts
        /\ shifts'[new[1]] = NewRow(place)
    <3>1. TablesOK /\ 1 \in Nat /\ 1 \in 1 .. 1
      BY Parts
    <3>2. /\ TablesOK'
          /\ Kept
          /\ \A i \in DOMAIN shifts : shifts'[i] = shifts[i]
          /\ \A k \in 1 .. 1 : /\ new[k] \in DOMAIN shifts' \ DOMAIN shifts
                               /\ shifts'[new[k]] = NewRow(placed[k])
      BY <2>3, <2>4, <2>5, <3>1, Inserted
    <3> QED
      BY <2>3, <3>1, <3>2
  <2>7. checked' \subseteq DOMAIN shifts'
    BY <2>1, <2>6, Parts DEF Kept
  <2>8. OneShiftPerDay'
    <3>1. CASE ~calls[c].fresh
      BY <2>1, <2>6, <3>1, Parts DEF OneShiftPerDay
    <3>2. CASE calls[c].fresh
      <4>1. \A i \in DOMAIN shifts :
              ~(shifts[i].user = row.user /\ shifts[i].day = row.day)
        BY <1>1, <3>2, NoneIsNoValue, Parts DEF DayFree, TablesOK
      <4>2. /\ shifts'[new[1]].user = row.user
            /\ shifts'[new[1]].day = row.day
        BY <1>2, <2>6 DEF NewRow
      <4>3. checked \subseteq DOMAIN shifts
        BY Parts
      <4>4. checked' = checked \cup {new[1]}
        BY <2>1, <3>2
      <4>5. \A i \in checked : shifts'[i] = shifts[i]
        BY <2>6, <4>3
      <4>6. OneShiftPerDay
        BY Parts
      <4>7. \A i, j \in checked' :
              shifts'[i].user = shifts'[j].user /\ shifts'[i].day = shifts'[j].day
                => i = j
        BY <4>1, <4>2, <4>3, <4>4, <4>5, <4>6 DEF OneShiftPerDay
      <4> QED
        BY <4>7 DEF OneShiftPerDay
    <3> QED
      BY <3>1, <3>2
  <2> QED
    BY <2>2, <2>6, <2>7, <2>8, CommitStep
<1> QED
  BY <1>4, <1>5

\* An update keeps the invariant: its hours go with the type it writes, and
\* its shift counts as looked after only if nobody has committed since.
LEMMA WriteShiftStep ==
    ASSUME ShiftInv, NEW c \in Calls, WriteShift(c)
    PROVE  ShiftInv'
<1> DEFINE i == calls[c].id
           row == calls[c].row
           old == shifts[i]
           new == [old EXCEPT !.user = row.user, !.type = row.type,
                              !.day = row.day]
           e == [kind |-> "UPDATE", user |-> row.user]
<1>1. /\ i \in DOMAIN shifts
      /\ row \in Row
      /\ calls[c].fresh =>
           IF calls[c].looked
           THEN DayFree(row.user, row.day, i)
           ELSE row.user = old.user /\ row.day = old.day
  BY DEF WriteShift, ShiftInv, CallOK
<1>2. TablesOK /\ RowOK(old, hours[i], events[i]) /\ old \in Row
  BY <1>1, Parts DEF TablesOK, RowOK
<1>3. /\ new \in Row
      /\ new.user = row.user /\ new.type = row.type /\ new.day = row.day
      /\ new.extra = old.extra /\ new.original = old.original
      /\ row.type \in ShiftTypes
  BY <1>1, <1>2 DEF Row
<1>4. e \in Event /\ e.user = row.user
  BY <1>1 DEF Event, Kinds, Row
<1>5. PICK w \in Worked(row.type) :
        IF w = Fraction
        THEN Fail(c)
        ELSE /\ shifts' = [shifts EXCEPT ![i] =
                  [@ EXCEPT !.user = row.user, !.type = row.type,
                            !.day = row.day]]
             /\ hours' = [hours EXCEPT ![i] = w]
             /\ Record(i, "UPDATE", row.user)
             /\ checked' = IF ~calls[c].fresh THEN checked \ {i}
                           ELSE IF calls[c].looked THEN checked \cup {i}
                           ELSE checked
             /\ Commit(c)
  BY DEF WriteShift
<1>6. CASE w = Fraction
  <2> HIDE DEF row, i
  <2> QED
    BY <1>5, <1>6, IdleOK, LocalStep DEF Fail
<1>7. CASE w # Fraction
  <2>1. /\ shifts' = [shifts EXCEPT ![i] = new]
        /\ hours' = [hours EXCEPT ![i] = w]
        /\ events' = [events EXCEPT ![i] = Append(@, e)]
        /\ checked' = IF ~calls[c].fresh THEN checked \ {i}
                      ELSE IF calls[c].looked THEN checked \cup {i}
                      ELSE checked
        /\ Commit(c)
    BY <1>1, <1>5, <1>7 DEF Record
  <2> HIDE DEF i, row, old, new, e
  <2>2. w \in Nat
    BY <1>3, <1>7, WorkedNat
  <2>3. /\ RowOK(new, w, Append(events[i], e))
        /\ \A k \in DOMAIN events[i] : /\ k \in DOMAIN Append(events[i], e)
                                       /\ Append(events[i], e)[k] = events[i][k]
    BY <1>2, <1>3, <1>4, <2>2, ChangedShift
  <2>4. /\ TablesOK'
        /\ Kept
        /\ DOMAIN shifts' = DOMAIN shifts
        /\ shifts'[i] = new
        /\ \A j \in DOMAIN shifts : j # i => shifts'[j] = shifts[j]
    BY <1>1, <1>2, <2>1, <2>3, Changed
  <2>5. checked \subseteq DOMAIN shifts /\ OneShiftPerDay
    BY Parts
  <2>6. checked' \subseteq DOMAIN shifts'
    BY <1>1, <2>1, <2>4, <2>5
  <2>7. OneShiftPerDay'
    <3>1. CASE ~calls[c].fresh
      BY <2>1, <2>4, <2>5, <3>1 DEF OneShiftPerDay
    <3>2. CASE calls[c].fresh /\ calls[c].looked
      <4>1. \A j \in DOMAIN shifts \ {i} :
              ~(shifts'[j].user = row.user /\ shifts'[j].day = row.day)
        BY <1>1, <2>4, <3>2 DEF DayFree
      <4>2. /\ checked' = checked \cup {i}
            /\ shifts'[i].user = row.user /\ shifts'[i].day = row.day
        BY <1>3, <2>1, <2>4, <3>2
      <4>3. \A j \in checked \ {i} : /\ j \in DOMAIN shifts \ {i}
                                     /\ shifts'[j] = shifts[j]
        BY <2>4, <2>5
      <4>4. \A j, k \in checked \ {i} :
              shifts[j].user = shifts[k].user /\ shifts[j].day = shifts[k].day
                => j = k
        BY <2>5 DEF OneShiftPerDay
      <4>5. ASSUME NEW j \in checked \cup {i}, NEW k \in checked \cup {i},
                   shifts'[j].user = shifts'[k].user,
                   shifts'[j].day = shifts'[k].day
            PROVE  j = k
        <5>1. CASE j # i /\ k # i
          BY <4>3, <4>4, <4>5, <5>1
        <5>2. CASE j = i /\ k # i
          BY <4>1, <4>2, <4>3, <4>5, <5>2
        <5>3. CASE j # i /\ k = i
          BY <4>1, <4>2, <4>3, <4>5, <5>3
        <5> QED
          BY <5>1, <5>2, <5>3
      <4> QED
        BY <4>2, <4>5 DEF OneShiftPerDay
    <3>3. CASE calls[c].fresh /\ ~calls[c].looked
      <4>1. /\ new.user = old.user /\ new.day = old.day
            /\ checked' = checked
        BY <1>1, <1>3, <2>1, <3>3
      <4>2. \A j \in checked : /\ shifts'[j].user = shifts[j].user
                               /\ shifts'[j].day = shifts[j].day
        BY <2>4, <2>5, <4>1 DEF old
      <4> QED
        BY <2>5, <4>1, <4>2 DEF OneShiftPerDay
    <3> QED
      BY <3>1, <3>2, <3>3
  <2> QED
    BY <2>1, <2>4, <2>6, <2>7, CommitStep
<1> QED
  BY <1>6, <1>7

\* A reassignment keeps the invariant: the user it writes down as the original
\* one is in the trail, and its shift no longer counts as looked after.
LEMMA ReassignStep ==
    ASSUME ShiftInv, NEW c \in Calls, Reassign(c)
    PROVE  ShiftInv'
<1> DEFINE i == calls[c].id
           row == calls[c].row
           old == shifts[i]
           new == [old EXCEPT !.user = row.user, !.extra = row.extra,
                              !.original = row.original]
           e == [kind |-> "EXTRA-REASSIGN", user |-> row.user]
<1>1. /\ i \in DOMAIN shifts
      /\ row \in Row
      /\ \E k \in DOMAIN events[i] : events[i][k].user = row.original
  BY DEF Reassign, ShiftInv, CallOK
<1>2. TablesOK /\ RowOK(old, hours[i], events[i]) /\ old \in Row
  BY <1>1, Parts DEF TablesOK, RowOK
<1>3. /\ new \in Row
      /\ new.user = row.user /\ new.type = old.type
      /\ new.original = row.original
  BY <1>1, <1>2 DEF Row
<1>4. e \in Event /\ e.user = row.user /\ e.kind = "EXTRA-REASSIGN"
  BY <1>1 DEF Event, Kinds, Row
<1>5. /\ shifts' = [shifts EXCEPT ![i] = new]
      /\ hours' = [hours EXCEPT ![i] = hours[i]]
      /\ events' = [events EXCEPT ![i] = Append(@, e)]
      /\ checked' = checked \ {i}
      /\ Commit(c)
  <2>1. hours = [hours EXCEPT ![i] = hours[i]]
    BY <1>2 DEF TablesOK
  <2> QED
    BY <1>1, <2>1 DEF Reassign, Record
<1> HIDE DEF i, row, old, new, e
<1>6. hours[i] \in Nat /\ hours[i] \in Worked(new.type)
  BY <1>2, <1>3 DEF RowOK
<1>7. /\ RowOK(new, hours[i], Append(events[i], e))
      /\ \A k \in DOMAIN events[i] : /\ k \in DOMAIN Append(events[i], e)
                                     /\ Append(events[i], e)[k] = events[i][k]
  BY <1>1, <1>2, <1>3, <1>4, <1>6, ChangedShift
<1>8. /\ TablesOK'
      /\ Kept
      /\ DOMAIN shifts' = DOMAIN shifts
      /\ \A j \in DOMAIN shifts : j # i => shifts'[j] = shifts[j]
  BY <1>1, <1>2, <1>5, <1>7, Changed
<1>9. checked \subseteq DOMAIN shifts /\ OneShiftPerDay
  BY Parts
<1>10. checked' \subseteq DOMAIN shifts' /\ OneShiftPerDay'
  BY <1>5, <1>8, <1>9 DEF OneShiftPerDay
<1> QED
  BY <1>5, <1>8, <1>10, CommitStep

-----------------------------------------------------------------------------
(* The reads. *)

\* The reads of the handlers keep the invariant: what a handler has read is
\* what it may rely on until somebody commits.
LEMMA ReadStep ==
    ASSUME ShiftInv, NEW c \in Calls,
           \/ BeginSingle(c) \/ BeginUpdate(c) \/ CheckDay(c)
           \/ BeginReassign(c) \/ BeginDelete(c)
    PROVE  ShiftInv'
<1>0. calls[c] \in Call /\ CallOK(calls[c])
  BY Parts DEF ShiftInv
<1>1. CASE BeginSingle(c)
  <2>1. PICK place \in Placement :
          /\ DayFree(place.user, place.day, None)
          /\ Begin(c, [Idle EXCEPT !.op = "single", !.pc = "insert",
                                   !.row = NewRow(place)])
    BY <1>1 DEF BeginSingle
  <2> DEFINE x == [Idle EXCEPT !.op = "single", !.pc = "insert",
                               !.row = NewRow(place)]
  <2>2. /\ NewRow(place) \in Row
        /\ NewRow(place).user = place.user /\ NewRow(place).day = place.day
    BY DEF NewRow, Row, Placement
  <2>3. x \in Call /\ CallOK(x)
    BY <2>1, <2>2 DEF Idle, Call, Ops, Points, CallOK
  <2> QED
    BY <2>1, <2>3, LocalStep DEF Begin
<1>2. CASE BeginUpdate(c)
  <2>1. PICK i \in DOMAIN shifts, user \in Users \cup {None},
             type \in ShiftTypes \cup {None}, day \in Days \cup {None} :
          LET looks == user # None \/ day # None
          IN  Begin(c,
                [Idle EXCEPT !.op = "update", !.id = i, !.looked = looks,
                   !.pc = IF looks THEN "check" ELSE "write",
                   !.row = [shifts[i] EXCEPT !.user = Or(user, @),
                              !.type = Or(type, @), !.day = Or(day, @)]])
    BY <1>2 DEF BeginUpdate
  <2> DEFINE looks == user # None \/ day # None
             row == [shifts[i] EXCEPT !.user = Or(user, @),
                       !.type = Or(type, @), !.day = Or(day, @)]
             x == [Idle EXCEPT !.op = "update", !.id = i, !.looked = looks,
                     !.pc = IF looks THEN "check" ELSE "write",
                     !.row = row]
  <2>2. shifts[i] \in Row /\ i \in Ids
    BY Parts DEF TablesOK
  <2>3. /\ row \in Row
        /\ ~looks => row.user = shifts[i].user /\ row.day = shifts[i].day
    BY <2>2 DEF Row, Or
  <2>4. Begin(c, x)
    BY <2>1
  <2> HIDE DEF row
  <2>5. looks \in BOOLEAN
    OBVIOUS
  <2> HIDE DEF looks
  <2>6. x \in Call
    BY <2>2, <2>3, <2>5 DEF Idle, Call, Ops, Points
  <2>7. CallOK(x)
    BY <2>2, <2>3, <2>5 DEF Idle, CallOK
  <2> QED
    BY <2>4, <2>6, <2>7, LocalStep DEF Begin
<1>3. CASE CheckDay(c)
  <2>1. CASE DayFree(calls[c].row.user, calls[c].row.day, calls[c].id)
    <3> DEFINE call == calls[c]
               x == [call EXCEPT !.pc = "write", !.fresh = TRUE]
    <3>1. /\ calls' = [calls EXCEPT ![c] = x]
          /\ UNCHANGED <<tables, checked>>
          /\ call.pc = "check"
      BY <1>3, <2>1 DEF CheckDay
    <3>2. x \in Call
      BY <1>0 DEF Call, Points
    <3>3. CallOK(x)
      BY <1>0, <2>1, <3>1 DEF CallOK, Call
    <3> QED
      BY <3>1, <3>2, <3>3, LocalStep
  <2>2. CASE ~DayFree(calls[c].row.user, calls[c].row.day, calls[c].id)
    BY <1>3, <2>2, IdleOK, LocalStep DEF CheckDay, Fail
  <2> QED
    BY <2>1, <2>2
<1>4. CASE BeginReassign(c)
  <2>1. PICK i \in DOMAIN shifts, user \in Users :
          Begin(c,
            [Idle EXCEPT !.op = "reassign", !.pc = "write", !.id = i,
               !.row = [shifts[i] EXCEPT !.user = user, !.extra = TRUE,
                                         !.original = shifts[i].user]])
    BY <1>4 DEF BeginReassign
  <2> DEFINE row == [shifts[i] EXCEPT !.user = user, !.extra = TRUE,
                                      !.original = shifts[i].user]
             x == [Idle EXCEPT !.op = "reassign", !.pc = "write", !.id = i,
                               !.row = row]
  <2>2. shifts[i] \in Row /\ i \in Ids /\ RowOK(shifts[i], hours[i], events[i])
    BY Parts DEF TablesOK
  <2>3. row \in Row /\ row.original = shifts[i].user
    BY <2>2 DEF Row
  <2>4. \E k \in DOMAIN events[i] : events[i][k].user = row.original
    <3>1. /\ Len(events[i]) \in DOMAIN events[i]
          /\ events[i][Len(events[i])].user = shifts[i].user
      BY <2>2 DEF RowOK
    <3> QED
      BY <2>3, <3>1
  <2>5. Begin(c, x)
    BY <2>1
  <2> HIDE DEF row
  <2>6. x \in Call
    BY <2>2, <2>3 DEF Idle, Call, Ops, Points
  <2>7. CallOK(x)
    BY <2>2, <2>3, <2>4 DEF Idle, CallOK
  <2> QED
    BY <2>5, <2>6, <2>7, LocalStep DEF Begin
<1>5. CASE BeginDelete(c)
  <2>1. PICK i \in Ids :
          Begin(c, [Idle EXCEPT !.op = "delete", !.pc = "erase", !.id = i])
    BY <1>5 DEF BeginDelete
  <2> DEFINE x == [Idle EXCEPT !.op = "delete", !.pc = "erase", !.id = i]
  <2>2. x \in Call /\ CallOK(x)
    BY DEF Idle, Call, Ops, Points, CallOK
  <2> QED
    BY <2>1, <2>2, LocalStep DEF Begin
<1> QED
  BY <1>1, <1>2, <1>3, <1>4, <1>5

-----------------------------------------------------------------------------
(* Every step. *)

\* Nothing has been assigned at first.
LEMMA InitShifts ==
    Init => ShiftInv
<1> SUFFICES ASSUME Init PROVE ShiftInv
  OBVIOUS
<1>1. TablesOK
  <2>1. DOMAIN shifts = {} /\ DOMAIN hours = {}
    BY DEF Init
  <2>2. shifts \in [DOMAIN shifts -> Row] /\ hours \in [DOMAIN shifts -> Nat]
    BY <2>1 DEF Init
  <2>3. events \in [Ids -> Seq(Event)] /\ \A i \in Ids : events[i] = <<>>
    BY DEF Init
  <2> QED
    BY <2>1, <2>2, <2>3 DEF TablesOK
<1>2. /\ calls \in [Calls -> Call]
      /\ \A c \in Calls : CallOK(calls[c])
  BY IdleOK DEF Init
<1>3. checked \subseteq DOMAIN shifts /\ OneShiftPerDay
  BY DEF Init, OneShiftPerDay
<1> QED
  BY <1>1, <1>2, <1>3, Parts

\* Every step keeps the invariant.
LEMMA NextShifts ==
    ShiftInv /\ [Next]_vars => ShiftInv'
<1> SUFFICES ASSUME ShiftInv, [Next]_vars PROVE ShiftInv'
  OBVIOUS
<1>1. CASE UNCHANGED vars
  BY <1>1 DEF vars, tables, ShiftInv, TypeOK, HoursFollowShift,
              LastEventNamesHolder, OriginalInTrail, OneShiftPerDay, CallOK,
              DayFree
<1>2. ASSUME NEW c \in Calls, CallStep(c) PROVE ShiftInv'
  <2>1. CASE AssignBatch(c)
    BY <2>1, AssignBatchStep
  <2>2. CASE InsertSingle(c)
    BY <2>2, InsertSingleStep
  <2>3. CASE WriteShift(c)
    BY <2>3, WriteShiftStep
  <2>4. CASE Reassign(c)
    BY <2>4, ReassignStep
  <2>5. CASE \/ BeginSingle(c) \/ BeginUpdate(c) \/ CheckDay(c)
             \/ BeginReassign(c) \/ BeginDelete(c)
    BY <2>5, ReadStep
  <2>6. CASE DeleteShift(c)
    <3> DEFINE call == calls[c]
               x == [call EXCEPT !.pc = "failed"]
    <3>1. call \in Call
      BY Parts
    <3>2. x \in Call /\ CallOK(x)
      BY <3>1 DEF Call, Points, CallOK
    <3> QED
      BY <2>6, <3>2, LocalStep DEF DeleteShift
  <2>7. CASE AnswerDelete(c)
    BY <2>7, IdleOK, LocalStep DEF AnswerDelete, Fail
  <2> QED
    BY <1>2, <2>1, <2>2, <2>3, <2>4, <2>5, <2>6, <2>7 DEF CallStep
<1> QED
  BY <1>1, <1>2 DEF Next

-----------------------------------------------------------------------------
(* What the specification promises. *)

\* The invariant holds in every state, whatever the handlers interleave.
THEOREM ShiftInvariant == Spec => []ShiftInv
<1> QED
  BY InitShifts, NextShifts, PTL DEF Spec

\* Every shift keeps its row of hours, and the locals their types, whatever
\* handlers have raced.
THEOREM ShiftsTypeOK == Spec => []TypeOK
<1>1. ShiftInv => TypeOK
  BY DEF ShiftInv
<1> QED
  BY <1>1, ShiftInvariant, PTL

\* The hours of a shift are those of a schedule of its type, whatever update
\* has written back what it read earlier (updateAssignment).
THEOREM HoursSound == Spec => []HoursFollowShift
<1>1. ShiftInv => HoursFollowShift
  BY DEF ShiftInv
<1> QED
  BY <1>1, ShiftInvariant, PTL

\* The last event of a shift names the user who has it, in whatever order the
\* handlers that move it commit (updateAssignment, reassignShiftAsExtra).
THEOREM TrailSound == Spec => []LastEventNamesHolder
<1>1. ShiftInv => LastEventNamesHolder
  BY DEF ShiftInv
<1> QED
  BY <1>1, ShiftInvariant, PTL

\* The original user of an extra shift had it before an event that reassigned
\* it, although the user was read before the transaction
\* (reassignShiftAsExtra).
THEOREM OriginalSound == Spec => []OriginalInTrail
<1>1. ShiftInv => OriginalInTrail
  BY DEF ShiftInv
<1> QED
  BY <1>1, ShiftInvariant, PTL

\* Handlers that look for a free day and commit before anybody else does never
\* give a user two shifts on a day (assignSingle, updateAssignment).
THEOREM CalendarSound == Spec => []OneShiftPerDay
<1>1. ShiftInv => OneShiftPerDay
  BY DEF ShiftInv
<1> QED
  BY <1>1, ShiftInvariant, PTL

=============================================================================
