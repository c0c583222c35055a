-------------------------- MODULE ShiftAssignments -------------------------
(***************************************************************************)
(* Shifts on a calendar: who works which type of shift on which day, with  *)
(* the hours it counts for and the trail of its events.  This module       *)
(* follows src/src/modules/shift-assignment/shift-assignment.service.ts    *)
(* (assignBatch, assignSingle, updateAssignment, reassignShiftAsExtra,     *)
(* deleteAssignment).  The tables of shift types and schedules it takes    *)
(* the hours from are constants here.                                      *)
(*                                                                         *)
(* Every handler reads first and writes in a transaction later, with what  *)
(* it read.  A transaction is one step: the first thing it does is to      *)
(* insert its rows or to lock the row of its one shift, it changes nothing *)
(* but that shift, its hours and its events, and nobody else sees any of   *)
(* it before the commit.  A handler that refuses its request before having *)
(* done anything is not a step.                                            *)
(*                                                                         *)
(* A day is the timestamp stored, compared for equality.  Areas, rosters,  *)
(* observations and the flags isHoliday and isWeekend are left out: no     *)
(* handler reads them back to decide anything.                             *)
(***************************************************************************)
EXTENDS Integers, Sequences, FiniteSets

CONSTANTS
    Ids,         \* ids of shift assignments
    Users,
    ShiftTypes,
    Days,
    Schedules,   \* the schedules of each type: minutes of the day
    Calls,       \* slots for the handlers in flight
    None,
    Fraction,    \* a number of hours that is not whole
    Operations,  \* the handlers clients use
    MaxBatch,    \* bound on the assignments of one batch
    MaxEvents    \* bound on the events of all shifts

\* The minutes at which a schedule starts and ends, of the 1440 of a day.
Times == {time \in [startTime : Nat, endTime : Nat] :
            time.startTime < 1440 /\ time.endTime < 1440}

ASSUME ShiftAssumption ==
    /\ None \notin Ids \cup Users \cup ShiftTypes \cup Days \cup Calls
    /\ Schedules \in [ShiftTypes -> SUBSET Times]
    /\ Fraction \notin Nat
    /\ Operations \subseteq {"batch", "single", "update", "reassign", "delete"}
    /\ MaxBatch \in Nat
    /\ MaxEvents \in Nat

VARIABLES
    shifts,    \* the table of assignments, by id
    hours,     \* the worked column of the hours of a shift, by its id
    events,    \* the events of a shift in the order of their insertion
    calls,     \* program counter and locals of the handlers
    checked    \* history: the shifts whose user and day were found free

tables == <<shifts, hours, events>>
vars == <<tables, calls, checked>>

Row == [user : Users, type : ShiftTypes, day : Days, extra : BOOLEAN,
        original : Users \cup {None}]

Kinds == {"CREATE", "UPDATE", "EXTRA-REASSIGN"}

Event == [kind : Kinds, user : Users]

Ops == {"none", "single", "update", "reassign", "delete"}
Points == {"idle", "insert", "check", "write", "erase", "failed"}

(***************************************************************************)
(* row is what the handler will write: the new row of assignSingle, the    *)
(* row as read with the request's changes for the other handlers.  looked  *)
(* tells whether an update looks for another shift on the day, fresh       *)
(* whether nobody has committed since the handler read or looked.          *)
(***************************************************************************)
Call == [op : Ops, pc : Points, id : Ids \cup {None}, row : Row \cup {None},
         looked : BOOLEAN, fresh : BOOLEAN]

Idle == [op |-> "none", pc |-> "idle", id |-> None, row |-> None,
         looked |-> FALSE, fresh |-> TRUE]

Init ==
    /\ shifts = <<>>
    /\ hours = <<>>
    /\ events = [i \in Ids |-> <<>>]
    /\ calls = [c \in Calls |-> Idle]
    /\ checked = {}

-----------------------------------------------------------------------------
(* The hours of a shift.                                                   *)

WorkedMinutes(time) ==
    IF time.endTime < time.startTime
    THEN time.endTime - time.startTime + 1440
    ELSE time.endTime - time.startTime

(***************************************************************************)
(* calculateWorkedHours divides minutes by 60 in floating point, where     *)
(* only quarters of an hour are exact: 08:20 to 16:20 gives a little less  *)
(* than 8.  The columns are integers and Prisma refuses to store anything  *)
(* but a whole number, so that the transaction fails.                      *)
(***************************************************************************)
Exact(time) == time.startTime % 15 = 0 /\ time.endTime % 15 = 0

Hours(time) ==
    LET whole == WorkedMinutes(time) % 60 = 0
    IN  (IF whole THEN {WorkedMinutes(time) \div 60} ELSE {})
        \cup (IF whole /\ Exact(time) THEN {} ELSE {Fraction})

\* The hours a handler may compute for a type: findFirst and the Map of
\* assignBatch take any one of its schedules.
Worked(type) ==
    IF Schedules[type] = {} THEN {0}
    ELSE UNION {Hours(time) : time \in Schedules[type]}

-----------------------------------------------------------------------------
(* Handlers.                                                               *)

Ready(c, op) == op \in Operations /\ calls[c] = Idle

Begin(c, call) ==
    /\ calls' = [calls EXCEPT ![c] = call]
    /\ UNCHANGED <<tables, checked>>

\* The handler ends with an error: what its transaction did is undone.
Fail(c) ==
    /\ calls' = [calls EXCEPT ![c] = Idle]
    /\ UNCHANGED <<tables, checked>>

\* The handler ends well.  The others go on with what they have read before.
Commit(c) ==
    calls' = [d \in Calls |->
                IF d = c THEN Idle
                ELSE [calls[d] EXCEPT !.fresh =
                        @ /\ calls[d].op \notin {"single", "update"}]]

Placement == [user : Users, type : ShiftTypes, day : Days]

NewRow(place) ==
    [user |-> place.user, type |-> place.type, day |-> place.day,
     extra |-> FALSE, original |-> None]

\* Mutant: leaving a shift out of the look leaves all of them out.
DayFreeOnCreate(user, day, id) ==
    id # None \/ \A i \in DOMAIN shifts \ {id} :
                    ~(shifts[i].user = user /\ shifts[i].day = day)

\* No shift of the user on the day, but for the one that is being changed.
DayFree(user, day, id) ==
    \A i \in DOMAIN shifts \ {id} :
        ~(shifts[i].user = user /\ shifts[i].day = day)

\* Whether the table of events has room for a number of new ones.
Room(n) ==
    Cardinality(UNION {{i} \X DOMAIN events[i] : i \in Ids}) + n <= MaxEvents

\* Fresh ids for a number of new rows.
FreshIds(n) ==
    {new \in [1 .. n -> Ids \ DOMAIN shifts] :
        \A j, k \in 1 .. n : new[j] = new[k] => j = k}

\* The rows of shift_assignment, shift_hours and shift_event of new shifts;
\* worked has the hours of each type.
Insert(new, placed, worked) ==
    LET at(i) == placed[CHOOSE k \in DOMAIN new : new[k] = i]
        ids == {new[k] : k \in DOMAIN new}
    IN  /\ Room(Len(new))
        /\ shifts' = [i \in DOMAIN shifts \cup ids |->
                        IF i \in ids THEN NewRow(at(i)) ELSE shifts[i]]
        /\ hours' = [i \in DOMAIN hours \cup ids |->
                       IF i \in ids THEN worked[at(i).type] ELSE hours[i]]
        /\ events' = [i \in Ids |->
                        IF i \in ids
                        THEN <<[kind |-> "CREATE", user |-> at(i).user]>>
                        ELSE events[i]]

\* The hours assignBatch has for each type, one schedule of each loaded first.
HoursMaps == {map \in [ShiftTypes -> UNION {Worked(t) : t \in ShiftTypes}] :
                \A t \in ShiftTypes : map[t] \in Worked(t)}

(***************************************************************************)
(* assignBatch reads nothing that the other handlers write: it is one      *)
(* step.  Nobody looks for the shifts the users already have.  The batch   *)
(* fails as a whole if the hours of one of its shifts cannot be stored.    *)
(***************************************************************************)
AssignBatch(c) ==
    /\ Ready(c, "batch")
    /\ \E n \in 1 .. MaxBatch : \E placed \in [1 .. n -> Placement] :
       \E map \in HoursMaps : \E new \in FreshIds(n) :
         /\ \A k \in 1 .. n : map[placed[k].type] # Fraction
         /\ Insert(new, placed, map)
    /\ Commit(c)
    /\ UNCHANGED checked

\* assignSingle ends its checks with the look for another shift on the day.
BeginSingle(c) ==
    /\ Ready(c, "single")
    /\ \E place \in Placement :
         /\ DayFree(place.user, place.day, None)
         /\ Begin(c, [Idle EXCEPT !.op = "single", !.pc = "insert",
                                  !.row = NewRow(place)])

InsertSingle(c) ==
    /\ calls[c].pc = "insert"
    /\ LET row == calls[c].row
           place == [user |-> row.user, type |-> row.type, day |-> row.day]
       IN  \E w \in Worked(row.type) :
             IF w = Fraction
             THEN Fail(c)
             ELSE /\ \E new \in FreshIds(1) :
                       /\ Insert(new, <<place>>, [t \in {row.type} |-> w])
                       /\ checked' = IF calls[c].fresh
                                     THEN checked \cup {new[1]} ELSE checked
                  /\ Commit(c)

Or(new, old) == IF new = None THEN old ELSE new

(***************************************************************************)
(* updateAssignment reads the shift and works out all the columns it will  *)
(* write: what the request leaves out is written back as it was read.      *)
(***************************************************************************)
BeginUpdate(c) ==
    /\ Ready(c, "update")
    /\ \E i \in DOMAIN shifts, user \in Users \cup {None},
          type \in ShiftTypes \cup {None}, day \in Days \cup {None} :
         LET looks == user # None \/ day # None
         IN  Begin(c,
               [Idle EXCEPT !.op = "update", !.id = i, !.looked = looks,
                  !.pc = IF looks THEN "check" ELSE "write",
                  !.row = [shifts[i] EXCEPT !.user = Or(user, @),
                             !.type = Or(type, @), !.day = Or(day, @)]])

\* The look for another shift of the user on the day.
CheckDay(c) ==
    /\ calls[c].pc = "check"
    /\ IF DayFree(calls[c].row.user, calls[c].row.day, calls[c].id)
       THEN /\ calls' = [calls EXCEPT ![c] =
                           [@ EXCEPT !.pc = "write", !.fresh = TRUE]]
            /\ UNCHANGED <<tables, checked>>
       ELSE Fail(c)

\* A new event of a shift.
Record(i, kind, user) ==
    /\ Room(1)
    /\ events' = [events EXCEPT ![i] =
                    Append(@, [kind |-> kind, user |-> user])]

\* Mutant: the hours are those of the type the shift had before.
WriteShiftOldType(c) ==
    /\ calls[c].op = "update"
    /\ calls[c].pc = "write"
    /\ LET i == calls[c].id
           row == calls[c].row
       IN  \E w \in Worked(shifts[i].type) :
             IF w = Fraction
             THEN Fail(c)
             ELSE /\ shifts' = [shifts EXCEPT ![i] =
                       [@ EXCEPT !.user = row.user, !.type = row.type,
                                 !.day = row.day]]
                  /\ hours' = [hours EXCEPT ![i] = w]
                  /\ Record(i, "UPDATE", row.user)
                  /\ checked' = IF ~calls[c].fresh THEN checked \ {i}
                                ELSE IF calls[c].looked THEN checked \cup {i}
                                ELSE checked
                  /\ Commit(c)

\* The transaction of updateAssignment.  isExtra and originalUserId are not
\* among its columns.
WriteShift(c) ==
    /\ calls[c].op = "update"
    /\ calls[c].pc = "write"
    /\ LET i == calls[c].id
           row == calls[c].row
       IN  \E w \in Worked(row.type) :
             IF w = Fraction
             THEN Fail(c)
             ELSE /\ shifts' = [shifts EXCEPT ![i] =
                       [@ EXCEPT !.user = row.user, !.type = row.type,
                                 !.day = row.day]]
                  /\ hours' = [hours EXCEPT ![i] = w]
                  /\ Record(i, "UPDATE", row.user)
                  /\ checked' = IF ~calls[c].fresh THEN checked \ {i}
                                ELSE IF calls[c].looked THEN checked \cup {i}
                                ELSE checked
                  /\ Commit(c)

\* reassignShiftAsExtra keeps the user it has read as the original one.
BeginReassign(c) ==
    /\ Ready(c, "reassign")
    /\ \E i \in DOMAIN shifts, user \in Users :
         Begin(c,
           [Idle EXCEPT !.op = "reassign", !.pc = "write", !.id = i,
              !.row = [shifts[i] EXCEPT !.user = user, !.extra = TRUE,
                                        !.original = shifts[i].user]])

\* Mutant: the event names the user who gives the shift away.
ReassignNamesOriginal(c) ==
    /\ calls[c].op = "reassign"
    /\ calls[c].pc = "write"
    /\ LET i == calls[c].id
           row == calls[c].row
       IN  /\ shifts' = [shifts EXCEPT ![i] =
                [@ EXCEPT !.user = row.user, !.extra = row.extra,
                          !.original = row.original]]
           /\ Record(i, "EXTRA-REASSIGN", row.original)
    /\ Commit(c)
    /\ checked' = checked \ {calls[c].id}
    /\ UNCHANGED hours

\* Mutant: the new user is written down as the original one.
ReassignKeepsNew(c) ==
    /\ calls[c].op = "reassign"
    /\ calls[c].pc = "write"
    /\ LET i == calls[c].id
           row == calls[c].row
       IN  /\ shifts' = [shifts EXCEPT ![i] =
                [@ EXCEPT !.user = row.user, !.extra = row.extra,
                          !.original = row.user]]
           /\ Record(i, "EXTRA-REASSIGN", row.user)
    /\ Commit(c)
    /\ checked' = checked \ {calls[c].id}
    /\ UNCHANGED hours

\* The transaction of reassignShiftAsExtra: nobody looks for another shift of
\* the new user on the day.
Reassign(c) ==
    /\ calls[c].op = "reassign"
    /\ calls[c].pc = "write"
    /\ LET i == calls[c].id
           row == calls[c].row
       IN  /\ shifts' = [shifts EXCEPT ![i] =
                [@ EXCEPT !.user = row.user, !.extra = row.extra,
                          !.original = row.original]]
           /\ Record(i, "EXTRA-REASSIGN", row.user)
    /\ Commit(c)
    /\ checked' = checked \ {calls[c].id}
    /\ UNCHANGED hours

BeginDelete(c) ==
    /\ Ready(c, "delete")
    /\ \E i \in Ids :
         Begin(c, [Idle EXCEPT !.op = "delete", !.pc = "erase", !.id = i])

(***************************************************************************)
(* The transaction of deleteAssignment removes the row and then inserts an *)
(* event of it.  A row with hours or events cannot be removed (both        *)
(* foreign keys are ON DELETE RESTRICT), nor has a removed or a missing    *)
(* row events to insert: no outcome but the failure is left.               *)
(***************************************************************************)
DeleteShift(c) ==
    /\ calls[c].pc = "erase"
    /\ calls' = [calls EXCEPT ![c] = [@ EXCEPT !.pc = "failed"]]
    /\ UNCHANGED <<tables, checked>>

\* The client of deleteAssignment gets the error.
AnswerDelete(c) ==
    /\ calls[c].pc = "failed"
    /\ Fail(c)

CallStep(c) ==
    \/ AssignBatch(c)
    \/ BeginSingle(c)
    \/ InsertSingle(c)
    \/ BeginUpdate(c)
    \/ CheckDay(c)
    \/ WriteShift(c)
    \/ BeginReassign(c)
    \/ Reassign(c)
    \/ BeginDelete(c)
    \/ DeleteShift(c)
    \/ AnswerDelete(c)

Next == \E c \in Calls : CallStep(c)

Spec == Init /\ [][Next]_vars

-----------------------------------------------------------------------------
(* Properties.                                                             *)

(* The state has its type: every shift has its row of hours, every id but  *)
(* those of shifts has no event, whatever the handlers interleave.         *)
TypeOK ==
    /\ DOMAIN shifts \subseteq Ids
    /\ shifts \in [DOMAIN shifts -> Row]
    /\ hours \in [DOMAIN shifts -> Nat]
    /\ events \in [Ids -> Seq(Event)]
    /\ \A i \in Ids : events[i] = <<>> <=> i \notin DOMAIN shifts
    /\ calls \in [Calls -> Call]
    /\ checked \subseteq DOMAIN shifts

(* The hours of a shift are those of a schedule of its own type, or none   *)
(* if the type is without one: an update, which writes back columns it     *)
(* read earlier, never leaves the hours of one type on a shift of another  *)
(* (shift-assignment.service.ts:203-236).                                  *)
HoursFollowShift ==
    \A i \in DOMAIN shifts : hours[i] \in Worked(shifts[i].type)

(* The trail ends with the holder: the last event of a shift names the     *)
(* user who has it, whichever of the handlers that move shifts between     *)
(* users commits last (shift-assignment.service.ts:83, 238, 271).          *)
LastEventNamesHolder ==
    \A i \in DOMAIN shifts :
        /\ events[i] # <<>>
        /\ events[i][Len(events[i])].user = shifts[i].user

(* The original user of an extra shift once had it: an event names the     *)
(* user before the shift was reassigned, although that user was read       *)
(* before the transaction (shift-assignment.service.ts:254, 266).          *)
OriginalInTrail ==
    \A i \in DOMAIN shifts : shifts[i].extra =>
        \E l \in DOMAIN events[i] : \E k \in 1 .. l - 1 :
            /\ events[i][l].kind = "EXTRA-REASSIGN"
            /\ events[i][k].user = shifts[i].original

(* A user has two shifts on a day only where nobody looked or the look was *)
(* too early: shifts that were last placed by a handler that found the day *)
(* free, with no commit of another since, are never two of one user on one *)
(* day (shift-assignment.service.ts:116, 176, 369-381).                    *)
OneShiftPerDay ==
    \A i, j \in checked :
        shifts[i].user = shifts[j].user /\ shifts[i].day = shifts[j].day
            => i = j

(* What a handler in flight may rely on: its shift exists; the user it will *)
(* write down as the original one is in the trail; and while nobody has     *)
(* committed since, the day it found free is free, or the user and the day  *)
(* it read are those of the shift.                                          *)
CallOK(call) ==
    LET row == call.row
    IN  /\ call.pc = "insert" =>
             /\ call.op = "single"
             /\ row \in Row
             /\ call.fresh => DayFree(row.user, row.day, None)
        /\ call.pc \in {"check", "write"} =>
             /\ call.id \in DOMAIN shifts
             /\ row \in Row
        /\ call.pc = "check" => call.op = "update" /\ call.looked
        /\ call.pc = "write" /\ call.op = "update" /\ call.fresh =>
             IF call.looked
             THEN DayFree(row.user, row.day, call.id)
             ELSE /\ row.user = shifts[call.id].user
                  /\ row.day = shifts[call.id].day
        /\ call.pc = "write" /\ call.op = "reassign" =>
             \E k \in DOMAIN events[call.id] :
                events[call.id][k].user = row.original

(* The properties above with what makes them inductive (reads before the    *)
(* transactions, shift-assignment.service.ts:116, 159, 176, 254).           *)
ShiftInv ==
    /\ TypeOK
    /\ HoursFollowShift
    /\ LastEventNamesHolder
    /\ OriginalInTrail
    /\ OneShiftPerDay
    /\ \A c \in Calls : CallOK(calls[c])

(* A shift that a client asks to delete is deleted: the handler does not   *)
(* end in an error with the shift still there ("Shift assignment deleted   *)
(* successfully", shift-assignment.service.ts:336).                        *)
DeletedIsGone ==
    \A c \in Calls :
        calls[c].pc = "failed" => calls[c].id \notin DOMAIN shifts

=============================================================================
