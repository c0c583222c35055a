------------------------------ MODULE Holidays ------------------------------
(***************************************************************************)
(* The holidays, as kept by src/src/modules/holiday/holiday.service.ts and *)
(* imported through external-holiday-sync.service.ts.                      *)
(*                                                                         *)
(* A year without holidays is imported, by a read of it (findAll, all      *)
(* inserts at once) or by syncHolidaysIfNotExist (one insert after the     *)
(* other).  The look for holidays of the year and every insert is a step:  *)
(* there is no transaction.  An import that the external service does not  *)
(* answer changes nothing and is left out.                                 *)
(*                                                                         *)
(* Time is counted in hours, the first hour of day d in UTC is 24 * d; an  *)
(* instant with 59 minutes 59.999 seconds is the end of its hour.  Ecuador *)
(* is five hours behind.  Names and observations are left out.             *)
(***************************************************************************)
EXTENDS Integers

CONSTANTS
    HolidayIds,
    Events,
    HolidayYears,
    DaysPerYear,
    Feriados,     \* by year, the pairs of an event and a day of the service
    HolidayCalls, \* slots for the calls in flight
    Entries,      \* the holidays clients enter
    Edits,        \* the dates clients send in updates
    NoDate,       \* a field that is not in the body, and null
    ServerZone,   \* hours the zone of the server is ahead of UTC
    MaxHolidayRequests, \* bound on creates, updates and removals
    MaxHolidayFaults    \* bound on failing inserts and calls cut short

Ecuador == -5

EventsOf(y) == {e \in Events : \E f \in Feriados[y] : f[1] = e}

\* formatToHolidaysDtos groups the dates of an event of a year.
DatesOf(y, e) == {f[2] : f \in {g \in Feriados[y] : g[1] = e}}

ASSUME HolidayAssumption ==
    /\ DaysPerYear \in Nat \ {0}
    /\ HolidayYears \subseteq Int
    /\ \A y \in HolidayYears : \A f \in Feriados[y] :
          /\ f[1] \in Events
          /\ f[2] \in y * DaysPerYear .. (y + 1) * DaysPerYear - 1
    /\ \A y \in HolidayYears : \A e \in EventsOf(y) :
          /\ \E d \in DatesOf(y, e) : \A x \in DatesOf(y, e) : d <= x
          /\ \E d \in DatesOf(y, e) : \A x \in DatesOf(y, e) : x <= d
    /\ Entries \subseteq [start : Int, end : Int]
    /\ Edits \subseteq [start : Int \cup {NoDate}, end : Int \cup {NoDate}]
    /\ NoDate \notin Int \cup HolidayIds
    /\ \A y \in HolidayYears, e \in Events : NoDate # <<y, e>>
    /\ ServerZone \in Int
    /\ MaxHolidayRequests \in Nat
    /\ MaxHolidayFaults \in Nat

Source == HolidayYears \X Events

\* A row of holiday.  source is a history: the year and event it was imported
\* for, null once it is edited, and for what a client has entered.
Holiday == [start : Int, end : Int, source : Source \cup {NoDate}]

\* A call: an import and the events it has yet to insert, or an update and
\* the dates it is about to write.
HolidayCall == [op : {"idle", "read", "sync", "update"},
                year : HolidayYears \cup {NoDate}, todo : SUBSET Events,
                id : HolidayIds \cup {NoDate},
                start : Int \cup {NoDate}, end : Int \cup {NoDate}]

NoCall == [op |-> "idle", year |-> NoDate, todo |-> {}, id |-> NoDate,
           start |-> NoDate, end |-> NoDate]

VARIABLES
    holidays,        \* the table, by id
    holidayCalls,    \* the calls in flight
    imported,        \* history: years an import has begun for
    crowded,         \* history: years two imports were under way for at once
    withdrawn,       \* history: events not inserted, removed or edited
    holidayRequests, \* history: the number of requests so far
    holidayFaults    \* history: the number of faults so far

holidayVars == <<holidays, holidayCalls, imported, crowded, withdrawn,
                 holidayRequests, holidayFaults>>

HolidayInit ==
    /\ holidays = [i \in {} |-> NoDate]
    /\ holidayCalls = [c \in HolidayCalls |-> NoCall]
    /\ imported = {}
    /\ crowded = {}
    /\ withdrawn = {}
    /\ holidayRequests = 0
    /\ holidayFaults = 0

-----------------------------------------------------------------------------
(* Days and hours. *)

YearOf(hour) == hour \div (24 * DaysPerYear)

\* Mutant: the year ends when its last day begins.
HolidaysOfShortYear(y) ==
    {i \in DOMAIN holidays :
        holidays[i].start \in 24 * y * DaysPerYear
                              .. 24 * ((y + 1) * DaysPerYear - 1)}

HolidaysOf(y) == {i \in DOMAIN holidays : YearOf(holidays[i].start) = y}

\* The first and the last hour of a day of Ecuador.
toUtcEcuadorStart(day) == 24 * day - Ecuador

\* Mutant: the day is not advanced.
EndOnTheSameDay(day) == 24 * day - Ecuador - 1

toUtcEcuadorEnd(day) == 24 * (day + 1) - Ecuador - 1

FirstOf(y, e) ==
    CHOOSE d \in DatesOf(y, e) : \A x \in DatesOf(y, e) : d <= x

LastOf(y, e) ==
    CHOOSE d \in DatesOf(y, e) : \A x \in DatesOf(y, e) : x <= d

\* The holiday an event of a year becomes.
Formatted(y, e) == [start |-> toUtcEcuadorStart(FirstOf(y, e)),
                    end |-> toUtcEcuadorEnd(LastOf(y, e)),
                    source |-> <<y, e>>]

\* setHours is about the zone of the server.
ServerDayStart(hour) == 24 * ((hour + ServerZone) \div 24) - ServerZone
ServerDayEnd(hour) == ServerDayStart(hour) + 23

\* getWeebHookFormat: from the start on in steps of a day, each as the day it
\* is in Ecuador.
WebhookDays(h) ==
    {(h.start + 24 * k + Ecuador) \div 24 : k \in 0 .. (h.end - h.start) \div 24}

isHoliday(h, hour) == h.start <= hour /\ hour <= h.end

-----------------------------------------------------------------------------
(* Imports. *)

ImportersOf(y) == {c \in HolidayCalls : /\ holidayCalls[c].op \in {"read", "sync"}
                                        /\ holidayCalls[c].year = y}

\* findAll and syncHolidaysIfNotExist find no holiday of the year and ask the
\* service for them.
BeginImport(c, op, y) ==
    /\ holidayCalls[c].op = "idle"
    /\ HolidaysOf(y) = {}
    /\ EventsOf(y) # {}
    /\ holidayCalls' = [holidayCalls EXCEPT ![c] =
          [NoCall EXCEPT !.op = op, !.year = y, !.todo = EventsOf(y)]]
    /\ imported' = imported \cup {y}
    /\ crowded' = IF ImportersOf(y) = {} THEN crowded ELSE crowded \cup {y}
    /\ UNCHANGED <<holidays, withdrawn, holidayRequests, holidayFaults>>

\* Ids are only compared: any that no row and no call has will do.
FreeHolidayIds ==
    HolidayIds \ (DOMAIN holidays \cup {holidayCalls[c].id : c \in HolidayCalls})

NewHolidayId == CHOOSE i \in FreeHolidayIds : TRUE

WithRow(i, h) == [j \in DOMAIN holidays \cup {i} |->
                     IF j = i THEN h ELSE holidays[j]]

\* What is left to do when the inserts of some events are over.
Without(c, E) ==
    IF holidayCalls[c].todo \subseteq E
    THEN [holidayCalls EXCEPT ![c] = NoCall]
    ELSE [holidayCalls EXCEPT
            ![c] = [@ EXCEPT !.todo = holidayCalls[c].todo \ E]]

\* Mutant: what ends on a holiday is not inserted.
InsertNewDay(c, e) ==
    /\ holidayCalls[c].op \in {"read", "sync"}
    /\ e \in holidayCalls[c].todo
    /\ FreeHolidayIds # {}
    /\ LET h == Formatted(holidayCalls[c].year, e)
       IN  holidays' = IF \E i \in DOMAIN holidays : isHoliday(holidays[i], h.end)
                       THEN holidays ELSE WithRow(NewHolidayId, h)
    /\ holidayCalls' = Without(c, {e})
    /\ UNCHANGED <<imported, crowded, withdrawn, holidayRequests,
                   holidayFaults>>

InsertImported(c, e) ==
    /\ holidayCalls[c].op \in {"read", "sync"}
    /\ e \in holidayCalls[c].todo
    /\ FreeHolidayIds # {}
    /\ holidays' = WithRow(NewHolidayId, Formatted(holidayCalls[c].year, e))
    /\ holidayCalls' = Without(c, {e})
    /\ UNCHANGED <<imported, crowded, withdrawn, holidayRequests,
                   holidayFaults>>

\* A fault: the database turns an insert down.  findAll answers with an empty
\* list and the other inserts go on; syncHolidaysIfNotExist ends.
FailInsert(c, e) ==
    /\ holidayCalls[c].op \in {"read", "sync"}
    /\ e \in holidayCalls[c].todo
    /\ holidayFaults < MaxHolidayFaults
    /\ LET lost == IF holidayCalls[c].op = "read" THEN {e}
                   ELSE holidayCalls[c].todo
       IN  /\ holidayCalls' = Without(c, lost)
           /\ withdrawn' =
                 withdrawn \cup ({holidayCalls[c].year} \X lost)
    /\ holidayFaults' = holidayFaults + 1
    /\ UNCHANGED <<holidays, imported, crowded, holidayRequests>>

\* A fault: the server stops.
CutHolidayCall(c) ==
    /\ holidayCalls[c].op # "idle"
    /\ holidayFaults < MaxHolidayFaults
    /\ holidayCalls' = [holidayCalls EXCEPT ![c] = NoCall]
    /\ withdrawn' = IF holidayCalls[c].op = "update" THEN withdrawn
                    ELSE withdrawn \cup ({holidayCalls[c].year}
                                          \X holidayCalls[c].todo)
    /\ holidayFaults' = holidayFaults + 1
    /\ UNCHANGED <<holidays, imported, crowded, holidayRequests>>

-----------------------------------------------------------------------------
(* What clients enter, update and remove. *)

RequestHoliday ==
    /\ holidayRequests < MaxHolidayRequests
    /\ holidayRequests' = holidayRequests + 1

CreateHoliday(h) ==
    /\ RequestHoliday
    /\ FreeHolidayIds # {}
    /\ holidays' = WithRow(NewHolidayId, [start |-> h.start, end |-> h.end,
                                          source |-> NoDate])
    /\ UNCHANGED <<holidayCalls, imported, crowded, withdrawn, holidayFaults>>

\* update reads the row and works out both dates ...
BeginUpdateHoliday(c, i, h) ==
    /\ holidayCalls[c].op = "idle"
    /\ RequestHoliday
    /\ i \in DOMAIN holidays
    /\ holidayCalls' = [holidayCalls EXCEPT ![c] =
          [NoCall EXCEPT !.op = "update", !.id = i,
             !.start = IF h.start = NoDate THEN holidays[i].start
                       ELSE ServerDayStart(h.start),
             !.end = IF h.end = NoDate THEN holidays[i].end
                     ELSE ServerDayEnd(h.end)]]
    /\ UNCHANGED <<holidays, imported, crowded, withdrawn, holidayFaults>>

Withdraw(i) == IF holidays[i].source = NoDate THEN withdrawn
               ELSE withdrawn \cup {holidays[i].source}

\* ... and writes them, if the row is still there.
WriteHoliday(c) ==
    LET me == holidayCalls[c] IN
    /\ me.op = "update"
    /\ IF me.id \in DOMAIN holidays
       THEN /\ holidays' = WithRow(me.id, [start |-> me.start, end |-> me.end,
                                           source |-> NoDate])
            /\ withdrawn' = Withdraw(me.id)
       ELSE UNCHANGED <<holidays, withdrawn>>
    /\ holidayCalls' = [holidayCalls EXCEPT ![c] = NoCall]
    /\ UNCHANGED <<imported, crowded, holidayRequests, holidayFaults>>

RemoveHoliday(i) ==
    /\ RequestHoliday
    /\ i \in DOMAIN holidays
    /\ holidays' = [j \in DOMAIN holidays \ {i} |-> holidays[j]]
    /\ withdrawn' = Withdraw(i)
    /\ UNCHANGED <<holidayCalls, imported, crowded, holidayFaults>>

HolidayNext ==
    \/ \E c \in HolidayCalls :
          \/ \E op \in {"read", "sync"}, y \in HolidayYears :
                BeginImport(c, op, y)
          \/ \E e \in Events : InsertImported(c, e) \/ FailInsert(c, e)
          \/ \E i \in HolidayIds, h \in Edits : BeginUpdateHoliday(c, i, h)
          \/ WriteHoliday(c)
          \/ CutHolidayCall(c)
    \/ \E h \in Entries : CreateHoliday(h)
    \/ \E i \in HolidayIds : RemoveHoliday(i)

HolidaySpec == HolidayInit /\ [][HolidayNext]_holidayVars

-----------------------------------------------------------------------------
(* Properties *)

\* The type invariant.  An import inserts what the service has for its year.
HolidayTypeOK ==
    /\ DOMAIN holidays \subseteq HolidayIds
    /\ holidays \in [DOMAIN holidays -> Holiday]
    /\ holidayCalls \in [HolidayCalls -> HolidayCall]
    /\ \A c \in HolidayCalls :
          LET me == holidayCalls[c] IN
          /\ me.op \in {"read", "sync"} =>
                me.year \in HolidayYears /\ me.todo \subseteq EventsOf(me.year)
          /\ me.op = "update" =>
                me.id \in HolidayIds /\ me.start \in Int /\ me.end \in Int
    /\ imported \subseteq HolidayYears
    /\ crowded \subseteq HolidayYears
    /\ withdrawn \subseteq Source
    /\ holidayRequests \in Nat
    /\ holidayFaults \in Nat

\* Unless two imports of a year were under way at once, each event of it is
\* there once: a year is not imported again over what is left of an import
\* cut short, and an event is not inserted for another call to insert again.
EventOnce ==
    \A i, j \in DOMAIN holidays :
        /\ holidays[i].source = holidays[j].source
        /\ holidays[i].source # NoDate
        /\ holidays[i].source[1] \notin crowded
        => i = j

\* A year that an import has begun for is whole: an event that is not there
\* is about to be inserted, was lost to a fault, or was edited or removed.
YearWhole ==
    \A y \in imported : \A e \in EventsOf(y) :
        \/ \E i \in DOMAIN holidays : holidays[i].source = <<y, e>>
        \/ \E c \in ImportersOf(y) : e \in holidayCalls[c].todo
        \/ <<y, e>> \in withdrawn

\* The webhook lists the same days of an imported holiday as isHoliday says
\* of their hours in Ecuador, and every date of the event is one of them.
ListedDaysAreHolidays ==
    \A i \in DOMAIN holidays :
        LET h == holidays[i] IN
        h.source # NoDate =>
            /\ DatesOf(h.source[1], h.source[2]) \subseteq WebhookDays(h)
            /\ WebhookDays(h) = {(hour + Ecuador) \div 24 :
                    hour \in {x \in h.start .. h.end : isHoliday(h, x)}}

-----------------------------------------------------------------------------

\* What an import may rely on: it is the only one of its year, and what it
\* has yet to insert is not there.
ImportAlone ==
    \A c \in HolidayCalls : \A y \in HolidayYears \ crowded :
        c \in ImportersOf(y) =>
            /\ ImportersOf(y) = {c}
            /\ \A i \in DOMAIN holidays, e \in holidayCalls[c].todo :
                  holidays[i].source # <<y, e>>

\* Imported holidays are as they were formatted, so that they are of the year
\* they were imported for.
ImportedAsFormatted ==
    \A i \in DOMAIN holidays :
        LET h == holidays[i] IN
        h.source # NoDate =>
            /\ h.source[2] \in EventsOf(h.source[1])
            /\ h = Formatted(h.source[1], h.source[2])
            /\ YearOf(h.start) = h.source[1]

\* The inductive invariant.
HolidayInv ==
    /\ HolidayTypeOK
    /\ ImportAlone
    /\ ImportedAsFormatted
    /\ EventOnce
    /\ YearWhole
=============================================================================
