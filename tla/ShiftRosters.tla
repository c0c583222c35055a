---------------------------- MODULE ShiftRosters ----------------------------
(***************************************************************************)
(* Rosters with their users and shift types, as kept by                    *)
(* src/src/modules/shift-roster/shift-roster.service.ts.                   *)
(*                                                                         *)
(* create and the last statement of update write the roster along with its *)
(* new rows in one transaction of Prisma.  update deletes the old rows     *)
(* before, in statements of their own, so that updates interleave and may  *)
(* be cut short in between.  The tables of users and of types have no      *)
(* unique key, and foreign keys that keep a roster with rows from being    *)
(* deleted.  Names, dates and the area, which users are checked against,   *)
(* are left out.                                                           *)
(***************************************************************************)
EXTENDS Integers

CONSTANTS
    RosterIds,
    RosterUsers,
    RosterTypes,
    RosterCalls,      \* slots for the updates in flight
    RosterBodies,     \* what clients ask for
    NotGiven,         \* a list that is not in the body
    MaxRosterRequests,\* bound on the requests
    MaxRosterCuts     \* bound on the updates cut short

Lists == {"users", "types"}

Items(k) == IF k = "users" THEN RosterUsers ELSE RosterTypes

ASSUME RosterAssumption ==
    /\ \A b \in RosterBodies :
          /\ DOMAIN b = Lists
          /\ \A k \in Lists : b[k] = NotGiven \/ b[k] \subseteq Items(k)
    /\ \A k \in Lists : \A S \in SUBSET Items(k) : S # NotGiven
    /\ MaxRosterRequests \in Nat
    /\ MaxRosterCuts \in Nat

VARIABLES
    rosters,        \* the ids of the rosters there are
    rosterRows,     \* rows: a roster, a list, an item; no is the request
    rosterCalls,    \* the updates in flight
    rosterAsked,    \* history: the lists last written, by the ids ever given
    settledLists,   \* history: lists last written by an update alone with them
    rosterRequests, \* history: the number of requests so far
    rosterCuts      \* history: the number of updates cut short so far

rosterVars == <<rosters, rosterRows, rosterCalls, rosterAsked, settledLists,
                rosterRequests, rosterCuts>>

\* alone is a history: the lists no other update in flight has been given.
IdleUpdate == [pc |-> "idle", id |-> NotGiven, body |-> NotGiven,
               alone |-> {}, no |-> 0]

RosterInit ==
    /\ rosters = {}
    /\ rosterRows = {}
    /\ rosterCalls = [c \in RosterCalls |-> IdleUpdate]
    /\ rosterAsked = [r \in {} |-> NotGiven]
    /\ settledLists = {}
    /\ rosterRequests = 0
    /\ rosterCuts = 0

-----------------------------------------------------------------------------

Given(b) == {k \in Lists : b[k] # NotGiven}

RowsFor(r, k) == {x \in rosterRows : x.roster = r /\ x.list = k}

NewRows(r, b, no) ==
    UNION {{[roster |-> r, list |-> k, item |-> i, no |-> no] : i \in b[k]} :
               k \in Given(b)}

RequestRoster ==
    /\ rosterRequests < MaxRosterRequests
    /\ rosterRequests' = rosterRequests + 1

\* A roster without users may be created, one without a list of types not.
CreateRoster(r, b) ==
    /\ RequestRoster
    /\ r \in RosterIds \ DOMAIN rosterAsked
    /\ "types" \in Given(b)
    /\ rosters' = rosters \cup {r}
    /\ rosterRows' = rosterRows \cup NewRows(r, b, rosterRequests)
    /\ rosterAsked' = [q \in DOMAIN rosterAsked \cup {r} |->
          IF q = r THEN [k \in Lists |-> IF k \in Given(b) THEN b[k] ELSE {}]
          ELSE rosterAsked[q]]
    /\ settledLists' = settledLists \cup ({r} \X Lists)
    /\ UNCHANGED <<rosterCalls, rosterCuts>>

\* The updates of a roster in flight, and the lists they have been given.
Updating(r) ==
    {c \in RosterCalls : rosterCalls[c].pc # "idle" /\ rosterCalls[c].id = r}

UnderUpdate(r) == UNION {Given(rosterCalls[c].body) : c \in Updating(r)}

\* Mutant: the types a roster has are not deleted.
NextPointForUsers(b, k) ==
    IF k = "find" /\ "users" \in Given(b) THEN "users" ELSE "write"

\* The users are deleted first, then the types; a list not given is kept.
NextPoint(b, k) ==
    IF k = "find" /\ "users" \in Given(b) THEN "users"
    ELSE IF k # "types" /\ "types" \in Given(b) THEN "types"
    ELSE "write"

BeginRosterUpdate(c, r, b) ==
    /\ rosterCalls[c].pc = "idle"
    /\ RequestRoster
    /\ r \in rosters
    /\ rosterCalls' = [d \in RosterCalls |->
          IF d = c
          THEN [pc |-> NextPoint(b, "find"), id |-> r, body |-> b,
                alone |-> Given(b) \ UnderUpdate(r), no |-> rosterRequests]
          ELSE IF d \in Updating(r)
          THEN [rosterCalls[d] EXCEPT !.alone = @ \ Given(b)]
          ELSE rosterCalls[d]]
    /\ UNCHANGED <<rosters, rosterRows, rosterAsked, settledLists, rosterCuts>>

DeleteList(c) ==
    LET me == rosterCalls[c] IN
    /\ me.pc \in Lists
    /\ rosterRows' = rosterRows \ RowsFor(me.id, me.pc)
    /\ settledLists' = settledLists \ {<<me.id, me.pc>>}
    /\ rosterCalls' = [rosterCalls EXCEPT
          ![c] = [@ EXCEPT !.pc = NextPoint(me.body, me.pc)]]
    /\ UNCHANGED <<rosters, rosterAsked, rosterRequests, rosterCuts>>

\* The update of the roster with its new rows, or none if it has been removed.
WriteRoster(c) ==
    LET me == rosterCalls[c] IN
    /\ me.pc = "write"
    /\ IF me.id \in rosters
       THEN /\ rosterRows' = rosterRows \cup NewRows(me.id, me.body, me.no)
            /\ rosterAsked' = [rosterAsked EXCEPT ![me.id] =
                  [k \in Lists |-> IF k \in Given(me.body) THEN me.body[k]
                                   ELSE @[k]]]
            /\ settledLists' = (settledLists \ ({me.id} \X Given(me.body)))
                                  \cup ({me.id} \X me.alone)
       ELSE UNCHANGED <<rosterRows, rosterAsked, settledLists>>
    /\ rosterCalls' = [rosterCalls EXCEPT ![c] = IdleUpdate]
    /\ UNCHANGED <<rosters, rosterRequests, rosterCuts>>

\* Mutant: the rows of a roster go with it.
RemoveRosterWithRows(r) ==
    /\ RequestRoster
    /\ r \in rosters
    /\ rosters' = rosters \ {r}
    /\ rosterRows' = {x \in rosterRows : x.roster # r}
    /\ UNCHANGED <<rosterCalls, rosterAsked, settledLists, rosterCuts>>

\* The foreign keys turn the removal of a roster with rows down.
RemoveRoster(r) ==
    /\ RequestRoster
    /\ r \in rosters
    /\ \A x \in rosterRows : x.roster # r
    /\ rosters' = rosters \ {r}
    /\ UNCHANGED <<rosterRows, rosterCalls, rosterAsked, settledLists,
                   rosterCuts>>

\* A fault: a statement fails or the server stops.
CutRosterUpdate(c) ==
    /\ rosterCalls[c].pc # "idle"
    /\ rosterCuts < MaxRosterCuts
    /\ rosterCalls' = [rosterCalls EXCEPT ![c] = IdleUpdate]
    /\ rosterCuts' = rosterCuts + 1
    /\ UNCHANGED <<rosters, rosterRows, rosterAsked, settledLists,
                   rosterRequests>>

RosterNext ==
    \/ \E r \in RosterIds : \/ \E b \in RosterBodies : CreateRoster(r, b)
                            \/ RemoveRoster(r)
    \/ \E c \in RosterCalls :
          \/ \E r \in RosterIds, b \in RosterBodies : BeginRosterUpdate(c, r, b)
          \/ DeleteList(c)
          \/ WriteRoster(c)
          \/ CutRosterUpdate(c)

RosterSpec == RosterInit /\ [][RosterNext]_rosterVars

-----------------------------------------------------------------------------
(* Properties *)

\* The list is the one last written, every item once.
AsAsked(r, k) ==
    /\ {x.item : x \in RowsFor(r, k)} = rosterAsked[r][k]
    /\ \A x, y \in RowsFor(r, k) : x.item = y.item => x = y

\* No row is of a roster that is gone, and a list of a roster is the one last
\* written, every item once, unless an update has deleted it and not written it
\* yet, was cut short in between, or overlapped another that was given the list:
\* an update without a list does not touch it, and updates of different lists
\* do not disturb each other.
ListsAsAsked ==
    /\ \A x \in rosterRows : x.roster \in rosters
    /\ \A s \in settledLists : s[1] \in rosters => AsAsked(s[1], s[2])

\* A roster that was given users or types is removed only while an update has
\* deleted them, or after one was cut short or overlapped: the keys of the
\* database keep the others.
RemovedOnlyHollow ==
    [][\A r \in rosters \ rosters', k \in Lists :
          <<r, k>> \in settledLists => rosterAsked[r][k] = {}]_rosterVars

-----------------------------------------------------------------------------

\* An update, idle or in flight.
RosterUpdate ==
    [pc : Lists \cup {"idle", "write"}, id : RosterIds \cup {NotGiven},
     body : RosterBodies \cup {NotGiven}, alone : SUBSET Lists, no : Nat]

RosterTypeOK ==
    /\ DOMAIN rosterAsked \subseteq RosterIds
    /\ rosters \subseteq DOMAIN rosterAsked
    /\ \A r \in DOMAIN rosterAsked :
          rosterAsked[r] \in [Lists -> SUBSET (RosterUsers \cup RosterTypes)]
    /\ settledLists \subseteq (DOMAIN rosterAsked) \X Lists
    /\ rosterCalls \in [RosterCalls -> RosterUpdate]
    /\ \A c \in RosterCalls : rosterCalls[c].pc # "idle" =>
          /\ rosterCalls[c].id \in DOMAIN rosterAsked
          /\ rosterCalls[c].body \in RosterBodies
    /\ rosterRequests \in Nat

\* The lists an update has been through.
Through(call) ==
    CASE call.pc = "types" -> {"users"} [] call.pc = "write" -> Lists
      [] OTHER -> {}

\* A list an update alone with it has been through is empty until it is
\* written, and no other update has been given the list.
UpdateOK(r, c) ==
    LET call == rosterCalls[c]
    IN  /\ call.pc \in Lists => call.pc \in Given(call.body)
        /\ call.alone \subseteq Given(call.body)
        /\ \A k \in call.alone :
              /\ k \in Through(call) => RowsFor(r, k) = {}
              /\ \A d \in Updating(r) \ {c} :
                    k \notin Given(rosterCalls[d].body)

\* The inductive invariant.
RosterInv ==
    /\ RosterTypeOK
    /\ ListsAsAsked
    /\ \A r \in DOMAIN rosterAsked : \A c \in Updating(r) : UpdateOK(r, c)

=============================================================================
