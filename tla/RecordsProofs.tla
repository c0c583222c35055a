---------------------------- MODULE RecordsProofs ---------------------------
(***************************************************************************)
(* Four of the services of the records, for any number of users, rows,     *)
(* calls, lists and steps of clients.                                      *)
(*                                                                         *)
(* Levels and rosters are deleted and written again in statements of their *)
(* own: the invariants tell what an update that is alone with a list finds *)
(* when it writes (LevelInv, RosterInv).  SeedInv tells what a run has     *)
(* been over.                                                              *)
(*                                                                         *)
(* For the permissions of a request, the Map holds the first of the least  *)
(* permissions of each group among those the loop has been over (lemma     *)
(* ScanStep); Better agrees with the order of ranks although the two       *)
(* defaults for null differ (lemma BetterIsLess).  The answer of the       *)
(* handler follows from it at the end of the loop.                         *)
(***************************************************************************)
EXTENDS RequestPermissions, UserTechnicalLevels, ShiftRosters, Seed,
        SequenceTheorems, TLAPS

-----------------------------------------------------------------------------
(* Technical levels. *)

LEMMA InitLevels == LevelInit => LevelInv
<1> SUFFICES ASSUME LevelInit PROVE LevelInv
  OBVIOUS
<1>1. \A u : LevelsOf(u) = {}
  BY DEF LevelInit, LevelsOf
<1>2. \A u : SettingLevelOf(u) = {}
  BY DEF LevelInit, SettingLevelOf
<1>3. LevelTypeOK
  BY DEF LevelInit, LevelTypeOK
<1>4. LevelAsAsked
  BY <1>1 DEF LevelInit, LevelAsAsked
<1> QED
  BY <1>2, <1>3, <1>4 DEF LevelInv

\* What a call in flight holds.
LEMMA InFlight ==
    ASSUME LevelTypeOK, NEW c \in LevelCalls, levelCalls[c] # NoLevel
    PROVE  \E u \in LevelUsers, l \in Levels, a \in BOOLEAN :
              /\ levelCalls[c] = [user |-> u, level |-> l, alone |-> a]
              /\ c \in SettingLevelOf(u)
<1>1. levelCalls[c] \in LevelCall
  BY DEF LevelTypeOK
<1> QED
  BY <1>1 DEF LevelCall, SettingLevelOf

\* create deletes what the user has and takes the others' calls by surprise.
LEMMA DeleteLevelsInv ==
    ASSUME LevelInv, NEW c \in LevelCalls, NEW u \in LevelUsers,
           NEW l \in Levels, DeleteLevels(c, u, l)
    PROVE  LevelInv'
<1> DEFINE a == SettingLevelOf(u) = {}
           new == [user |-> u, level |-> l, alone |-> a]
           told(d) == [levelCalls[d] EXCEPT !.alone = FALSE]
<1>1. /\ levelCalls[c] = NoLevel
      /\ levels' = levels \ LevelsOf(u)
      /\ settledUsers' = settledUsers \ {u}
      /\ levelAsked' = levelAsked
      /\ levelCalls' = [d \in LevelCalls |->
            IF d = c THEN new
            ELSE IF d \in SettingLevelOf(u) THEN told(d)
            ELSE levelCalls[d]]
  BY DEF DeleteLevels
<1>2. LevelTypeOK /\ LevelAsAsked
  BY DEF LevelInv
<1>3. new \in LevelCall /\ new # NoLevel /\ new.user = u /\ (new.alone <=> a)
  <2>1. a \in BOOLEAN
    OBVIOUS
  <2> HIDE DEF a
  <2> QED
    BY <2>1, LevelAssumption DEF LevelCall
<1>4. ASSUME NEW d \in SettingLevelOf(u)
      PROVE  /\ told(d) \in LevelCall /\ told(d) # NoLevel
             /\ told(d).user = u /\ told(d).alone = FALSE
  <2>1. levelCalls[d] \in LevelCall /\ levelCalls[d].user = u
    BY <1>2 DEF SettingLevelOf, LevelTypeOK
  <2> QED
    BY <2>1, LevelAssumption DEF LevelCall
<1>5. /\ levelCalls'[c] = new
      /\ \A d \in SettingLevelOf(u) : d # c /\ levelCalls'[d] = told(d)
      /\ \A d \in LevelCalls :
            d # c /\ d \notin SettingLevelOf(u) =>
               levelCalls'[d] = levelCalls[d]
  BY <1>1 DEF SettingLevelOf
<1>6. LevelTypeOK'
  <2>1. levelCalls' \in [LevelCalls -> LevelCall \cup {NoLevel}]
    <3> HIDE DEF new, told
    <3> QED
      BY <1>1, <1>2, <1>3, <1>4 DEF LevelTypeOK
  <2> QED
    BY <1>1, <1>2, <2>1 DEF LevelTypeOK
<1>7. LevelsOf(u)' = {} /\ \A v : v # u => LevelsOf(v)' = LevelsOf(v)
  BY <1>1 DEF LevelsOf
<1>8. LevelAsAsked'
  BY <1>1, <1>2, <1>7 DEF LevelAsAsked
<1>9. /\ SettingLevelOf(u)' = SettingLevelOf(u) \cup {c}
      /\ \A v : v # u => SettingLevelOf(v)' = SettingLevelOf(v)
  <2> HIDE DEF new, told
  <2> QED
    BY <1>1, <1>3, <1>4, <1>5 DEF SettingLevelOf
<1>10. ASSUME NEW v \in LevelUsers, NEW d \in SettingLevelOf(v)'
       PROVE  /\ v \notin settledUsers'
              /\ levelCalls'[d].alone =>
                   SettingLevelOf(v)' = {d} /\ LevelsOf(v)' = {}
  <2>1. CASE v # u
    <3>1. d \in SettingLevelOf(v)
      BY <1>9, <2>1
    <3>2. levelCalls'[d] = levelCalls[d]
      BY <1>1, <1>5, <2>1, <3>1 DEF SettingLevelOf
    <3> QED
      BY <1>1, <1>7, <1>9, <2>1, <3>1, <3>2 DEF LevelInv
  <2>2. CASE v = u /\ d = c
    <3>1. levelCalls'[d].alone => a
      BY <1>3, <1>5, <2>2
    <3> QED
      BY <1>1, <1>7, <1>9, <2>2, <3>1
  <2>3. CASE v = u /\ d # c
    <3>1. ~levelCalls'[d].alone
      BY <1>4, <1>5, <1>9, <2>3
    <3> QED
      BY <1>1, <2>3, <3>1
  <2> QED
    BY <2>1, <2>2, <2>3
<1> QED
  BY <1>6, <1>8, <1>10 DEF LevelInv

\* A call that answers: the others' stay as they are.
LEMMA CallEnds ==
    ASSUME NEW c \in LevelCalls, LevelTypeOK,
           levelCalls' = [levelCalls EXCEPT ![c] = NoLevel]
    PROVE  /\ levelCalls' \in [LevelCalls -> LevelCall \cup {NoLevel}]
           /\ levelCalls'[c] = NoLevel
           /\ \A d \in LevelCalls \ {c} : levelCalls'[d] = levelCalls[d]
           /\ \A v : SettingLevelOf(v)' = SettingLevelOf(v) \ {c}
BY DEF LevelTypeOK, SettingLevelOf

LEMMA InsertLevelInv ==
    ASSUME LevelInv, NEW c \in LevelCalls, InsertLevel(c)
    PROVE  LevelInv'
<1>1. LevelTypeOK /\ LevelAsAsked /\ levelCalls[c] # NoLevel
  BY DEF InsertLevel, LevelInv
<1>2. PICK u \in LevelUsers, l \in Levels, a \in BOOLEAN :
         /\ levelCalls[c] = [user |-> u, level |-> l, alone |-> a]
         /\ c \in SettingLevelOf(u)
  BY <1>1, InFlight
<1>3. /\ levelCalls' = [levelCalls EXCEPT ![c] = NoLevel]
      /\ IF <<u, l>> \in levels
         THEN UNCHANGED <<levels, levelAsked, settledUsers>>
         ELSE /\ levels' = levels \cup {<<u, l>>}
              /\ levelAsked' = [levelAsked EXCEPT ![u] = l]
              /\ settledUsers' = IF a THEN settledUsers \cup {u}
                                 ELSE settledUsers
  BY <1>2 DEF InsertLevel
<1>4. /\ u \notin settledUsers
      /\ a => SettingLevelOf(u) = {c} /\ LevelsOf(u) = {}
      /\ l # NoLevel
  BY <1>2, LevelAssumption DEF LevelInv
<1>5. ASSUME NEW v \in LevelUsers, NEW d \in SettingLevelOf(v)'
      PROVE  d \in SettingLevelOf(v) /\ d # c /\ levelCalls'[d] = levelCalls[d]
  BY <1>1, <1>3, <1>5, CallEnds DEF SettingLevelOf
<1>6. CASE <<u, l>> \in levels
  <2>1. UNCHANGED <<levels, levelAsked, settledUsers>>
    BY <1>3, <1>6
  <2>2. \A v : LevelsOf(v)' = LevelsOf(v)
    BY <2>1 DEF LevelsOf
  <2>3. LevelTypeOK' /\ LevelAsAsked'
    BY <1>1, <1>3, <2>1, <2>2, CallEnds DEF LevelTypeOK, LevelAsAsked
  <2> QED
    BY <1>1, <1>3, <1>5, <2>1, <2>2, <2>3, CallEnds DEF LevelInv
<1>7. CASE <<u, l>> \notin levels
  <2>1. /\ levels' = levels \cup {<<u, l>>}
        /\ levelAsked' = [levelAsked EXCEPT ![u] = l]
        /\ settledUsers' = IF a THEN settledUsers \cup {u} ELSE settledUsers
    BY <1>3, <1>7
  <2>2. /\ LevelsOf(u)' = LevelsOf(u) \cup {<<u, l>>}
        /\ \A v : v # u => LevelsOf(v)' = LevelsOf(v)
    BY <2>1 DEF LevelsOf
  <2>3. /\ levelAsked'[u] = l
        /\ \A v \in LevelUsers : v # u => levelAsked'[v] = levelAsked[v]
    BY <1>1, <1>2, <2>1 DEF LevelTypeOK
  <2>4. LevelTypeOK'
    BY <1>1, <1>2, <1>3, <2>1, CallEnds DEF LevelTypeOK
  <2>5. LevelAsAsked'
    <3> SUFFICES ASSUME NEW v \in settledUsers'
                 PROVE  LevelsOf(v)' = IF levelAsked'[v] = NoLevel THEN {}
                                       ELSE {<<v, levelAsked'[v]>>}
      BY DEF LevelAsAsked
    <3>1. v \in LevelUsers
      BY <2>4 DEF LevelTypeOK
    <3>2. CASE v = u
      <4>1. a
        BY <1>4, <2>1, <3>2
      <4> QED
        BY <1>4, <2>2, <2>3, <3>2, <4>1
    <3>3. CASE v # u
      BY <1>1, <2>1, <2>2, <2>3, <3>1, <3>3 DEF LevelAsAsked
    <3> QED
      BY <3>2, <3>3
  <2>6. ASSUME NEW v \in LevelUsers, NEW d \in SettingLevelOf(v)'
        PROVE  /\ v \notin settledUsers'
               /\ levelCalls'[d].alone =>
                    SettingLevelOf(v)' = {d} /\ LevelsOf(v)' = {}
    <3>1. /\ d \in SettingLevelOf(v) /\ d # c /\ levelCalls'[d] = levelCalls[d]
          /\ SettingLevelOf(v)' = SettingLevelOf(v) \ {c}
      BY <1>1, <1>3, <1>5, <2>6, CallEnds
    <3>2. /\ v \notin settledUsers
          /\ levelCalls[d].alone =>
               SettingLevelOf(v) = {d} /\ LevelsOf(v) = {}
      BY <3>1 DEF LevelInv
    <3>3. v = u => ~a /\ ~levelCalls[d].alone
      BY <1>2, <1>4, <3>1, <3>2
    <3> QED
      BY <2>1, <2>2, <3>1, <3>2, <3>3
  <2> QED
    BY <2>4, <2>5, <2>6 DEF LevelInv
<1> QED
  BY <1>6, <1>7

LEMMA RemoveLevelInv ==
    ASSUME LevelInv, NEW x \in LevelUsers \X Levels, RemoveLevel(x)
    PROVE  LevelInv'
<1> DEFINE u == x[1]
<1>1. /\ x \in levels /\ levels' = levels \ {x}
      /\ levelAsked' = IF levelAsked[u] = x[2]
                       THEN [levelAsked EXCEPT ![u] = NoLevel]
                       ELSE levelAsked
      /\ UNCHANGED <<levelCalls, settledUsers>>
      /\ LevelTypeOK /\ LevelAsAsked
  BY DEF RemoveLevel, LevelInv
<1>2. u \in LevelUsers /\ x = <<u, x[2]>> /\ x[2] # NoLevel
  BY LevelAssumption
<1>3. LevelTypeOK'
  BY <1>1, <1>2 DEF LevelTypeOK
<1>4. \A v : LevelsOf(v)' = LevelsOf(v) \ {x}
  BY <1>1 DEF LevelsOf
<1>5. LevelAsAsked'
  <2> SUFFICES ASSUME NEW v \in settledUsers
               PROVE  LevelsOf(v)' = IF levelAsked'[v] = NoLevel THEN {}
                                     ELSE {<<v, levelAsked'[v]>>}
    BY <1>1 DEF LevelAsAsked
  <2>1. v \in LevelUsers
    BY <1>1 DEF LevelTypeOK
  <2>2. LevelsOf(v) = IF levelAsked[v] = NoLevel THEN {}
                      ELSE {<<v, levelAsked[v]>>}
    BY <1>1 DEF LevelAsAsked
  <2>3. CASE v # u
    <3>1. levelAsked'[v] = levelAsked[v] /\ x \notin LevelsOf(v)
      BY <1>1, <1>2, <2>1, <2>3 DEF LevelTypeOK, LevelsOf
    <3> QED
      BY <1>4, <2>2, <3>1
  <2>4. CASE v = u
    <3>1. x \in LevelsOf(v)
      BY <1>1, <1>2, <2>4 DEF LevelsOf
    <3>2. x = <<v, levelAsked[v]>> /\ LevelsOf(v) = {x}
      BY <2>2, <3>1
    <3>3. levelAsked[u] = x[2]
      BY <1>2, <2>4, <3>2
    <3>4. levelAsked'[v] = NoLevel
      BY <1>1, <2>1, <2>4, <3>3 DEF LevelTypeOK
    <3> QED
      BY <1>4, <3>2, <3>4
  <2> QED
    BY <2>3, <2>4
<1>6. \A v : SettingLevelOf(v)' = SettingLevelOf(v)
  BY <1>1 DEF SettingLevelOf
<1> QED
  BY <1>1, <1>3, <1>4, <1>5, <1>6 DEF LevelInv

LEMMA CutLevelInv ==
    ASSUME LevelInv, NEW c \in LevelCalls, CutLevelCall(c)
    PROVE  LevelInv'
<1>1. /\ levelCalls[c] # NoLevel
      /\ levelCalls' = [levelCalls EXCEPT ![c] = NoLevel]
      /\ UNCHANGED <<levels, levelAsked, settledUsers>>
      /\ LevelTypeOK /\ LevelAsAsked
  BY DEF CutLevelCall, LevelInv
<1>2. \A v : LevelsOf(v)' = LevelsOf(v)
  BY <1>1 DEF LevelsOf
<1>3. LevelTypeOK' /\ LevelAsAsked'
  BY <1>1, <1>2, CallEnds DEF LevelTypeOK, LevelAsAsked
<1>4. ASSUME NEW v \in LevelUsers, NEW d \in SettingLevelOf(v)'
      PROVE  /\ d \in SettingLevelOf(v) /\ levelCalls'[d] = levelCalls[d]
             /\ SettingLevelOf(v)' = SettingLevelOf(v) \ {c}
  BY <1>1, <1>4, CallEnds DEF SettingLevelOf
<1>5. ASSUME NEW v \in LevelUsers, NEW d \in SettingLevelOf(v)'
      PROVE  /\ v \notin settledUsers'
             /\ levelCalls'[d].alone =>
                  SettingLevelOf(v)' = {d} /\ LevelsOf(v)' = {}
  BY <1>1, <1>2, <1>4, <1>5 DEF LevelInv
<1> QED
  BY <1>3, <1>5 DEF LevelInv

\* A settled user has the level last set, and nobody is setting it.
THEOREM LevelInvariant == LevelSpec => []LevelInv
<1>1. LevelInv /\ [LevelNext]_levelVars => LevelInv'
  <2> SUFFICES ASSUME LevelInv, [LevelNext]_levelVars PROVE LevelInv'
    OBVIOUS
  <2>1. CASE UNCHANGED levelVars
    BY <2>1 DEF levelVars, LevelInv, LevelTypeOK, LevelAsAsked, LevelsOf,
       SettingLevelOf
  <2>2. CASE LevelNext
    BY <2>2, DeleteLevelsInv, InsertLevelInv, CutLevelInv, RemoveLevelInv
       DEF LevelNext
  <2> QED
    BY <2>1, <2>2
<1> QED
  BY <1>1, InitLevels, PTL DEF LevelSpec

\* A user has the level that was set last and no other, unless it is being set,
\* a call was cut short between its two statements, or two overlapped (create,
\* which deletes and inserts without a transaction).
THEOREM LevelsSound == LevelSpec => []LevelAsAsked
<1>1. LevelInv => LevelAsAsked
  BY DEF LevelInv
<1> QED
  BY <1>1, LevelInvariant, PTL

-----------------------------------------------------------------------------
(* Rosters. *)

\* The rows of a list of a request.
ListRows(r, k, b, no) ==
    {[roster |-> r, list |-> k, item |-> i, no |-> no] : i \in b[k]}

LEMMA ListRowsAre ==
    ASSUME NEW r, NEW k, NEW b, NEW no
    PROVE  /\ {x.item : x \in ListRows(r, k, b, no)} = b[k]
           /\ \A x, y \in ListRows(r, k, b, no) : x.item = y.item => x = y
           /\ \A x \in ListRows(r, k, b, no) : x.roster = r /\ x.list = k
<1> DEFINE row(i) == [roster |-> r, list |-> k, item |-> i, no |-> no]
<1>1. \A i : row(i).item = i /\ row(i).roster = r /\ row(i).list = k
  OBVIOUS
<1>2. ListRows(r, k, b, no) = {row(i) : i \in b[k]}
  BY DEF ListRows
<1> HIDE DEF row
<1>3. {x.item : x \in ListRows(r, k, b, no)} = b[k]
  BY <1>1, <1>2
<1> QED
  BY <1>1, <1>2, <1>3

\* The new rows of a request, list by list.
LEMMA Written ==
    ASSUME NEW r, NEW b, NEW no,
           rosterRows' = rosterRows \cup NewRows(r, b, no)
    PROVE  /\ \A x \in rosterRows' : x \in rosterRows \/ x.roster = r
           /\ \A q, k : RowsFor(q, k)' =
                RowsFor(q, k) \cup IF q = r /\ k \in Given(b)
                                   THEN ListRows(r, k, b, no) ELSE {}
<1>1. NewRows(r, b, no) = UNION {ListRows(r, k, b, no) : k \in Given(b)}
  BY DEF NewRows, ListRows
<1>2. \A x : x \in NewRows(r, b, no) <=>
               \E k \in Given(b) : x \in ListRows(r, k, b, no)
  BY <1>1
<1>3. \A k : \A x \in ListRows(r, k, b, no) : x.roster = r /\ x.list = k
  BY ListRowsAre
<1>4. ASSUME NEW q, NEW k
      PROVE  RowsFor(q, k)' =
               RowsFor(q, k) \cup IF q = r /\ k \in Given(b)
                                  THEN ListRows(r, k, b, no) ELSE {}
  <2>1. RowsFor(q, k)' =
          RowsFor(q, k) \cup {x \in NewRows(r, b, no) : x.roster = q /\ x.list = k}
    BY DEF RowsFor
  <2>2. {x \in NewRows(r, b, no) : x.roster = q /\ x.list = k}
          = IF q = r /\ k \in Given(b) THEN ListRows(r, k, b, no) ELSE {}
    BY <1>2, <1>3
  <2> QED
    BY <2>1, <2>2
<1> QED
  BY <1>2, <1>3, <1>4

\* A list whose rows stay and which nobody has written is as asked still.
LEMMA StaysAsAsked ==
    ASSUME NEW r, NEW k, AsAsked(r, k), RowsFor(r, k)' = RowsFor(r, k),
           rosterAsked'[r][k] = rosterAsked[r][k]
    PROVE  AsAsked(r, k)'
BY DEF AsAsked

\* A list that was empty and is written is as asked.
LEMMA WrittenAsAsked ==
    ASSUME NEW r, NEW k, NEW b, NEW no, RowsFor(r, k)' = ListRows(r, k, b, no),
           rosterAsked'[r][k] = b[k]
    PROVE  AsAsked(r, k)'
BY ListRowsAre DEF AsAsked

\* What a body gives.
LEMMA BodyGives ==
    ASSUME NEW b \in RosterBodies
    PROVE  /\ Given(b) \subseteq Lists
           /\ \A k \in Given(b) : b[k] \in SUBSET (RosterUsers \cup RosterTypes)
BY RosterAssumption DEF Given, Items, Lists

\* The order of the statements.
LEMMA PointsAre ==
    ASSUME NEW b \in RosterBodies, NEW k \in Lists \cup {"find"}
    PROVE  LET p == NextPoint(b, k)
           IN  /\ p \in Lists \cup {"write"} /\ p # "idle"
               /\ p \in Lists => p \in Given(b)
               /\ k = "find" /\ p = "types" => "users" \notin Given(b)
               /\ k = "find" /\ p = "write" => Given(b) = {}
               /\ k = "users" => p # "users"
               /\ k = "users" /\ p = "write" => "types" \notin Given(b)
               /\ k = "types" => p = "write"
BY BodyGives DEF NextPoint, Lists, Given

LEMMA IdleIsUpdate == IdleUpdate \in RosterUpdate /\ IdleUpdate.pc = "idle"
BY DEF IdleUpdate, RosterUpdate

LEMMA InitRosters == RosterInit => RosterInv
<1> SUFFICES ASSUME RosterInit PROVE RosterInv
  OBVIOUS
<1>1. RosterTypeOK
  BY IdleIsUpdate DEF RosterInit, RosterTypeOK
<1>2. DOMAIN rosterAsked = {}
  BY DEF RosterInit
<1> QED
  BY <1>1, <1>2 DEF RosterInit, RosterInv, ListsAsAsked

\* An update that may go on after a step of another: nobody has been given a
\* list it is alone with, no list has got rows.
LEMMA OthersKept ==
    ASSUME NEW r \in DOMAIN rosterAsked, NEW c \in Updating(r), UpdateOK(r, c),
           rosterCalls'[c] = rosterCalls[c],
           \A d \in Updating(r)' \ {c} :
              /\ d \in Updating(r)
              /\ rosterCalls'[d].body = rosterCalls[d].body,
           \A k \in rosterCalls[c].alone :
              RowsFor(r, k) = {} => RowsFor(r, k)' = {}
    PROVE  UpdateOK(r, c)'
<1> DEFINE call == rosterCalls[c]
<1>1. \A k \in call.alone : k \in Through(call) => RowsFor(r, k)' = {}
  BY DEF UpdateOK
<1>2. \A k \in call.alone : \A d \in Updating(r)' \ {c} :
         k \notin Given(rosterCalls'[d].body)
  BY DEF UpdateOK
<1>3. call.alone \subseteq Given(call.body)
  BY DEF UpdateOK
<1>4. call.pc \in Lists => call.pc \in Given(call.body)
  BY DEF UpdateOK
<1> QED
  BY <1>1, <1>2, <1>3, <1>4 DEF UpdateOK, Through, Given

LEMMA CreateRosterInv ==
    ASSUME RosterInv, NEW r \in RosterIds, NEW b \in RosterBodies,
           CreateRoster(r, b)
    PROVE  RosterInv'
<1> DEFINE list(k) == IF k \in Given(b) THEN b[k] ELSE {}
<1>1. /\ r \notin DOMAIN rosterAsked
      /\ rosters' = rosters \cup {r}
      /\ rosterRows' = rosterRows \cup NewRows(r, b, rosterRequests)
      /\ rosterAsked' = [q \in DOMAIN rosterAsked \cup {r} |->
            IF q = r THEN [k \in Lists |-> list(k)] ELSE rosterAsked[q]]
      /\ settledLists' = settledLists \cup ({r} \X Lists)
      /\ UNCHANGED rosterCalls
      /\ rosterRequests' = rosterRequests + 1
  BY DEF CreateRoster, RequestRoster
<1>2. RosterTypeOK /\ ListsAsAsked
  BY DEF RosterInv
<1>3. /\ \A k : list(k) \in SUBSET (RosterUsers \cup RosterTypes)
      /\ rosterAsked'[r] = [k \in Lists |-> list(k)]
      /\ \A q \in DOMAIN rosterAsked : rosterAsked'[q] = rosterAsked[q]
  BY <1>1, BodyGives
<1>4. RosterTypeOK'
  BY <1>1, <1>2, <1>3 DEF RosterTypeOK
<1>5. PICK no : no = rosterRequests
  OBVIOUS
<1>6. /\ \A x \in rosterRows' : x \in rosterRows \/ x.roster = r
      /\ \A q, k : RowsFor(q, k)' =
            RowsFor(q, k) \cup IF q = r /\ k \in Given(b)
                               THEN ListRows(r, k, b, no) ELSE {}
  BY <1>1, <1>5, Written
<1>7. \A k : RowsFor(r, k) = {}
  BY <1>1, <1>2 DEF ListsAsAsked, RosterTypeOK, RowsFor
<1>8. ListsAsAsked'
  <2>1. \A x \in rosterRows' : x.roster \in rosters'
    BY <1>1, <1>2, <1>6 DEF ListsAsAsked
  <2>2. ASSUME NEW q, NEW k, <<q, k>> \in settledLists', q \in rosters'
        PROVE  AsAsked(q, k)'
    <3>1. CASE q = r
      <4>1. k \in Lists /\ rosterAsked'[q][k] = list(k)
        BY <1>1, <1>2, <1>3, <2>2, <3>1 DEF RosterTypeOK
      <4>2. CASE k \in Given(b)
        BY <1>6, <1>7, <3>1, <4>1, <4>2, WrittenAsAsked
      <4>3. CASE k \notin Given(b)
        BY <1>6, <1>7, <3>1, <4>1, <4>3 DEF AsAsked
      <4> QED
        BY <4>2, <4>3
    <3>2. CASE q # r
      <4>1. <<q, k>> \in settledLists /\ q \in rosters
        BY <1>1, <2>2, <3>2
      <4>2. AsAsked(q, k)
        BY <1>2, <4>1 DEF ListsAsAsked
      <4>3. RowsFor(q, k)' = RowsFor(q, k)
        BY <1>6, <3>2
      <4>4. rosterAsked'[q][k] = rosterAsked[q][k]
        BY <1>2, <1>3, <4>1 DEF RosterTypeOK
      <4> QED
        BY <4>2, <4>3, <4>4, StaysAsAsked
    <3> QED
      BY <3>1, <3>2
  <2>3. \A s \in settledLists' : \E q, k : s = <<q, k>>
    BY <1>4 DEF RosterTypeOK
  <2> QED
    BY <2>1, <2>2, <2>3 DEF ListsAsAsked
<1>9. ASSUME NEW q \in DOMAIN rosterAsked', NEW c \in Updating(q)'
      PROVE  UpdateOK(q, c)'
  <2>1. c \in Updating(q) /\ q \in DOMAIN rosterAsked /\ q # r
    BY <1>1, <1>2 DEF Updating, RosterTypeOK
  <2>2. UpdateOK(q, c)
    BY <2>1 DEF RosterInv
  <2>3. \A k : RowsFor(q, k)' = RowsFor(q, k)
    BY <1>6, <2>1
  <2> QED
    BY <1>1, <2>1, <2>2, <2>3, OthersKept DEF Updating
<1> QED
  BY <1>4, <1>8, <1>9 DEF RosterInv

\* What an update in flight holds.
LEMMA UpdateIs ==
    ASSUME RosterInv, NEW c \in RosterCalls, rosterCalls[c].pc # "idle"
    PROVE  \E r \in DOMAIN rosterAsked, b \in RosterBodies :
              /\ rosterCalls[c].id = r /\ rosterCalls[c].body = b
              /\ r \in RosterIds
              /\ c \in Updating(r) /\ UpdateOK(r, c)
              /\ rosterCalls[c] \in RosterUpdate
BY DEF RosterInv, RosterTypeOK, Updating

\* An update begins: the others in flight are alone with their lists no more.
LEMMA BeginUpdateRosterInv ==
    ASSUME RosterInv, NEW c \in RosterCalls, NEW r \in RosterIds,
           NEW b \in RosterBodies, BeginRosterUpdate(c, r, b)
    PROVE  RosterInv'
<1> DEFINE p == NextPoint(b, "find")
           alone == Given(b) \ UnderUpdate(r)
           no == rosterRequests
           new == [pc |-> p, id |-> r, body |-> b, alone |-> alone, no |-> no]
           told(d) == [rosterCalls[d] EXCEPT !.alone = @ \ Given(b)]
<1>1. /\ rosterCalls[c].pc = "idle" /\ r \in rosters
      /\ UNCHANGED <<rosters, rosterRows, rosterAsked, settledLists>>
      /\ rosterRequests' = rosterRequests + 1
      /\ rosterCalls' = [d \in RosterCalls |->
            IF d = c THEN new
            ELSE IF d \in Updating(r) THEN told(d) ELSE rosterCalls[d]]
  BY DEF BeginRosterUpdate, RequestRoster
<1>2. RosterTypeOK /\ ListsAsAsked /\ r \in DOMAIN rosterAsked
  BY <1>1 DEF RosterInv, RosterTypeOK
<1>3. new \in RosterUpdate
  <2>1. p \in Lists \cup {"write"} /\ alone \in SUBSET Lists /\ no \in Nat
    BY <1>2, PointsAre, BodyGives DEF RosterTypeOK
  <2> HIDE DEF p, alone, no
  <2> QED
    BY <2>1 DEF RosterUpdate
<1>4. ASSUME NEW d \in Updating(r)
      PROVE  /\ told(d) \in RosterUpdate /\ told(d).id = r
             /\ told(d).pc = rosterCalls[d].pc
             /\ told(d).body = rosterCalls[d].body
             /\ told(d).alone = rosterCalls[d].alone \ Given(b)
  <2>1. rosterCalls[d] \in RosterUpdate /\ rosterCalls[d].id = r
    BY <1>2 DEF Updating, RosterTypeOK
  <2> QED
    BY <2>1 DEF RosterUpdate
<1>5. /\ new.pc = p /\ new.id = r /\ new.body = b /\ new.alone = alone
      /\ p # "idle"
  BY PointsAre
<1> HIDE DEF new, told
<1>6. /\ rosterCalls'[c] = new
      /\ \A d \in RosterCalls \ {c} : rosterCalls'[d] =
            IF d \in Updating(r) THEN told(d) ELSE rosterCalls[d]
  BY <1>1
<1>7. RosterTypeOK'
  <2>1. rosterCalls' \in [RosterCalls -> RosterUpdate]
    BY <1>1, <1>2, <1>3, <1>4 DEF RosterTypeOK
  <2>2. ASSUME NEW d \in RosterCalls, rosterCalls'[d].pc # "idle"
        PROVE  /\ rosterCalls'[d].id \in DOMAIN rosterAsked
               /\ rosterCalls'[d].body \in RosterBodies
    BY <1>2, <1>4, <1>5, <1>6, <2>2 DEF RosterTypeOK, Updating
  <2> QED
    BY <1>1, <1>2, <2>1, <2>2 DEF RosterTypeOK
<1>8. \A q, k : RowsFor(q, k)' = RowsFor(q, k)
  BY <1>1 DEF RowsFor
<1>9. ListsAsAsked'
  BY <1>1, <1>2, <1>8 DEF ListsAsAsked, AsAsked
<1>10. /\ c \notin Updating(r)
       /\ Updating(r)' = Updating(r) \cup {c}
       /\ \A q : q # r => Updating(q)' = Updating(q)
  BY <1>1, <1>4, <1>5, <1>6 DEF Updating
<1>11. UpdateOK(r, c)'
  <2>1. p \in Lists => p \in Given(b)
    BY PointsAre
  <2>2. ASSUME NEW k \in alone PROVE k \notin Through(new)
    <3>1. k \in Given(b)
      BY <2>2
    <3> QED
      BY <1>5, <3>1, PointsAre DEF Through, Lists
  <2>3. ASSUME NEW k \in alone, NEW d \in Updating(r)' \ {c}
        PROVE  k \notin Given(rosterCalls'[d].body)
    <3>1. d \in Updating(r) /\ d \in RosterCalls
      BY <1>10, <2>3 DEF Updating
    <3>2. rosterCalls'[d].body = rosterCalls[d].body
      BY <1>4, <1>6, <2>3, <3>1
    <3>3. k \notin UnderUpdate(r)
      BY <2>3
    <3> QED
      BY <3>1, <3>2, <3>3 DEF UnderUpdate
  <2>4. alone \subseteq Given(b)
    OBVIOUS
  <2> HIDE DEF p, alone
  <2> QED
    BY <1>5, <1>6, <2>1, <2>2, <2>3, <2>4 DEF UpdateOK, Through, Given
<1>12. ASSUME NEW d \in Updating(r)
       PROVE  UpdateOK(r, d)'
  <2>1. UpdateOK(r, d) /\ d # c /\ d \in RosterCalls
    BY <1>2, <1>10 DEF RosterInv, Updating
  <2>2. rosterCalls'[d] = told(d)
    BY <1>6, <2>1
  <2>3. ASSUME NEW k \in told(d).alone, NEW e \in Updating(r)' \ {d}
        PROVE  k \notin Given(rosterCalls'[e].body)
    <3>1. k \in rosterCalls[d].alone /\ k \notin Given(b)
      BY <1>4, <2>3
    <3>2. CASE e = c
      BY <1>5, <1>6, <3>1, <3>2
    <3>3. CASE e # c
      <4>1. e \in Updating(r) /\ e \in RosterCalls
        BY <1>10, <2>3, <3>3 DEF Updating
      <4>2. rosterCalls'[e].body = rosterCalls[e].body
        BY <1>4, <1>6, <3>3, <4>1
      <4> QED
        BY <2>1, <2>3, <3>1, <4>1, <4>2 DEF UpdateOK
    <3> QED
      BY <3>2, <3>3
  <2>4. \A k \in told(d).alone :
           k \in Through(told(d)) => RowsFor(r, k)' = {}
    BY <1>4, <1>8, <2>1 DEF UpdateOK, Through
  <2>5. /\ told(d).alone \subseteq Given(told(d).body)
        /\ told(d).pc \in Lists => told(d).pc \in Given(told(d).body)
    BY <1>4, <2>1 DEF UpdateOK
  <2> QED
    BY <2>2, <2>3, <2>4, <2>5 DEF UpdateOK, Through, Given
<1>13. ASSUME NEW q \in DOMAIN rosterAsked, q # r, NEW d \in Updating(q)
       PROVE  UpdateOK(q, d)'
  <2>1. \A e \in Updating(q) : e # c /\ e \notin Updating(r) /\ e \in RosterCalls
    BY <1>1, <1>13 DEF Updating
  <2>2. \A e \in Updating(q) : rosterCalls'[e] = rosterCalls[e]
    BY <1>6, <2>1
  <2>3. UpdateOK(q, d)
    BY DEF RosterInv
  <2> QED
    BY <1>8, <1>10, <1>13, <2>2, <2>3, OthersKept
<1> QED
  BY <1>1, <1>7, <1>9, <1>10, <1>11, <1>12, <1>13 DEF RosterInv

LEMMA DeleteListInv ==
    ASSUME RosterInv, NEW c \in RosterCalls, DeleteList(c)
    PROVE  RosterInv'
<1>1. rosterCalls[c].pc \in Lists /\ rosterCalls[c].pc # "idle"
  BY DEF DeleteList, Lists
<1>2. PICK r \in DOMAIN rosterAsked, b \in RosterBodies :
         /\ rosterCalls[c].id = r /\ rosterCalls[c].body = b
         /\ c \in Updating(r) /\ UpdateOK(r, c)
         /\ rosterCalls[c] \in RosterUpdate
  BY <1>1, UpdateIs
<1>3. PICK k \in Lists : rosterCalls[c].pc = k
  BY <1>1
<1> DEFINE p == NextPoint(b, k)
           me == rosterCalls[c]
           new == [rosterCalls[c] EXCEPT !.pc = p]
<1>4. /\ rosterRows' = rosterRows \ RowsFor(r, k)
      /\ settledLists' = settledLists \ {<<r, k>>}
      /\ rosterCalls' = [rosterCalls EXCEPT ![c] = new]
      /\ UNCHANGED <<rosters, rosterAsked, rosterRequests>>
  BY <1>2, <1>3 DEF DeleteList
<1>5. RosterTypeOK /\ ListsAsAsked
  BY DEF RosterInv
<1>6. /\ new \in RosterUpdate /\ new.pc = p /\ new.id = r /\ new.body = b
      /\ new.alone = me.alone
      /\ p \in Lists \cup {"write"} /\ p # "idle"
      /\ p \in Lists => p \in Given(b)
  <2>1. /\ p \in Lists \cup {"write"} /\ p # "idle"
        /\ p \in Lists => p \in Given(b)
    BY PointsAre
  <2> HIDE DEF p
  <2> QED
    BY <1>2, <2>1 DEF RosterUpdate
<1> HIDE DEF new
<1>7. /\ rosterCalls'[c] = new
      /\ \A d \in RosterCalls \ {c} : rosterCalls'[d] = rosterCalls[d]
      /\ rosterCalls' \in [RosterCalls -> RosterUpdate]
  BY <1>4, <1>5, <1>6 DEF RosterTypeOK
<1>8. \A q : Updating(q)' = Updating(q)
  BY <1>1, <1>2, <1>6, <1>7 DEF Updating
<1>9. RosterTypeOK'
  BY <1>2, <1>4, <1>5, <1>6, <1>7 DEF RosterTypeOK
<1>10. \A q, j : RowsFor(q, j)' =
                   IF q = r /\ j = k THEN {} ELSE RowsFor(q, j)
  BY <1>4 DEF RowsFor
<1>11. ListsAsAsked'
  <2>1. ASSUME NEW q, NEW j, <<q, j>> \in settledLists', q \in rosters'
        PROVE  AsAsked(q, j)'
    <3>1. AsAsked(q, j) /\ <<q, j>> # <<r, k>>
      BY <1>4, <1>5, <2>1 DEF ListsAsAsked
    <3>2. RowsFor(q, j)' = RowsFor(q, j)
      BY <1>10, <3>1
    <3> QED
      BY <1>4, <3>1, <3>2, StaysAsAsked
  <2>2. \A s \in settledLists' : \E q, j : s = <<q, j>>
    BY <1>9 DEF RosterTypeOK
  <2> QED
    BY <1>4, <1>5, <2>1, <2>2 DEF ListsAsAsked
<1>12. UpdateOK(r, c)'
  <2>1. ASSUME NEW j \in me.alone, j \in Through(new)
        PROVE  RowsFor(r, j)' = {}
    <3>1. j \in Given(b) /\ j \in Lists
      BY <1>2, BodyGives DEF UpdateOK
    <3>2. j = k \/ j \in Through(me)
      BY <1>3, <1>6, <2>1, <3>1, PointsAre DEF Through, Lists
    <3>3. j \in Through(me) => RowsFor(r, j) = {}
      BY <1>2 DEF UpdateOK
    <3> QED
      BY <1>10, <3>2, <3>3
  <2>2. ASSUME NEW j \in me.alone, NEW d \in Updating(r) \ {c}
        PROVE  j \notin Given(rosterCalls'[d].body)
    BY <1>2, <1>7 DEF UpdateOK, Updating
  <2>3. me.alone \subseteq Given(b)
    BY <1>2 DEF UpdateOK
  <2> QED
    BY <1>6, <1>7, <1>8, <2>1, <2>2, <2>3 DEF UpdateOK, Through, Given
<1>13. ASSUME NEW q \in DOMAIN rosterAsked, NEW d \in Updating(q), d # c
       PROVE  UpdateOK(q, d)'
  <2>1. UpdateOK(q, d) /\ d \in RosterCalls
    BY DEF RosterInv, Updating
  <2>2. \A e \in RosterCalls : rosterCalls'[e].body = rosterCalls[e].body
    BY <1>2, <1>6, <1>7
  <2>3. \A e \in Updating(q) : e \in RosterCalls
    BY DEF Updating
  <2> QED
    BY <1>7, <1>8, <1>10, <1>13, <2>1, <2>2, <2>3, OthersKept
<1>14. ASSUME NEW q \in DOMAIN rosterAsked, c \in Updating(q)
       PROVE  q = r
  BY <1>2, <1>14 DEF Updating
<1> QED
  BY <1>4, <1>8, <1>9, <1>11, <1>12, <1>13, <1>14 DEF RosterInv

\* An update ends, written or cut short: the others have one less beside them.
LEMMA UpdateEnds ==
    ASSUME RosterTypeOK, NEW c \in RosterCalls, rosterCalls[c].pc # "idle",
           rosterCalls' = [rosterCalls EXCEPT ![c] = IdleUpdate]
    PROVE  /\ rosterCalls' \in [RosterCalls -> RosterUpdate]
           /\ rosterCalls'[c].pc = "idle"
           /\ \A d \in RosterCalls \ {c} : rosterCalls'[d] = rosterCalls[d]
           /\ \A q : Updating(q)' = Updating(q) \ {c}
           /\ \A q : \A d \in Updating(q) \ {c} :
                 d \in RosterCalls /\ rosterCalls'[d] = rosterCalls[d]
<1>1. /\ rosterCalls' \in [RosterCalls -> RosterUpdate]
      /\ rosterCalls'[c].pc = "idle"
      /\ \A d \in RosterCalls \ {c} : rosterCalls'[d] = rosterCalls[d]
  BY IdleIsUpdate DEF RosterTypeOK
<1> QED
  BY <1>1 DEF Updating

LEMMA WriteRosterInv ==
    ASSUME RosterInv, NEW c \in RosterCalls, WriteRoster(c)
    PROVE  RosterInv'
<1>1. rosterCalls[c].pc = "write" /\ rosterCalls[c].pc # "idle"
  BY DEF WriteRoster
<1>2. PICK r \in DOMAIN rosterAsked, b \in RosterBodies :
         /\ rosterCalls[c].id = r /\ rosterCalls[c].body = b
         /\ c \in Updating(r) /\ UpdateOK(r, c)
         /\ rosterCalls[c] \in RosterUpdate
  BY <1>1, UpdateIs
<1>3. PICK no, alone : rosterCalls[c].no = no /\ rosterCalls[c].alone = alone
  OBVIOUS
<1> DEFINE list(k) == IF k \in Given(b) THEN b[k] ELSE rosterAsked[r][k]
<1>4. /\ IF r \in rosters
         THEN /\ rosterRows' = rosterRows \cup NewRows(r, b, no)
              /\ rosterAsked' = [rosterAsked EXCEPT
                                    ![r] = [k \in Lists |-> list(k)]]
              /\ settledLists' = (settledLists \ ({r} \X Given(b)))
                                    \cup ({r} \X alone)
         ELSE UNCHANGED <<rosterRows, rosterAsked, settledLists>>
      /\ rosterCalls' = [rosterCalls EXCEPT ![c] = IdleUpdate]
      /\ UNCHANGED <<rosters, rosterRequests>>
  BY <1>2, <1>3 DEF WriteRoster
<1>5. RosterTypeOK /\ ListsAsAsked
  BY DEF RosterInv
<1>6. /\ rosterCalls' \in [RosterCalls -> RosterUpdate]
      /\ rosterCalls'[c].pc = "idle"
      /\ \A d \in RosterCalls \ {c} : rosterCalls'[d] = rosterCalls[d]
      /\ \A q : Updating(q)' = Updating(q) \ {c}
      /\ \A q : \A d \in Updating(q) \ {c} :
            d \in RosterCalls /\ rosterCalls'[d] = rosterCalls[d]
  BY <1>1, <1>4, <1>5, UpdateEnds
<1>7. /\ alone \subseteq Given(b) /\ Given(b) \subseteq Lists
      /\ \A k \in alone : RowsFor(r, k) = {}
      /\ \A k \in alone : \A d \in Updating(r) \ {c} :
            k \notin Given(rosterCalls[d].body)
  BY <1>1, <1>2, <1>3, BodyGives DEF UpdateOK, Through
<1>8. \A q \in DOMAIN rosterAsked : \A d \in Updating(q) :
         UpdateOK(q, d) /\ (d = c => q = r)
  BY <1>2 DEF RosterInv, Updating
<1>9. CASE r \notin rosters
  <2>1. UNCHANGED <<rosterRows, rosterAsked, settledLists>>
    BY <1>4, <1>9
  <2>2. \A q, k : RowsFor(q, k)' = RowsFor(q, k)
    BY <2>1 DEF RowsFor
  <2>3. RosterTypeOK'
    BY <1>4, <1>5, <1>6, <2>1 DEF RosterTypeOK
  <2>4. ListsAsAsked'
    BY <1>4, <1>5, <2>1, <2>2 DEF ListsAsAsked, AsAsked
  <2>5. ASSUME NEW q \in DOMAIN rosterAsked, NEW d \in Updating(q)'
        PROVE  UpdateOK(q, d)'
    BY <1>6, <1>8, <2>2, OthersKept
  <2> QED
    BY <2>1, <2>3, <2>4, <2>5 DEF RosterInv
<1>10. CASE r \in rosters
  <2>1. /\ rosterRows' = rosterRows \cup NewRows(r, b, no)
        /\ rosterAsked' = [rosterAsked EXCEPT ![r] = [k \in Lists |-> list(k)]]
        /\ settledLists' = (settledLists \ ({r} \X Given(b)))
                              \cup ({r} \X alone)
    BY <1>4, <1>10
  <2>2. /\ \A x \in rosterRows' : x \in rosterRows \/ x.roster = r
        /\ \A q, k : RowsFor(q, k)' =
              RowsFor(q, k) \cup IF q = r /\ k \in Given(b)
                                 THEN ListRows(r, k, b, no) ELSE {}
    BY <2>1, Written
  <2>3. [k \in Lists |-> list(k)] \in
            [Lists -> SUBSET (RosterUsers \cup RosterTypes)]
    BY <1>5, BodyGives DEF RosterTypeOK
  <2>4. /\ DOMAIN rosterAsked' = DOMAIN rosterAsked
        /\ \A q \in DOMAIN rosterAsked : q # r =>
              rosterAsked'[q] = rosterAsked[q]
        /\ \A k \in Lists : rosterAsked'[r][k] = list(k)
        /\ rosterAsked'[r] \in
              [Lists -> SUBSET (RosterUsers \cup RosterTypes)]
    BY <2>1, <2>3
  <2>5. settledLists' \subseteq (DOMAIN rosterAsked) \X Lists
    BY <1>2, <1>5, <1>7, <2>1 DEF RosterTypeOK
  <2>6. RosterTypeOK'
    <3>1. ASSUME NEW q \in DOMAIN rosterAsked'
          PROVE  rosterAsked'[q] \in
                    [Lists -> SUBSET (RosterUsers \cup RosterTypes)]
      BY <1>5, <2>4 DEF RosterTypeOK
    <3>2. ASSUME NEW d \in RosterCalls, rosterCalls'[d].pc # "idle"
          PROVE  /\ rosterCalls'[d].id \in DOMAIN rosterAsked
                 /\ rosterCalls'[d].body \in RosterBodies
      BY <1>5, <1>6, <3>2 DEF RosterTypeOK
    <3> HIDE DEF list
    <3> QED
      BY <1>4, <1>5, <1>6, <2>4, <2>5, <3>1, <3>2 DEF RosterTypeOK
  <2>7. ListsAsAsked'
    <3>1. \A x \in rosterRows' : x.roster \in rosters'
      BY <1>4, <1>5, <1>10, <2>2 DEF ListsAsAsked
    <3>2. ASSUME NEW q, NEW k, <<q, k>> \in settledLists', q \in rosters'
          PROVE  AsAsked(q, k)'
      <4>0. q \in DOMAIN rosterAsked /\ k \in Lists
        BY <2>5, <3>2
      <4>1. CASE q = r /\ k \in alone
        <5>1. RowsFor(q, k)' = ListRows(r, k, b, no)
          BY <1>7, <2>2, <4>1
        <5>2. rosterAsked'[q][k] = b[k]
          BY <1>7, <2>4, <4>0, <4>1
        <5> QED
          BY <4>1, <5>1, <5>2, WrittenAsAsked
      <4>2. CASE ~(q = r /\ k \in alone)
        <5>1. <<q, k>> \in settledLists /\ ~(q = r /\ k \in Given(b))
          BY <2>1, <3>2, <4>2
        <5>2. AsAsked(q, k)
          BY <1>4, <1>5, <3>2, <5>1 DEF ListsAsAsked
        <5>3. RowsFor(q, k)' = RowsFor(q, k)
          BY <2>2, <5>1
        <5>4. rosterAsked'[q][k] = rosterAsked[q][k]
          BY <2>4, <4>0, <5>1
        <5> QED
          BY <5>2, <5>3, <5>4, StaysAsAsked
      <4> QED
        BY <4>1, <4>2
    <3>3. \A s \in settledLists' : \E q, k : s = <<q, k>>
      BY <2>5
    <3> QED
      BY <3>1, <3>2, <3>3 DEF ListsAsAsked
  <2>8. ASSUME NEW q \in DOMAIN rosterAsked, NEW d \in Updating(q)'
        PROVE  UpdateOK(q, d)'
    <3>1. /\ d \in Updating(q) \ {c} /\ UpdateOK(q, d)
          /\ rosterCalls'[d] = rosterCalls[d]
      BY <1>6, <1>8, <2>8
    <3>2. ASSUME NEW k \in rosterCalls[d].alone
          PROVE  RowsFor(q, k)' = RowsFor(q, k)
      <4>1. q = r => k \notin Given(b)
        BY <1>2, <3>1, <3>2 DEF UpdateOK
      <4> QED
        BY <2>2, <4>1
    <3> QED
      BY <1>6, <3>1, <3>2, OthersKept
  <2> QED
    BY <2>4, <2>6, <2>7, <2>8 DEF RosterInv
<1> QED
  BY <1>9, <1>10

LEMMA RemoveRosterInv ==
    ASSUME RosterInv, NEW r \in RosterIds, RemoveRoster(r)
    PROVE  RosterInv'
<1>1. /\ \A x \in rosterRows : x.roster # r
      /\ rosters' = rosters \ {r}
      /\ UNCHANGED <<rosterRows, rosterCalls, rosterAsked, settledLists>>
      /\ rosterRequests' = rosterRequests + 1
  BY DEF RemoveRoster, RequestRoster
<1>2. /\ \A q, k : RowsFor(q, k)' = RowsFor(q, k)
      /\ \A q : Updating(q)' = Updating(q)
  BY <1>1 DEF RowsFor, Updating
<1>3. RosterTypeOK'
  BY <1>1 DEF RosterInv, RosterTypeOK
<1>4. ListsAsAsked'
  BY <1>1, <1>2 DEF RosterInv, ListsAsAsked, AsAsked
<1>5. ASSUME NEW q \in DOMAIN rosterAsked, NEW d \in Updating(q)
      PROVE  UpdateOK(q, d)'
  BY <1>1, <1>2, OthersKept DEF RosterInv
<1> QED
  BY <1>1, <1>2, <1>3, <1>4, <1>5 DEF RosterInv

LEMMA CutRosterInv ==
    ASSUME RosterInv, NEW c \in RosterCalls, CutRosterUpdate(c)
    PROVE  RosterInv'
<1>1. /\ rosterCalls[c].pc # "idle"
      /\ rosterCalls' = [rosterCalls EXCEPT ![c] = IdleUpdate]
      /\ UNCHANGED <<rosters, rosterRows, rosterAsked, settledLists,
                     rosterRequests>>
      /\ RosterTypeOK /\ ListsAsAsked
  BY DEF CutRosterUpdate, RosterInv
<1>2. /\ rosterCalls' \in [RosterCalls -> RosterUpdate]
      /\ rosterCalls'[c].pc = "idle"
      /\ \A d \in RosterCalls \ {c} : rosterCalls'[d] = rosterCalls[d]
      /\ \A q : Updating(q)' = Updating(q) \ {c}
      /\ \A q : \A d \in Updating(q) \ {c} :
            d \in RosterCalls /\ rosterCalls'[d] = rosterCalls[d]
  BY <1>1, UpdateEnds
<1>3. \A q, k : RowsFor(q, k)' = RowsFor(q, k)
  BY <1>1 DEF RowsFor
<1>4. RosterTypeOK'
  BY <1>1, <1>2 DEF RosterTypeOK
<1>5. ListsAsAsked'
  BY <1>1, <1>3 DEF ListsAsAsked, AsAsked
<1>6. ASSUME NEW q \in DOMAIN rosterAsked, NEW d \in Updating(q)'
      PROVE  UpdateOK(q, d)'
  BY <1>2, <1>3, OthersKept DEF RosterInv
<1> QED
  BY <1>1, <1>4, <1>5, <1>6 DEF RosterInv

LEMMA RosterStep == RosterInv /\ [RosterNext]_rosterVars => RosterInv'
<1> SUFFICES ASSUME RosterInv, [RosterNext]_rosterVars PROVE RosterInv'
  OBVIOUS
<1>1. CASE UNCHANGED rosterVars
  <2>1. \A q, k : RowsFor(q, k)' = RowsFor(q, k) /\ Updating(q)' = Updating(q)
    BY <1>1 DEF rosterVars, RowsFor, Updating
  <2>2. RosterTypeOK' /\ ListsAsAsked'
    BY <1>1, <2>1 DEF rosterVars, RosterInv, RosterTypeOK, ListsAsAsked, AsAsked
  <2> QED
    BY <1>1, <2>1, <2>2, OthersKept DEF rosterVars, RosterInv
<1>2. CASE RosterNext
  BY <1>2, CreateRosterInv, RemoveRosterInv, BeginUpdateRosterInv,
     DeleteListInv, WriteRosterInv, CutRosterInv DEF RosterNext
<1> QED
  BY <1>1, <1>2

\* A list that an update alone with it has deleted is empty until it is written,
\* and the lists of a roster are as last written.
THEOREM RosterInvariant == RosterSpec => []RosterInv
BY InitRosters, RosterStep, PTL DEF RosterSpec

\* A list of a roster is the one last written, every item once, and no row is of
\* a roster that is gone, although update deletes the rows in statements of its
\* own, which interleave with others' and may be the last of a cut update.
THEOREM ListsSound == RosterSpec => []ListsAsAsked
<1>1. RosterInv => ListsAsAsked
  BY DEF RosterInv
<1> QED
  BY <1>1, RosterInvariant, PTL

\* A roster with users or types goes only hollow: after an update that has
\* deleted them was cut short, has yet to write, or overlapped another.
THEOREM HollowSound == RosterSpec => RemovedOnlyHollow
<1>1. ASSUME RosterInv, [RosterNext]_rosterVars, NEW r \in rosters \ rosters',
             NEW k \in Lists, <<r, k>> \in settledLists
      PROVE  rosterAsked[r][k] = {}
  <2>1. PICK q \in RosterIds : RemoveRoster(q)
    BY <1>1 DEF RosterNext, rosterVars, CreateRoster, BeginRosterUpdate,
       DeleteList, WriteRoster, CutRosterUpdate
  <2>2. r = q
    BY <1>1, <2>1 DEF RemoveRoster
  <2>3. RowsFor(r, k) = {}
    BY <2>1, <2>2 DEF RemoveRoster, RowsFor
  <2>4. AsAsked(r, k)
    BY <1>1 DEF RosterInv, ListsAsAsked
  <2> QED
    BY <2>3, <2>4 DEF AsAsked
<1>2. RosterInv /\ [RosterNext]_rosterVars =>
         \A r \in rosters \ rosters', k \in Lists :
            <<r, k>> \in settledLists => rosterAsked[r][k] = {}
  BY <1>1
<1> QED
  BY <1>2, RosterInvariant, PTL DEF RosterSpec, RemovedOnlyHollow

-----------------------------------------------------------------------------
(* The seed. *)

\* The lists in their order.
LEMMA TablesAre ==
    /\ Len(Tables) = 6
    /\ Tables[1] = "area" /\ Tables[2] = "permission" /\ Tables[3] = "role"
    /\ Tables[4] = "department" /\ Tables[5] = "position"
    /\ Tables[6] = "technicalLevel"
    /\ TableNames = {"area", "permission", "role", "department", "position",
                     "technicalLevel"}
<1>1. /\ Len(Tables) = 6
      /\ Tables[1] = "area" /\ Tables[2] = "permission" /\ Tables[3] = "role"
      /\ Tables[4] = "department" /\ Tables[5] = "position"
      /\ Tables[6] = "technicalLevel"
  BY DEF Tables
<1>2. 1 .. 6 = {1, 2, 3, 4, 5, 6}
  OBVIOUS
<1>3. TableNames = {Tables[1], Tables[2], Tables[3], Tables[4], Tables[5],
                    Tables[6]}
  BY <1>1, <1>2 DEF TableNames
<1> QED
  BY <1>1, <1>3

\* No name is in two lists' places.
LEMMA PlaceOf ==
    ASSUME NEW i \in 1 .. 6, NEW j \in 1 .. 6, Tables[i] = Tables[j]
    PROVE  i = j
<1>1. i \in {1, 2, 3, 4, 5, 6} /\ j \in {1, 2, 3, 4, 5, 6}
  OBVIOUS
<1> QED
  BY <1>1, TablesAre

LEMMA ListedOnes ==
    /\ DevsRow = <<"role", Devs>> /\ FullRow = <<"permission", Full>>
    /\ Devs \in Listed["role"] /\ Full \in Listed["permission"]
    /\ "role" \in TableNames /\ "permission" \in TableNames
    /\ "department" \in TableNames /\ "position" \in TableNames
    /\ Listed["department"] # {} /\ Listed["position"] # {}
BY SeedAssumption, TablesAre DEF DevsRow, FullRow

\* The list after the i-th.
LEMMA AfterListIs ==
    ASSUME NEW t \in TableNames, AfterList(t)
    PROVE  \/ t = "technicalLevel" /\ seedPoint' = "find" /\ todoNames' = {}
           \/ \E i \in 1 .. 5 :
                 /\ Tables[i] = t /\ Tables[i + 1] \in TableNames
                 /\ seedPoint' = Tables[i + 1]
                 /\ todoNames' = Listed[Tables[i + 1]]
<1>1. CASE t = "technicalLevel"
  BY <1>1 DEF AfterList
<1>2. CASE t # "technicalLevel"
  <2>1. PICK i \in 1 .. 6 : Tables[i] = t
    BY TablesAre DEF TableNames
  <2>2. i \in 1 .. 5
    BY <1>2, <2>1, TablesAre
  <2>3. (CHOOSE j \in 1 .. Len(Tables) - 1 : Tables[j] = t) = i
    <3>1. Len(Tables) - 1 = 5
      BY TablesAre
    <3>2. \A j \in 1 .. 5 : Tables[j] = t <=> j = i
      BY <2>1, <2>2, PlaceOf
    <3> QED
      BY <2>2, <3>1, <3>2
  <2>4. i + 1 \in 1 .. Len(Tables)
    BY <2>2, TablesAre
  <2>5. EnterList(Tables[1 + i])
    BY <1>2, <2>3 DEF AfterList
  <2> QED
    BY <2>1, <2>2, <2>4, <2>5 DEF EnterList, TableNames
<1> QED
  BY <1>1, <1>2

LEMMA InitSeed == SeedInit => SeedInv
BY TablesAre DEF SeedInit, SeedInv, SeedPoints

\* What the run has been over, as the invariant has it.
LEMMA StartSeedInv ==
    ASSUME SeedInv, StartSeed
    PROVE  SeedInv'
<1>1. /\ seedPoint' = "area" /\ todoNames' = Listed["area"]
  BY DEF StartSeed, EnterList
<1>2. ASSUME NEW t \in TableNames, NEW n \in Listed[t], PassedRow(t, n)'
      PROVE  FALSE
  <2>1. t # "area"
    BY <1>1, <1>2 DEF PassedRow
  <2>2. PICK i \in 1 .. 6, j \in 1 .. 6 :
          Tables[i] = t /\ Tables[j] = "area" /\ i < j
    BY <1>1, <1>2, <2>1, TablesAre DEF PassedRow
  <2>3. j = 1
    BY <2>2, PlaceOf, TablesAre
  <2> QED
    BY <2>2, <2>3
<1> QED
  BY <1>1, <1>2, TablesAre DEF SeedInv, SeedPoints

\* An upsert leaves rows in place and the others as they are.
LEMMA UpsertKeeps ==
    ASSUME NEW r, tables' = Upserted(r)
    PROVE  /\ \A q : Exists(q) => Exists(q)'
           /\ Exists(r)'
           /\ \A q : Exists(q) /\ q # r => tables'[q] = tables[q]
           /\ r[1] = "permission" => tables'[r] = SeedRow
BY DEF Upserted, Exists

LEMMA UpsertListedInv ==
    ASSUME SeedInv, NEW m \in todoNames, UpsertListed(m)
    PROVE  SeedInv'
<1>1. PICK t0 : t0 = seedPoint
  OBVIOUS
<1>2. /\ t0 \in TableNames /\ m \in Listed[t0] /\ todoNames \subseteq Listed[t0]
      /\ tables' = Upserted(<<t0, m>>)
      /\ IF todoNames = {m} THEN AfterList(t0)
         ELSE todoNames' = todoNames \ {m} /\ UNCHANGED seedPoint
      /\ calm' = calm
  BY <1>1 DEF UpsertListed, SeedInv
<1>3. /\ Seeded(t0, m)'
      /\ \A t, n : Seeded(t, n) => Seeded(t, n)'
  <2>1. PICK r : r = <<t0, m>>
    OBVIOUS
  <2>2. /\ \A q : Exists(q) => Exists(q)'
        /\ Exists(r)'
        /\ \A q : Exists(q) /\ q # r => tables'[q] = tables[q]
        /\ r[1] = "permission" => tables'[r] = SeedRow
    BY <1>2, <2>1, UpsertKeeps
  <2>3. Seeded(t0, m)'
    BY <2>1, <2>2 DEF Seeded
  <2>4. ASSUME NEW t, NEW n, Seeded(t, n)
        PROVE  Seeded(t, n)'
    <3>1. CASE <<t, n>> = r
      BY <2>1, <2>3, <3>1
    <3>2. CASE <<t, n>> # r
      BY <2>2, <2>4, <3>2 DEF Seeded
    <3> QED
      BY <3>1, <3>2
  <2> QED
    BY <2>3, <2>4
<1>4. ASSUME calm, NEW t \in TableNames, NEW n \in Listed[t], PassedRow(t, n)'
      PROVE  Seeded(t, n)'
  <2>1. PassedRow(t, n) \/ (t = t0 /\ n = m)
    <3>1. CASE todoNames # {m}
      BY <1>1, <1>2, <1>4, <3>1 DEF PassedRow
    <3>2. CASE todoNames = {m}
      <4>1. CASE t = t0
        BY <1>1, <3>2, <4>1 DEF PassedRow
      <4>2. CASE t # t0 /\ t0 = "technicalLevel"
        <5>1. PICK i \in 1 .. 6 : Tables[i] = t
          BY TablesAre DEF TableNames
        <5>2. i < 6 /\ Tables[6] = t0
          BY <4>2, <5>1, TablesAre
        <5> QED
          BY <1>1, <1>2, <4>2, <5>1, <5>2, TablesAre DEF PassedRow
      <4>3. CASE t # t0 /\ t0 # "technicalLevel"
        <5>1. PICK i \in 1 .. 5 :
                /\ Tables[i] = t0 /\ Tables[i + 1] \in TableNames
                /\ seedPoint' = Tables[i + 1]
                /\ todoNames' = Listed[Tables[i + 1]]
          BY <1>2, <3>2, <4>3, AfterListIs
        <5>2. t # Tables[i + 1]
          BY <1>4, <5>1 DEF PassedRow
        <5>3. PICK k \in 1 .. 6, j \in 1 .. 6 :
                Tables[k] = t /\ Tables[j] = Tables[i + 1] /\ k < j
          BY <1>4, <5>1, <5>2, TablesAre DEF PassedRow
        <5>4. j = i + 1
          BY <5>3, PlaceOf
        <5>5. k # i
          BY <4>3, <5>1, <5>3
        <5>6. k < i /\ i \in 1 .. 6
          BY <5>3, <5>4, <5>5
        <5> QED
          BY <1>1, <1>2, <4>3, <5>1, <5>3, <5>6, TablesAre DEF PassedRow
      <4> QED
        BY <4>1, <4>2, <4>3
    <3> QED
      BY <3>1, <3>2
  <2>2. PassedRow(t, n) => Seeded(t, n)
    BY <1>1, <1>2, <1>4, TablesAre DEF SeedInv
  <2> QED
    BY <1>3, <2>1, <2>2
<1>5. /\ seedPoint' \in TableNames \cup {"find"}
      /\ seedPoint' \in TableNames => todoNames' \subseteq Listed[seedPoint']
  BY <1>1, <1>2, AfterListIs
<1> QED
  BY <1>2, <1>4, <1>5, TablesAre DEF SeedInv, SeedPoints

\* Past the lists, all of them have been gone over.
LEMMA AllSeeded ==
    ASSUME SeedInv, calm, seedPoint \notin TableNames, seedPoint # "idle"
    PROVE  /\ \A t \in TableNames : \A n \in Listed[t] : Seeded(t, n)
           /\ Exists(DevsRow) /\ Exists(FullRow)
           /\ \E r \in DOMAIN tables : r[1] = "department"
           /\ \E r \in DOMAIN tables : r[1] = "position"
<1>1. \A t \in TableNames : \A n \in Listed[t] : PassedRow(t, n)
  BY DEF PassedRow
<1>2. \A t \in TableNames : \A n \in Listed[t] : Seeded(t, n)
  BY <1>1 DEF SeedInv
<1>3. \A t \in TableNames : \A n \in Listed[t] : <<t, n>> \in DOMAIN tables
  BY <1>2 DEF Seeded, Exists
<1> QED
  BY <1>2, <1>3, ListedOnes DEF Exists

\* A statement after the lists that only adds rows.
LEMMA TailStep ==
    ASSUME SeedInv, calm, seedPoint \notin TableNames, seedPoint # "idle",
           seedPoint' \in {"grant", "first", "admin", "assign", "done"},
           \A t, n : Seeded(t, n) => Seeded(t, n)',
           links \subseteq links',
           seedPoint' \in {"first", "admin", "assign", "done"} =>
              <<DevsRow, FullRow>> \in links',
           seedPoint' \in {"assign", "done"} => Exists(AdminRow)',
           seedPoint' = "done" => <<AdminRow, DevsRow>> \in links'
    PROVE  SeedInv'
<1>1. \A t \in TableNames : \A n \in Listed[t] : Seeded(t, n)'
  BY AllSeeded
<1>2. seedPoint' \notin TableNames /\ seedPoint' \in SeedPoints
  BY TablesAre DEF SeedPoints
<1> QED
  BY <1>1, <1>2, TablesAre DEF SeedInv

\* While clients are at work, only the place in the run is told.
LEMMA RestlessStep ==
    ASSUME ~calm', seedPoint' \in SeedPoints,
           seedPoint' \in TableNames => todoNames' \subseteq Listed[seedPoint']
    PROVE  SeedInv'
BY DEF SeedInv

LEMMA TailInv ==
    ASSUME SeedInv,
           \/ FindDevs \/ GrantFullAccess \/ FindFirst \/ UpsertAdmin
           \/ AssignDevs
    PROVE  SeedInv'
<1>1. /\ seedPoint \in {"find", "grant", "first", "admin", "assign"}
      /\ seedPoint' \in {"idle", "grant", "first", "admin", "assign", "done"}
      /\ calm' = calm
  BY DEF FindDevs, GrantFullAccess, FindFirst, UpsertAdmin, AssignDevs, Link
<1>2. seedPoint' \in SeedPoints /\ seedPoint' \notin TableNames
  BY <1>1, TablesAre DEF SeedPoints
<1>3. CASE ~calm \/ seedPoint' = "idle"
  BY <1>1, <1>2, <1>3 DEF SeedInv
<1>4. CASE calm /\ seedPoint' # "idle"
  <2>1. seedPoint \notin TableNames /\ seedPoint # "idle"
    BY <1>1, TablesAre
  <2>2. /\ Exists(DevsRow) /\ Exists(FullRow)
        /\ \E r \in DOMAIN tables : r[1] = "department"
        /\ \E r \in DOMAIN tables : r[1] = "position"
    BY <1>4, <2>1, AllSeeded
  <2>3. /\ seedPoint \in {"first", "admin", "assign"} =>
             <<DevsRow, FullRow>> \in links
        /\ seedPoint = "assign" => Exists(AdminRow)
    BY <1>1, <1>4 DEF SeedInv
  <2>4. CASE FindDevs \/ FindFirst
    <3>1. UNCHANGED <<tables, links>>
      BY <2>4 DEF FindDevs, FindFirst
    <3>2. \/ seedPoint' = "grant"
          \/ seedPoint = "first" /\ seedPoint' = "admin"
      BY <2>2, <2>4 DEF FindDevs, FindFirst
    <3>3. \A t, n : Seeded(t, n) => Seeded(t, n)'
      BY <3>1 DEF Seeded, Exists
    <3> QED
      BY <1>4, <2>1, <2>3, <3>1, <3>2, <3>3, TailStep
  <2>5. CASE GrantFullAccess \/ AssignDevs
    <3>1. /\ UNCHANGED tables /\ links \subseteq links'
          /\ \/ /\ seedPoint' = "first"
                /\ <<DevsRow, FullRow>> \in links'
             \/ /\ seedPoint = "assign" /\ seedPoint' = "done"
                /\ <<AdminRow, DevsRow>> \in links'
      BY <1>4, <2>5 DEF GrantFullAccess, AssignDevs, Link
    <3>2. \A t, n : Seeded(t, n) => Seeded(t, n)'
      BY <3>1 DEF Seeded, Exists
    <3>3. Exists(AdminRow) => Exists(AdminRow)'
      BY <3>1 DEF Exists
    <3> QED
      BY <1>4, <2>1, <2>3, <3>1, <3>2, <3>3, TailStep
  <2>6. CASE UpsertAdmin
    <3>1. /\ tables' = Upserted(AdminRow) /\ links' = links
          /\ seedPoint = "admin" /\ seedPoint' = "assign"
      BY <2>6 DEF UpsertAdmin
    <3>2. /\ \A q : Exists(q) => Exists(q)'
          /\ Exists(AdminRow)'
          /\ \A q : Exists(q) /\ q # AdminRow => tables'[q] = tables[q]
      BY <3>1, UpsertKeeps
    <3>3. \A t, n : t = "permission" => <<t, n>> # AdminRow
      BY DEF AdminRow
    <3>4. \A t, n : Seeded(t, n) => Seeded(t, n)'
      BY <3>2, <3>3 DEF Seeded
    <3> QED
      BY <1>4, <2>1, <2>3, <3>1, <3>2, <3>4, TailStep
  <2> QED
    BY <2>4, <2>5, <2>6
<1> QED
  BY <1>3, <1>4

LEMMA SeedStep == SeedInv /\ [SeedNext]_seedVars => SeedInv'
<1> SUFFICES ASSUME SeedInv, [SeedNext]_seedVars PROVE SeedInv'
  OBVIOUS
<1>1. CASE UNCHANGED seedVars
  BY <1>1 DEF seedVars, SeedInv, PassedRow, Seeded, Exists
<1>2. CASE CutSeed
  BY <1>2, TablesAre DEF CutSeed, SeedInv, SeedPoints
<1>3. CASE \E r \in DOMAIN tables : EditRow(r) \/ RemoveRow(r)
  <2>1. ~calm' /\ seedPoint' = seedPoint /\ todoNames' = todoNames
    BY <1>3 DEF EditRow, RemoveRow, ClientStep
  <2> QED
    BY <2>1, RestlessStep DEF SeedInv
<1> QED
  BY <1>1, <1>2, <1>3, StartSeedInv, UpsertListedInv, TailInv DEF SeedNext

\* What a run has been over is there as the seed writes it, until a client does
\* something.
THEOREM SeedInvariant == SeedSpec => []SeedInv
BY InitSeed, SeedStep, PTL DEF SeedSpec

\* A run that clients leave alone and that is not cut short completes what is
\* there, whatever earlier runs, cut anywhere, and clients have left.
THEOREM SeedSound == SeedSpec => []SeedCompletes
<1>1. SeedInv => SeedCompletes
  <2> SUFFICES ASSUME SeedInv, seedPoint = "done", calm
               PROVE  /\ ListedRows \cup {AdminRow} \subseteq DOMAIN tables
                      /\ \A r \in ListedRows :
                            r[1] = "permission" => tables[r] = "seed"
                      /\ {<<DevsRow, FullRow>>, <<AdminRow, DevsRow>>}
                            \subseteq links
    BY DEF SeedCompletes
  <2>1. \A t \in TableNames : \A n \in Listed[t] : Seeded(t, n)
    BY AllSeeded, TablesAre
  <2>2. \A r \in ListedRows : \E t \in TableNames : \E n \in Listed[t] :
           r = <<t, n>>
    BY DEF ListedRows
  <2>3. \A r \in ListedRows :
           r \in DOMAIN tables /\ (r[1] = "permission" => tables[r] = "seed")
    BY <2>1, <2>2 DEF Seeded, Exists, SeedRow
  <2>4. Exists(AdminRow)
    BY DEF SeedInv
  <2> QED
    BY <2>3, <2>4 DEF SeedInv, Exists
<1> QED
  BY <1>1, SeedInvariant, PTL

-----------------------------------------------------------------------------
(* The permissions of a request. *)

\* What stands for the priority of a permission.
LEMMA PriorityIs ==
    ASSUME NEW c \in Codes
    PROVE  \/ /\ Priority[c] = NoPriority
              /\ Rank(c) = 99999 /\ NewPriority(c) = 99999
              /\ OldPriority(c) = 9999
           \/ /\ Rank(c) \in Nat /\ Rank(c) < 9999
              /\ Rank(c) = Priority[c] /\ NewPriority(c) = Rank(c)
              /\ OldPriority(c) = Rank(c)
<1>1. CASE Priority[c] = NoPriority
  BY <1>1 DEF Rank, NewPriority, OldPriority
<1>2. CASE Priority[c] # NoPriority
  <2>1. Priority[c] \in Nat /\ Priority[c] < 9999
    BY <1>2, PermissionAssumption
  <2>2. /\ Rank(c) = Priority[c] /\ NewPriority(c) = Priority[c]
        /\ OldPriority(c) = Priority[c]
    BY <1>2 DEF Rank, NewPriority, OldPriority
  <2> QED
    BY <2>1, <2>2
<1> QED
  BY <1>1, <1>2

LEMMA RankTypes == \A c \in Codes : Rank(c) \in Nat
<1> TAKE c \in Codes
<1>1. Rank(c) = 99999 \/ Rank(c) \in Nat
  BY PriorityIs
<1>2. 99999 \in Nat
  OBVIOUS
<1> QED
  BY <1>1, <1>2

\* A priority is compared with the default 99999 for null, the one in the Map
\* with the default 9999: no priority lies between.
LEMMA BetterIsLess ==
    ASSUME NEW c \in Codes, NEW old \in Codes
    PROVE  Better(c, old) <=> Rank(c) < Rank(old)
<1>1. old # Nothing
  BY PermissionAssumption
<1> QED
  BY <1>1, PriorityIs DEF Better

\* A permission of the group of reading users that is no worse than user.read
\* is user.read or full access.
LEMMA ReadAllIsLeast ==
    ASSUME NEW c \in Codes, GroupOf[c] = UserRead,
           Rank(c) <= Rank(ReadAll)
    PROVE  c \in {ReadAll, FullAccess}
<1>1. /\ ReadAll \in Codes /\ Priority[ReadAll] # NoPriority
      /\ c \notin {ReadAll, FullAccess} =>
            Priority[c] = NoPriority \/ Priority[ReadAll] < Priority[c]
  BY PermissionAssumption
<1>2. /\ Rank(ReadAll) \in Nat /\ Rank(ReadAll) < 9999
      /\ Rank(ReadAll) = Priority[ReadAll]
  BY <1>1, PriorityIs
<1>3. \/ Priority[c] = NoPriority /\ Rank(c) = 99999
      \/ Rank(c) \in Nat /\ Rank(c) = Priority[c]
  BY PriorityIs
<1>4. CASE Priority[c] = NoPriority /\ Rank(c) = 99999
  <2>1. ~ (99999 <= Rank(ReadAll))
    BY <1>2
  <2> QED
    BY <1>4, <2>1
<1>5. CASE Rank(c) \in Nat /\ Rank(c) = Priority[c]
  <2>1. ~ (Priority[ReadAll] < Priority[c])
    BY <1>2, <1>5
  <2>2. Priority[c] # NoPriority
    BY <1>5, PermissionAssumption
  <2> QED
    BY <1>1, <2>1, <2>2
<1> QED
  BY <1>3, <1>4, <1>5

LEMMA ListTypes ==
    ASSUME PermissionTypeOK
    PROVE  /\ Len(perms) \in Nat
           /\ scanned \in Nat
           /\ scanned <= Len(perms)
           /\ \A i \in 1 .. Len(perms) : perms[i] \in Codes
<1>1. perms \in Seq(Codes)
  BY DEF PermissionTypeOK
<1>2. Len(perms) \in Nat
  BY <1>1, LenProperties
<1>3. scanned \in 0 .. Len(perms)
  BY DEF PermissionTypeOK
<1>4. \A i \in 1 .. Len(perms) : perms[i] \in Codes
  BY <1>1, ElementOfSeq
<1> QED
  BY <1>2, <1>3, <1>4

\* The best of a group with a permission is one of the group.
LEMMA BestIsCode ==
    ASSUME PermissionTypeOK, NEW c, NEW g, NEW n \in 0 .. Len(perms),
           FirstLeast(c, g, n)
    PROVE  c \in Codes /\ c # Nothing /\ GroupOf[c] = g
<1>1. PICK i \in 1 .. n : perms[i] = c /\ GroupOf[c] = g
  BY DEF FirstLeast
<1>2. i \in 1 .. Len(perms)
  BY ListTypes
<1> QED
  BY <1>1, <1>2, ListTypes, PermissionAssumption

\* A turn of the loop.
LEMMA ScanStep ==
    ASSUME PermissionTypeOK, BestIsFirstLeast, ScanPermission
    PROVE  PermissionTypeOK' /\ BestIsFirstLeast'
<1> DEFINE n == scanned
           c == perms[scanned + 1]
           h == GroupOf[c]
<1>1. /\ n < Len(perms) /\ scanned' = n + 1
      /\ perms' = perms /\ stage' = stage /\ answer' = answer
      /\ best' = IF Better(c, best[h]) THEN [best EXCEPT ![h] = c] ELSE best
  BY DEF ScanPermission
<1>2. /\ n \in Nat /\ Len(perms) \in Nat /\ c \in Codes
      /\ \A i \in 1 .. n + 1 : perms[i] \in Codes
  BY <1>1, ListTypes
<1>3. h \in Groups
  BY <1>2 DEF Groups
<1>4. PermissionTypeOK'
  <2>1. best' \in [Groups -> Codes \cup {Nothing}]
    BY <1>1, <1>2, <1>3 DEF PermissionTypeOK
  <2>2. scanned' \in 0 .. Len(perms')
    BY <1>1, <1>2
  <2> QED
    BY <1>1, <2>1, <2>2 DEF PermissionTypeOK
<1>5. \A g \in Groups \ {h} : best'[g] = best[g]
  BY <1>1, <1>3 DEF PermissionTypeOK
<1>6. ASSUME NEW g \in Groups \ {h}
      PROVE  IF \E i \in 1 .. n + 1 : GroupOf[perms[i]] = g
             THEN FirstLeast(best'[g], g, n + 1)
             ELSE best'[g] = Nothing
  <2>1. \A i \in 1 .. n + 1 :
           GroupOf[perms[i]] = g => i \in 1 .. n
    BY <1>2
  <2>2. 1 .. n \subseteq 1 .. n + 1
    BY <1>2
  <2>3. CASE \E i \in 1 .. n + 1 : GroupOf[perms[i]] = g
    <3>1. FirstLeast(best[g], g, n)
      BY <2>1, <2>3 DEF BestIsFirstLeast
    <3> QED
      BY <1>5, <2>1, <2>2, <2>3, <3>1 DEF FirstLeast
  <2>4. CASE ~ \E i \in 1 .. n + 1 : GroupOf[perms[i]] = g
    BY <1>5, <2>2, <2>4 DEF BestIsFirstLeast
  <2> QED
    BY <2>3, <2>4
<1>7. FirstLeast(best'[h], h, n + 1)
  <2>1. n + 1 \in 1 .. n + 1 /\ perms[n + 1] = c
    BY <1>2
  <2>2. \A i \in 1 .. n + 1 : i = n + 1 \/ i \in 1 .. n
    BY <1>2
  <2>3. CASE \E i \in 1 .. n : GroupOf[perms[i]] = h
    <3>1. FirstLeast(best[h], h, n)
      BY <1>3, <2>3 DEF BestIsFirstLeast
    <3> DEFINE b == best[h]
    <3>2. b \in Codes
      BY <1>1, <1>2, <3>1, BestIsCode
    <3>3. PICK i \in 1 .. n :
            /\ perms[i] = b /\ GroupOf[b] = h
            /\ \A j \in 1 .. n : GroupOf[perms[j]] = h =>
                  \/ Rank(b) < Rank(perms[j])
                  \/ Rank(b) = Rank(perms[j]) /\ i <= j
      BY <3>1 DEF FirstLeast
    <3>4. Rank(b) \in Nat /\ Rank(c) \in Nat
      BY <1>2, <3>2, RankTypes
    <3>5. \A j \in 1 .. n : Rank(perms[j]) \in Nat
      BY <1>2, RankTypes
    <3>6. CASE Better(c, b)
      <4>1. best'[h] = c
        BY <1>1, <1>3, <3>6 DEF PermissionTypeOK
      <4>2. Rank(c) < Rank(b)
        BY <1>2, <3>2, <3>6, BetterIsLess
      <4>3. \A j \in 1 .. n : GroupOf[perms[j]] = h =>
               Rank(c) < Rank(perms[j])
        BY <3>3, <3>4, <3>5, <4>2
      <4>4. \A j \in 1 .. n + 1 : GroupOf[perms[j]] = h =>
               \/ Rank(c) < Rank(perms[j])
               \/ Rank(c) = Rank(perms[j]) /\ n + 1 <= j
        BY <1>2, <2>2, <4>3
      <4> QED
        BY <2>1, <4>1, <4>4 DEF FirstLeast
    <3>7. CASE ~ Better(c, b)
      <4>1. best'[h] = b
        BY <1>1, <3>7
      <4>2. Rank(b) <= Rank(c)
        BY <1>2, <3>2, <3>4, <3>7, BetterIsLess
      <4>3. i \in 1 .. n + 1 /\ i <= n + 1
        BY <1>2
      <4>4. \A j \in 1 .. n + 1 : GroupOf[perms[j]] = h =>
               \/ Rank(b) < Rank(perms[j])
               \/ Rank(b) = Rank(perms[j]) /\ i <= j
        BY <2>1, <2>2, <3>3, <3>4, <4>2, <4>3
      <4> QED
        BY <3>3, <4>1, <4>3, <4>4 DEF FirstLeast
    <3> QED
      BY <3>6, <3>7
  <2>4. CASE ~ \E i \in 1 .. n : GroupOf[perms[i]] = h
    <3>1. best[h] = Nothing
      BY <1>3, <2>4 DEF BestIsFirstLeast
    <3>2. best'[h] = c
      BY <1>1, <1>3, <3>1 DEF PermissionTypeOK, Better
    <3>3. \A j \in 1 .. n + 1 : GroupOf[perms[j]] = h =>
             Rank(c) = Rank(perms[j]) /\ n + 1 <= j
      BY <1>2, <2>1, <2>2, <2>4
    <3> QED
      BY <2>1, <3>2, <3>3 DEF FirstLeast
  <2> QED
    BY <2>3, <2>4
<1>8. \E i \in 1 .. n + 1 : GroupOf[perms[i]] = h
  <2>1. n + 1 \in 1 .. n + 1
    BY <1>2
  <2> QED
    BY <2>1
<1>9. BestIsFirstLeast'
  <2> SUFFICES ASSUME NEW g \in Groups
      PROVE  IF \E i \in 1 .. n + 1 : GroupOf[perms[i]] = g
             THEN FirstLeast(best'[g], g, n + 1)
             ELSE best'[g] = Nothing
    BY <1>1 DEF BestIsFirstLeast, FirstLeast
  <2> QED
    BY <1>6, <1>7, <1>8
<1> QED
  BY <1>4, <1>9

-----------------------------------------------------------------------------
(* The other steps. *)

LEMMA InitPermissions == PermissionInit => PermissionInv
<1> SUFFICES ASSUME PermissionInit PROVE PermissionInv
  OBVIOUS
<1>1. perms \in Seq(Codes) /\ Len(perms) = 0 /\ scanned = 0
  BY EmptySeq DEF PermissionInit
<1>2. PermissionTypeOK
  BY <1>1 DEF PermissionInit, PermissionTypeOK
<1>3. BestIsFirstLeast
  BY <1>1 DEF PermissionInit, BestIsFirstLeast
<1> QED
  BY <1>1, <1>2, <1>3 DEF PermissionInv, PermissionInit, ReadersAreServed

\* Nothing has been looked at before the loop.
LEMMA NothingScanned ==
    ASSUME PermissionTypeOK, BestIsFirstLeast, scanned = 0
    PROVE  \A g \in Groups : best[g] = Nothing
BY DEF BestIsFirstLeast

LEMMA ReadStep ==
    ASSUME PermissionInv, ReadProfile
    PROVE  PermissionInv'
<1>1. /\ stage' = "effective" /\ scanned' = 0 /\ best' = best
      /\ scanned = 0 /\ answer' = answer
  BY DEF ReadProfile, PermissionInv
<1>2. PICK n \in 0 .. MaxListed : perms' \in [1 .. n -> Codes]
  BY DEF ReadProfile
<1>3. n \in Nat
  BY PermissionAssumption
<1>4. perms' \in Seq(Codes)
  BY <1>2, <1>3, SeqDef
<1>5. Len(perms') \in Nat
  BY <1>4, LenProperties
<1>6. PermissionTypeOK'
  BY <1>1, <1>4, <1>5 DEF PermissionInv, PermissionTypeOK
<1>7. \A g \in Groups : best[g] = Nothing
  BY <1>1, NothingScanned DEF PermissionInv
<1>8. BestIsFirstLeast'
  BY <1>1, <1>7 DEF BestIsFirstLeast
<1> QED
  BY <1>1, <1>6, <1>8 DEF PermissionInv, ReadersAreServed

\* The strategies of the codes differ.
LEMMA StrategyIs ==
    /\ Strategy(FullAccess) = "all"
    /\ Strategy(ReadAll) = "all"
    /\ Strategy(ReadArea) = "area"
<1>1. /\ {FullAccess, ReadAll, ReadArea} \subseteq Codes
      /\ FullAccess \notin {ReadAll, ReadArea}
      /\ ReadAll # ReadArea /\ Nothing \notin Codes
  BY PermissionAssumption
<1>2. ReadArea \notin {FullAccess, ReadAll}
  BY <1>1
<1> QED
  BY <1>1, <1>2 DEF Strategy

\* The answer of the handler.
LEMMA AnswerStep ==
    ASSUME PermissionInv, AnswerRead
    PROVE  ReadersAreServed'
<1>1. /\ stage = "handler" /\ answer' = Strategy(ReadPermission)
      /\ perms' = perms
      /\ Admitted
      /\ Holds(FullAccess) \/ scanned = Len(perms)
      /\ PermissionTypeOK /\ BestIsFirstLeast
  BY DEF AnswerRead, PermissionInv
<1>2. {FullAccess, ReadAll, ReadArea} \subseteq Codes
  BY PermissionAssumption
<1>3. CASE Holds(FullAccess)
  <2>1. answer' = "all"
    BY <1>1, <1>3, StrategyIs DEF ReadPermission
  <2> QED
    BY <1>1, <1>3, <2>1 DEF ReadersAreServed, Holds
<1>4. CASE ~ Holds(FullAccess)
  <2> DEFINE b == best[UserRead]
             n == Len(perms)
  <2>1. Holds(ReadAll) \/ Holds(ReadArea)
    BY <1>1, <1>4 DEF Admitted
  <2>2. GroupOf[ReadAll] = UserRead /\ GroupOf[ReadArea] = UserRead
    BY PermissionAssumption
  <2>3. UserRead \in Groups
    BY <1>2, <2>2 DEF Groups
  <2>4. \E i \in 1 .. n : GroupOf[perms[i]] = UserRead
    BY <2>1, <2>2 DEF Holds
  <2>5. scanned = n
    BY <1>1, <1>4
  <2>6. FirstLeast(b, UserRead, n)
    BY <1>1, <2>3, <2>4, <2>5 DEF BestIsFirstLeast
  <2>7. n \in 0 .. n
    BY <1>1, ListTypes
  <2>8. b \in Codes /\ b # Nothing /\ GroupOf[b] = UserRead
    BY <1>1, <2>6, <2>7, BestIsCode
  <2>9. PICK i \in 1 .. n :
          /\ perms[i] = b
          /\ \A j \in 1 .. n : GroupOf[perms[j]] = UserRead =>
                Rank(b) < Rank(perms[j]) \/ Rank(b) = Rank(perms[j])
    BY <2>6 DEF FirstLeast
  <2>10. b # FullAccess /\ ReadPermission = b
    BY <1>4, <2>9 DEF Holds, ReadPermission
  <2>11. ASSUME NEW c \in Codes, Holds(c), GroupOf[c] = UserRead
         PROVE  Rank(b) <= Rank(c)
    BY <2>8, <2>9, <2>11, RankTypes DEF Holds
  <2>12. CASE Holds(ReadAll)
    <3>1. b = ReadAll
      BY <1>2, <2>2, <2>8, <2>10, <2>11, <2>12, ReadAllIsLeast
    <3>2. answer' = "all"
      BY <1>1, <2>10, <3>1, StrategyIs
    <3> QED
      BY <1>1, <2>12, <3>2 DEF ReadersAreServed, Holds
  <2>13. CASE ~ Holds(ReadAll)
    <3>1. Holds(ReadArea)
      BY <2>1, <2>13
    <3>2. b # ReadAll
      BY <2>9, <2>13 DEF Holds
    <3>3. CASE b = ReadArea
      <4>1. answer' = "area"
        BY <1>1, <2>10, <3>3, StrategyIs
      <4> QED
        BY <1>1, <1>4, <2>13, <3>1, <4>1 DEF ReadersAreServed, Holds
    <3>4. CASE b # ReadArea
      <4>1. Rank(b) <= Rank(ReadArea)
        BY <1>2, <2>2, <2>11, <3>1
      <4>2. \E j \in 1 .. Len(perms) :
               /\ perms[j] # ReadArea
               /\ GroupOf[perms[j]] = UserRead
               /\ Rank(perms[j]) <= Rank(ReadArea)
        BY <2>8, <2>9, <3>4, <4>1
      <4> QED
        BY <1>1, <1>4, <2>13, <3>1, <4>2 DEF ReadersAreServed, Holds
    <3> QED
      BY <3>3, <3>4
  <2> QED
    BY <2>12, <2>13
<1> QED
  BY <1>3, <1>4

LEMMA InvStep ==
    ASSUME PermissionInv, [PermissionNext]_permissionVars
    PROVE  PermissionInv'
<1>0. PermissionTypeOK /\ BestIsFirstLeast
  BY DEF PermissionInv
<1>1. CASE UNCHANGED permissionVars
  <2>1. /\ stage' = stage /\ perms' = perms /\ scanned' = scanned
        /\ best' = best /\ answer' = answer
    BY <1>1 DEF permissionVars
  <2>2. PermissionTypeOK' /\ BestIsFirstLeast' /\ ReadersAreServed'
    BY <2>1 DEF PermissionInv, PermissionTypeOK, BestIsFirstLeast,
       FirstLeast, ReadersAreServed, Holds
  <2> QED
    BY <2>1, <2>2 DEF PermissionInv, Holds, Admitted
<1>2. CASE ReadProfile
  BY <1>2, ReadStep
<1>3. CASE ScanPermission
  <2>1. PermissionTypeOK' /\ BestIsFirstLeast'
    BY <1>0, <1>3, ScanStep
  <2>2. stage' = "effective"
    BY <1>3 DEF ScanPermission
  <2> QED
    BY <2>1, <2>2 DEF PermissionInv, ReadersAreServed
<1>4. CASE TakeFullAccess \/ EndScan \/ Guard \/ AnswerRead
  <2>1. /\ perms' = perms /\ scanned' = scanned /\ best' = best
        /\ stage' \in {"guard", "handler", "answered"}
    BY <1>4 DEF TakeFullAccess, EndScan, Guard, AnswerRead
  <2>2. BestIsFirstLeast'
    BY <1>0, <2>1 DEF BestIsFirstLeast, FirstLeast
  <2>3. answer' \in Answers \cup {Nothing}
    BY <1>0, <1>4 DEF TakeFullAccess, EndScan, Guard, AnswerRead,
       PermissionTypeOK, Answers, Strategy
  <2>4. PermissionTypeOK'
    BY <1>0, <2>1, <2>3 DEF PermissionTypeOK
  <2>5. stage' \in {"guard", "handler"} =>
           Holds(FullAccess) \/ scanned = Len(perms)
    BY <1>4 DEF TakeFullAccess, EndScan, Guard, AnswerRead, PermissionInv
  <2>6. stage' = "handler" => Admitted
    BY <1>4 DEF TakeFullAccess, EndScan, Guard, AnswerRead, PermissionInv
  <2>7. ReadersAreServed'
    <3>1. CASE AnswerRead
      BY <3>1, AnswerStep
    <3>2. CASE Guard
      BY <2>1, <3>2 DEF Guard, Admitted, ReadersAreServed, Holds
    <3>3. CASE TakeFullAccess \/ EndScan
      BY <3>3 DEF TakeFullAccess, EndScan, ReadersAreServed
    <3> QED
      BY <1>4, <3>1, <3>2, <3>3
  <2> QED
    BY <2>1, <2>2, <2>4, <2>5, <2>6, <2>7
    DEF PermissionInv, Holds, Admitted
<1>5. CASE NextRequest
  <2>1. /\ stage' = "profile" /\ perms' = <<>> /\ scanned' = 0
        /\ best' = [g \in Groups |-> Nothing] /\ answer' = Nothing
    BY <1>5 DEF NextRequest
  <2>2. perms' \in Seq(Codes) /\ Len(perms') = 0
    BY <2>1, EmptySeq
  <2>3. PermissionTypeOK'
    BY <2>1, <2>2 DEF PermissionTypeOK
  <2>4. BestIsFirstLeast'
    BY <2>1 DEF BestIsFirstLeast
  <2> QED
    BY <2>1, <2>3, <2>4 DEF PermissionInv, ReadersAreServed
<1> QED
  BY <1>1, <1>2, <1>3, <1>4, <1>5 DEF PermissionNext

\* The types, the Map and the answer are sound in every reachable state.
THEOREM PermissionInvariant == PermissionSpec => []PermissionInv
<1>1. PermissionInit => PermissionInv
  BY InitPermissions
<1>2. PermissionInv /\ [PermissionNext]_permissionVars => PermissionInv'
  BY InvStep
<1> QED
  BY <1>1, <1>2, PTL DEF PermissionSpec

\* The Map holds the first of the least permissions of each group.
THEOREM BestIsSound == PermissionSpec => []BestIsFirstLeast
<1>1. PermissionInv => BestIsFirstLeast
  BY DEF PermissionInv
<1> QED
  BY <1>1, PermissionInvariant, PTL

\* Who may read all users, or those of the areas, is answered accordingly.
THEOREM ReadersServed == PermissionSpec => []ReadersAreServed
<1>1. PermissionInv => ReadersAreServed
  BY DEF PermissionInv
<1> QED
  BY <1>1, PermissionInvariant, PTL

=============================================================================
