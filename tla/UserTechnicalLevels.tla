------------------------- MODULE UserTechnicalLevels ------------------------
(***************************************************************************)
(* The technical level of each user, as kept by                            *)
(* src/src/modules/user-technical-level/user-technical-level.service.ts.   *)
(*                                                                         *)
(* create deletes what the user has and inserts the new level, without a   *)
(* transaction; the pair of a user and a level is unique.                  *)
(***************************************************************************)
EXTENDS Integers

CONSTANTS
    LevelUsers,
    Levels,
    LevelCalls,      \* slots for the create calls in flight
    NoLevel,         \* null
    MaxLevelRequests,\* bound on the requests
    MaxLevelCuts     \* bound on the calls cut short

\* A call between its two statements.  alone is a history: no other call of
\* the user has been in flight.
LevelCall == [user : LevelUsers, level : Levels, alone : BOOLEAN]

ASSUME LevelAssumption ==
    /\ NoLevel \notin Levels \cup LevelCall
    /\ MaxLevelRequests \in Nat
    /\ MaxLevelCuts \in Nat

VARIABLES
    levels,        \* the table: pairs of a user and a level
    levelCalls,    \* the calls in flight
    levelAsked,    \* history: the level last inserted, by user
    settledUsers,  \* history: users whose last insert was of a call alone
    levelRequests, \* history: the number of requests so far
    levelCuts      \* history: the number of calls cut short so far

levelVars ==
    <<levels, levelCalls, levelAsked, settledUsers, levelRequests, levelCuts>>

LevelInit ==
    /\ levels = {}
    /\ levelCalls = [c \in LevelCalls |-> NoLevel]
    /\ levelAsked = [u \in LevelUsers |-> NoLevel]
    /\ settledUsers = LevelUsers
    /\ levelRequests = 0
    /\ levelCuts = 0

SettingLevelOf(u) ==
    {c \in LevelCalls : levelCalls[c] # NoLevel /\ levelCalls[c].user = u}

LevelsOf(u) == {x \in levels : x[1] = u}

RequestLevel ==
    /\ levelRequests < MaxLevelRequests
    /\ levelRequests' = levelRequests + 1

\* Mutant: only the level that is set is deleted.
DeleteSameLevel(c, u, l) ==
    /\ levelCalls[c] = NoLevel
    /\ RequestLevel
    /\ levels' = levels \ {<<u, l>>}
    /\ levelCalls' = [d \in LevelCalls |->
          IF d = c
          THEN [user |-> u, level |-> l, alone |-> SettingLevelOf(u) = {}]
          ELSE IF d \in SettingLevelOf(u)
          THEN [levelCalls[d] EXCEPT !.alone = FALSE]
          ELSE levelCalls[d]]
    /\ settledUsers' = settledUsers \ {u}
    /\ UNCHANGED <<levelAsked, levelCuts>>

DeleteLevels(c, u, l) ==
    /\ levelCalls[c] = NoLevel
    /\ RequestLevel
    /\ levels' = levels \ LevelsOf(u)
    /\ levelCalls' = [d \in LevelCalls |->
          IF d = c
          THEN [user |-> u, level |-> l, alone |-> SettingLevelOf(u) = {}]
          ELSE IF d \in SettingLevelOf(u)
          THEN [levelCalls[d] EXCEPT !.alone = FALSE]
          ELSE levelCalls[d]]
    /\ settledUsers' = settledUsers \ {u}
    /\ UNCHANGED <<levelAsked, levelCuts>>

\* The unique key turns a pair that is there down.
InsertLevel(c) ==
    LET me == levelCalls[c] IN
    /\ me # NoLevel
    /\ IF <<me.user, me.level>> \in levels
       THEN UNCHANGED <<levels, levelAsked, settledUsers>>
       ELSE /\ levels' = levels \cup {<<me.user, me.level>>}
            /\ levelAsked' = [levelAsked EXCEPT ![me.user] = me.level]
            /\ settledUsers' = IF me.alone THEN settledUsers \cup {me.user}
                               ELSE settledUsers
    /\ levelCalls' = [levelCalls EXCEPT ![c] = NoLevel]
    /\ UNCHANGED <<levelRequests, levelCuts>>

RemoveLevel(x) ==
    /\ RequestLevel
    /\ x \in levels
    /\ levels' = levels \ {x}
    /\ levelAsked' = IF levelAsked[x[1]] = x[2]
                     THEN [levelAsked EXCEPT ![x[1]] = NoLevel]
                     ELSE levelAsked
    /\ UNCHANGED <<levelCalls, settledUsers, levelCuts>>

\* A fault: the insert fails or the server stops.
CutLevelCall(c) ==
    /\ levelCalls[c] # NoLevel
    /\ levelCuts < MaxLevelCuts
    /\ levelCalls' = [levelCalls EXCEPT ![c] = NoLevel]
    /\ levelCuts' = levelCuts + 1
    /\ UNCHANGED <<levels, levelAsked, settledUsers, levelRequests>>

LevelNext ==
    \/ \E c \in LevelCalls :
          \/ \E u \in LevelUsers, l \in Levels : DeleteLevels(c, u, l)
          \/ InsertLevel(c)
          \/ CutLevelCall(c)
    \/ \E x \in LevelUsers \X Levels : RemoveLevel(x)

LevelSpec == LevelInit /\ [][LevelNext]_levelVars

-----------------------------------------------------------------------------
(* Properties *)

\* A user has the level that was set last and no other, unless it is being
\* set, a call was cut short in between, or two calls overlapped.
LevelAsAsked ==
    \A u \in settledUsers :
        LevelsOf(u) = IF levelAsked[u] = NoLevel THEN {}
                      ELSE {<<u, levelAsked[u]>>}

-----------------------------------------------------------------------------

LevelTypeOK ==
    /\ levels \subseteq LevelUsers \X Levels
    /\ levelCalls \in [LevelCalls -> LevelCall \cup {NoLevel}]
    /\ levelAsked \in [LevelUsers -> Levels \cup {NoLevel}]
    /\ settledUsers \subseteq LevelUsers

\* The inductive invariant: nobody sets the level of a settled user, and a call
\* that has been alone finds the levels as it has left them.
LevelInv ==
    /\ LevelTypeOK
    /\ LevelAsAsked
    /\ \A u \in LevelUsers : \A c \in SettingLevelOf(u) :
          /\ u \notin settledUsers
          /\ levelCalls[c].alone => SettingLevelOf(u) = {c} /\ LevelsOf(u) = {}

=============================================================================
