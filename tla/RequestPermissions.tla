------------------------- MODULE RequestPermissions -------------------------
(***************************************************************************)
(* The way of a request for the users (UsersController.findAll) through    *)
(* ProfileGuard and PermissionsGuard to the strategy that answers it.      *)
(*                                                                         *)
(* ProfileGuard lists the permissions of all roles of the user, in any     *)
(* order and with repetitions.  PermissionsGuard reduces the list to one   *)
(* permission for each module and group, the one with the least priority,  *)
(* and admits the user who has one of those the handler names.  The        *)
(* handler answers by the one left of the group of reading users.          *)
(* Requests share nothing: one of them at a time is modelled.              *)
(***************************************************************************)
EXTENDS Integers, Sequences

CONSTANTS
    Codes,       \* the codes of the permissions
    FullAccess,  \* system.full_access
    ReadAll,     \* user.read
    ReadArea,    \* user.area.read
    GroupOf,     \* the module and group of a permission
    UserRead,    \* the module user and the group read
    Priority,    \* the priority of a permission
    NoPriority,  \* null
    Nothing,     \* undefined
    MaxListed    \* bound on the length of the list

\* Priorities count the parts of the codes (getPriority of the seed): nowhere
\* near the values that stand for null.
ASSUME PermissionAssumption ==
    /\ {FullAccess, ReadAll, ReadArea} \subseteq Codes
    /\ FullAccess \notin {ReadAll, ReadArea}
    /\ ReadAll # ReadArea
    /\ GroupOf[ReadAll] = UserRead /\ GroupOf[ReadArea] = UserRead
    /\ NoPriority \notin Nat
    /\ \A c \in Codes : \/ Priority[c] = NoPriority
                        \/ Priority[c] \in Nat /\ Priority[c] < 9999
    /\ Priority[ReadAll] # NoPriority
    /\ \A c \in Codes \ {ReadAll, FullAccess} : GroupOf[c] = UserRead =>
          Priority[c] = NoPriority \/ Priority[ReadAll] < Priority[c]
    /\ Nothing \notin Codes
    /\ MaxListed \in Nat

Groups == {GroupOf[c] : c \in Codes}

VARIABLES
    stage,   \* where the request is
    perms,   \* req.user.permissionsData
    scanned, \* how many of them the loop has been over
    best,    \* the Map of the loop: by group, a permission or undefined
    answer   \* which users the answer has

permissionVars == <<stage, perms, scanned, best, answer>>

Answers == {"all", "area", "forbidden", "failed"}

PermissionInit ==
    /\ stage = "profile"
    /\ perms = <<>>
    /\ scanned = 0
    /\ best = [g \in Groups |-> Nothing]
    /\ answer = Nothing

Holds(c) == \E i \in 1 .. Len(perms) : perms[i] = c

ReadProfile ==
    /\ stage = "profile"
    /\ \E n \in 0 .. MaxListed : perms' \in [1 .. n -> Codes]
    /\ stage' = "effective"
    /\ UNCHANGED <<scanned, best, answer>>

\* getEffectivePermissions: full access is all there is, or the loop runs.
TakeFullAccess ==
    /\ stage = "effective"
    /\ Holds(FullAccess)
    /\ stage' = "guard"
    /\ UNCHANGED <<perms, scanned, best, answer>>

\* The two defaults for null differ.
NewPriority(c) == IF Priority[c] = NoPriority THEN 99999 ELSE Priority[c]
OldPriority(c) == IF Priority[c] = NoPriority THEN 9999 ELSE Priority[c]

\* Mutant: the later of two equals wins.
BetterOrEqual(c, old) == old = Nothing \/ NewPriority(c) <= OldPriority(old)

Better(c, old) == old = Nothing \/ NewPriority(c) < OldPriority(old)

\* Mutant: the Map keeps what comes first.
ScanFirst ==
    /\ stage = "effective"
    /\ ~ Holds(FullAccess)
    /\ scanned < Len(perms)
    /\ LET c == perms[scanned + 1]
           g == GroupOf[c]
       IN  best' = IF best[g] = Nothing THEN [best EXCEPT ![g] = c] ELSE best
    /\ scanned' = scanned + 1
    /\ UNCHANGED <<stage, perms, answer>>

\* A turn of the loop of reducePermissions.
ScanPermission ==
    /\ stage = "effective"
    /\ ~ Holds(FullAccess)
    /\ scanned < Len(perms)
    /\ LET c == perms[scanned + 1]
           g == GroupOf[c]
       IN  best' = IF Better(c, best[g]) THEN [best EXCEPT ![g] = c] ELSE best
    /\ scanned' = scanned + 1
    /\ UNCHANGED <<stage, perms, answer>>

EndScan ==
    /\ stage = "effective"
    /\ ~ Holds(FullAccess)
    /\ scanned = Len(perms)
    /\ stage' = "guard"
    /\ UNCHANGED <<perms, scanned, best, answer>>

\* canActivate: the handler names user.read and user.area.read.
Admitted == Holds(FullAccess) \/ Holds(ReadAll) \/ Holds(ReadArea)

Guard ==
    /\ stage = "guard"
    /\ IF Admitted
       THEN stage' = "handler" /\ UNCHANGED answer
       ELSE stage' = "answered" /\ answer' = "forbidden"
    /\ UNCHANGED <<perms, scanned, best>>

\* readPer: the permission left of its group, or full access.
ReadPermission ==
    IF Holds(FullAccess) THEN FullAccess ELSE best[UserRead]

\* userReadStrategies; a code without a strategy is not a function to call.
Strategy(c) ==
    CASE c \in {FullAccess, ReadAll} -> "all"
      [] c = ReadArea -> "area"
      [] c = Nothing -> "forbidden"
      [] OTHER -> "failed"

AnswerRead ==
    /\ stage = "handler"
    /\ stage' = "answered"
    /\ answer' = Strategy(ReadPermission)
    /\ UNCHANGED <<perms, scanned, best>>

NextRequest ==
    /\ stage = "answered"
    /\ stage' = "profile"
    /\ perms' = <<>>
    /\ scanned' = 0
    /\ best' = [g \in Groups |-> Nothing]
    /\ answer' = Nothing

PermissionNext ==
    \/ ReadProfile \/ TakeFullAccess \/ ScanPermission \/ EndScan \/ Guard
    \/ AnswerRead \/ NextRequest

PermissionSpec == PermissionInit /\ [][PermissionNext]_permissionVars

-----------------------------------------------------------------------------
(* Properties *)

Rank(c) == NewPriority(c)

\* The least permission of a group, the first of equals, among those the loop
\* has been over.
FirstLeast(c, g, n) ==
    \E i \in 1 .. n :
        /\ perms[i] = c
        /\ GroupOf[c] = g
        /\ \A j \in 1 .. n : GroupOf[perms[j]] = g =>
              \/ Rank(c) < Rank(perms[j])
              \/ Rank(c) = Rank(perms[j]) /\ i <= j

\* The Map has the first of the permissions with the least priority of each
\* group, null being the greatest, whichever order roles list them in: the
\* different defaults for null do not matter.
BestIsFirstLeast ==
    \A g \in Groups :
        IF \E i \in 1 .. scanned : GroupOf[perms[i]] = g
        THEN FirstLeast(best[g], g, scanned)
        ELSE best[g] = Nothing

\* A user who may read all users is shown all, one who may read those of the
\* areas is shown these, unless a permission of the same group that has no
\* strategy comes before by its priority or its place.
ReadersAreServed ==
    stage = "answered" =>
        IF Holds(FullAccess) \/ Holds(ReadAll) THEN answer = "all"
        ELSE IF ~ Holds(ReadArea) THEN answer = "forbidden"
        ELSE \/ answer = "area"
             \/ \E i \in 1 .. Len(perms) :
                   /\ perms[i] # ReadArea
                   /\ GroupOf[perms[i]] = UserRead
                   /\ Rank(perms[i]) <= Rank(ReadArea)

-----------------------------------------------------------------------------

PermissionTypeOK ==
    /\ stage \in {"profile", "effective", "guard", "handler", "answered"}
    /\ perms \in Seq(Codes)
    /\ scanned \in 0 .. Len(perms)
    /\ best \in [Groups -> Codes \cup {Nothing}]
    /\ answer \in Answers \cup {Nothing}

\* The inductive invariant.
PermissionInv ==
    /\ PermissionTypeOK
    /\ BestIsFirstLeast
    /\ stage = "profile" => scanned = 0
    /\ stage \in {"guard", "handler"} =>
          Holds(FullAccess) \/ scanned = Len(perms)
    /\ stage = "handler" => Admitted
    /\ ReadersAreServed
=============================================================================
