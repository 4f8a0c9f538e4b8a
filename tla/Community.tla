----------------------------- MODULE Community -----------------------------
(***************************************************************************)
(* CommunityService: a suggestion of a villager and the support it has.      *)
(***************************************************************************)
EXTENDS Requests

CONSTANTS Villagers,       \* customers
          MaxSupports      \* bound: rows of CommunitySuggestionSupport

VARIABLES suggested,       \* the CommunitySuggestion exists
          support,         \* villager -> support row, or 0
          supports,        \* how many rows were created
          taps             \* villager -> taps that were answered with success

communityVars == <<suggested, support, supports, taps>>

CommunityInit ==
    /\ suggested = FALSE
    /\ support = [v \in Villagers |-> 0]
    /\ supports = 0
    /\ taps = [v \in Villagers |-> 0]

(* createSuggestion: two statements.                                        *)
Suggest(w, v) ==
    /\ ~suggested /\ suggested' = TRUE
    /\ Start(w, [op |-> "add", by |-> v])
    /\ UNCHANGED <<support, supports, taps>>

(* toggleSupport.                                                           *)
ToggleReads(w, v) ==
    /\ suggested
    /\ Start(w, IF support[v] = 0 THEN [op |-> "add", by |-> v]
                ELSE [op |-> "drop", by |-> v, row |-> support[v]])
    /\ UNCHANGED communityVars

(* INSERT, refused when the unique pair is there.                           *)
SupportAdded(w) ==
    LET v == job[w].by IN
    /\ Doing(w, "add")
    /\ IF support[v] = 0
       THEN /\ supports < MaxSupports
            /\ supports' = supports + 1
            /\ support' = [support EXCEPT ![v] = supports']
            /\ taps' = [taps EXCEPT ![v] = @ + 1]
       ELSE UNCHANGED <<support, supports, taps>>
    /\ Finish(w)
    /\ UNCHANGED suggested

(* DELETE by the id of the row that was read, refused when it is gone.       *)
RowFound_Mutant(v, row) == TRUE        \* deleteMany
RowFound(v, row) == support[v] = row

SupportDropped(w) ==
    LET v == job[w].by IN
    /\ Doing(w, "drop")
    /\ IF RowFound(v, job[w].row)
       THEN /\ support' = [support EXCEPT ![v] = 0]
            /\ taps' = [taps EXCEPT ![v] = @ + 1]
       ELSE UNCHANGED <<support, taps>>
    /\ Finish(w)
    /\ UNCHANGED <<suggested, supports>>

CommunityNext ==
    \E w \in Workers :
      \/ \E v \in Villagers : Suggest(w, v) \/ ToggleReads(w, v)
      \/ SupportAdded(w) \/ SupportDropped(w)
      \/ Crash(w) /\ UNCHANGED communityVars

(* A villager supports a suggestion exactly when the taps that were answered *)
(* with success are odd in number, however fast he taps: the unique pair and *)
(* the row's id refuse the tap that decided on an older state.               *)
SupportFollowsTaps ==
    \A v \in Villagers : (support[v] # 0) <=> (taps[v] % 2 = 1)
=============================================================================
