---------------------------- MODULE LatestAnswer ----------------------------
(***************************************************************************)
(* What a pane that calculates in the background promises: at most one     *)
(* calculation runs, for the question the pane last looked at, and only    *)
(* its own answer or failure is kept; a failure is shown for the question  *)
(* it answers and for no other.                                            *)
(***************************************************************************)
CONSTANTS Questions, Nothing

VARIABLES
  wanted,   \* the question the pane last looked at
  open,     \* the pane wants an answer
  success,  \* the question of the last answer
  failure,  \* the question of the failure on screen
  working   \* the questions being calculated

vars == <<wanted, open, success, failure, working>>

Init ==
  /\ wanted \in Questions \cup {Nothing}
  /\ open \in BOOLEAN
  /\ success = Nothing /\ failure = Nothing
  /\ working = {}

(* The pane looks at the question again: what runs for another one stops.  *)
Look ==
  /\ wanted' \in Questions \cup {Nothing}
  /\ open' \in BOOLEAN
  /\ failure' = IF failure = wanted' THEN failure ELSE Nothing
  /\ working' = IF open' THEN working \cap {wanted'} ELSE {}
  /\ UNCHANGED success

(* A calculation starts, in place of the one that runs.                    *)
Start ==
  /\ open /\ wanted' # Nothing
  /\ wanted' \in Questions
  /\ working' = {wanted'}
  /\ failure' = Nothing
  /\ UNCHANGED <<open, success>>

Answer ==
  /\ open /\ working = {wanted}
  /\ success' = wanted /\ failure' = Nothing
  /\ working' = {}
  /\ UNCHANGED <<wanted, open>>

Fail ==
  /\ open /\ working = {wanted}
  /\ failure' = wanted
  /\ working' = {}
  /\ UNCHANGED <<wanted, open, success>>

Stop ==
  /\ working' = {}
  /\ UNCHANGED <<wanted, open, success, failure>>

(* The pane has nothing left to compare and forgets what it showed.        *)
Forget ==
  /\ wanted' \in Questions \cup {Nothing}
  /\ success' = Nothing /\ failure' = Nothing
  /\ working' = {}
  /\ UNCHANGED open

Next == Look \/ Start \/ Answer \/ Fail \/ Stop \/ Forget

Spec == Init /\ [][Next]_vars
=============================================================================
