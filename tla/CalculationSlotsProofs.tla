----------------------- MODULE CalculationSlotsProofs -----------------------
(***************************************************************************)
(* Proofs about CalculationSlots for every set of inputs and Worker tasks: *)
(* each pane implements LatestAnswer, and shows "building" only while a    *)
(* task for the inputs on screen runs or is about to start.  What a pane   *)
(* has looked at (seen) and what is on screen (source) differ only in the  *)
(* Duel, between a commit and its passive effects; the strengthening says  *)
(* what is still due then.                                                 *)
(***************************************************************************)
EXTENDS CalculationSlots, TLAPS

(* Only the task in the slot runs, for what the pane looked at last.       *)
OnlySlotRuns == running = IF slot = NoTask THEN {} ELSE {slot}

SlotIsSeen ==
  IF slot = NoTask THEN pending = NoSource
  ELSE /\ computes[slot] = seen /\ pending = seen
       /\ seen \in Inputs /\ active

EffectsOfPane ==
  /\ pane # "planner" => active /\ "task" \notin due
  /\ pane # "duel" => seen = source /\ due \cap {"source", "empty"} = {}

EffectsDue == due \cap {"source", "empty"} # {}

SeenUnlessDue == pane = "duel" /\ seen # source => EffectsDue

(* A failure for other inputs than the ones looked at is about to go.      *)
FailureIsSeen ==
  failure \notin {seen, NoSource} => pane = "duel" /\ seen = source /\ EffectsDue

PlannerTaskIsDue ==
  /\ pane = "planner" /\ active /\ source # NoSource
  /\ slot = NoTask /\ source \notin {success, failure}
  => "task" \in due

IInv ==
  /\ TypeOK /\ OnlySlotRuns /\ SlotIsSeen /\ EffectsOfPane
  /\ SeenUnlessDue /\ FailureIsSeen /\ PlannerTaskIsDue

-----------------------------------------------------------------------------
LEMMA InitInv == Init => IInv
<1> SUFFICES ASSUME Init PROVE IInv OBVIOUS
<1> USE DEF Init
<1>1. due \in SUBSET {"task", "source", "empty"} /\ EffectsOfPane
  BY DEF EffectsOfPane
<1>2. computes \in [Task -> MaybeSource]
  BY DEF MaybeSource
<1>3. TypeOK
  BY <1>1, <1>2 DEF TypeOK, MaybeSource, MaybeTask
<1> QED BY <1>1, <1>3 DEF IInv, OnlySlotRuns, SlotIsSeen, SeenUnlessDue, FailureIsSeen,
                          PlannerTaskIsDue

(* What a commit does to the screen, whichever handler makes it.           *)
ScreenChanges ==
  /\ active' \in BOOLEAN /\ setups' \in BOOLEAN /\ source' \in MaybeSource
  /\ pane # "planner" => active' = active

LEMMA CommitInv ==
  ASSUME IInv, NEW retried \in BOOLEAN, ScreenChanges, Commit(retried),
         retried => pane = "planner"
  PROVE  IInv'
<1> USE CalculationAssumption DEF IInv, Commit, ScreenChanges
<1>1. due = {} /\ seen = source /\ failure \in {seen, NoSource}
  BY DEF EffectsOfPane, SeenUnlessDue, FailureIsSeen, EffectsDue, TypeOK
<1>2. /\ due' \in SUBSET {"task", "source", "empty"}
      /\ pane # "planner" => "task" \notin due'
      /\ pane # "duel" => due' \cap {"source", "empty"} = {}
      /\ pane = "planner" /\ (active' # active \/ source' # source) => "task" \in due'
      /\ pane = "duel" /\ source' # source => "source" \in due'
  BY DEF DuePassive, TaskIsDue
<1>3. CASE pane # "duel" /\ (active' # active \/ source' # source)
  <2>1. /\ seen' = source'
        /\ failure' = IF failure = source' THEN failure ELSE NoSource
        /\ IF slot # NoTask /\ (~active' \/ computes[slot] # source')
             THEN ReleaseSlot ELSE KeepSlot
    BY <1>3 DEF LayoutEffect, LookAgain
  <2>2. OnlySlotRuns' /\ SlotIsSeen' /\ running' \in SUBSET Task /\ slot' \in MaybeTask
        /\ pending' \in MaybeSource
    BY <2>1 DEF OnlySlotRuns, SlotIsSeen, ReleaseSlot, KeepSlot, TypeOK, MaybeTask,
                MaybeSource
  <2>3. TypeOK'
    BY <1>2, <2>1, <2>2 DEF TypeOK, MaybeSource
  <2>4. (EffectsOfPane /\ SeenUnlessDue /\ FailureIsSeen /\ PlannerTaskIsDue)'
    BY <1>2, <1>3, <2>1 DEF EffectsOfPane, SeenUnlessDue, FailureIsSeen,
                            PlannerTaskIsDue, TypeOK
  <2> QED BY <2>2, <2>3, <2>4
<1>4. CASE ~(pane # "duel" /\ (active' # active \/ source' # source))
  <2>1. UNCHANGED <<slot, pending, running, seen, failure>>
    BY <1>4 DEF LayoutEffect, KeepSlot
  <2>2. TypeOK'
    BY <1>2, <2>1 DEF TypeOK
  <2>3. active' = active
    BY <1>4 DEF EffectsOfPane, TypeOK
  <2>4. OnlySlotRuns' /\ SlotIsSeen'
    BY <2>1, <2>3 DEF OnlySlotRuns, SlotIsSeen
  <2>5. EffectsOfPane' /\ SeenUnlessDue' /\ FailureIsSeen'
    BY <1>1, <1>2, <1>4, <2>1 DEF EffectsOfPane, SeenUnlessDue, FailureIsSeen, EffectsDue
  <2>6. PlannerTaskIsDue'
    BY <1>1, <1>2, <1>4, <2>1, <2>3 DEF PlannerTaskIsDue
  <2> QED BY <2>2, <2>4, <2>5, <2>6
<1> QED BY <1>3, <1>4

(* A task starts, and the pane has looked at its source.                   *)
LEMMA StartInv ==
  ASSUME IInv, NEW s \in Inputs, s = source, active, StartTask(s), seen' = s,
         UNCHANGED <<screen, success>>,
         \/ due' = {} /\ pane = "planner"
         \/ due' = due /\ pane # "planner"
  PROVE  IInv' /\ running' = {slot'} /\ computes'[slot'] = s
<1> USE CalculationAssumption DEF IInv, StartTask, screen
<1>1. PICK t \in Task \ (running \cup {slot, owner}) :
        /\ slot' = t
        /\ owner' = IF pane = "planner" THEN t ELSE owner
        /\ running' = (running \ {slot}) \cup {t}
        /\ computes' = [computes EXCEPT ![t] = s]
  OBVIOUS
<1>2. running' = {t} /\ computes'[t] = s /\ slot' # NoTask
  BY <1>1 DEF OnlySlotRuns, TypeOK
<1>3. failure' \in {failure, NoSource} /\ failure' # s
  OBVIOUS
<1>4. TypeOK'
  <2>1. computes' \in [Task -> MaybeSource]
    BY <1>1 DEF TypeOK, MaybeSource
  <2>2. owner' \in MaybeTask /\ slot' \in MaybeTask /\ running' \in SUBSET Task
    BY <1>1, <1>2 DEF TypeOK, MaybeTask
  <2>3. {source', seen', pending', success', failure'} \subseteq MaybeSource
    BY <1>3 DEF TypeOK, MaybeSource
  <2>4. due' \in SUBSET {"task", "source", "empty"}
    BY DEF TypeOK
  <2> QED BY <2>1, <2>2, <2>3, <2>4 DEF TypeOK
<1>5. OnlySlotRuns' /\ SlotIsSeen' /\ PlannerTaskIsDue'
  BY <1>1, <1>2 DEF OnlySlotRuns, SlotIsSeen, PlannerTaskIsDue
<1>6. EffectsOfPane' /\ SeenUnlessDue'
  BY DEF EffectsOfPane, SeenUnlessDue
<1>7. FailureIsSeen'
  <2> SUFFICES ASSUME failure' \notin {seen', NoSource}
               PROVE  pane = "duel" /\ due' \cap {"source", "empty"} # {}
    BY DEF FailureIsSeen, EffectsDue
  <2>1. failure = failure' /\ failure \notin {s, NoSource}
    BY <1>3
  <2>2. pane = "duel" /\ EffectsDue
    BY <2>1 DEF FailureIsSeen, SeenUnlessDue, EffectsOfPane
  <2> QED BY <2>2 DEF EffectsDue
<1> QED BY <1>1, <1>2, <1>4, <1>5, <1>6, <1>7

LEMMA PlanInv == ASSUME IInv, PlanTask PROVE IInv'
<1> USE DEF IInv, PlanTask, screen
<1>1. pane = "planner" /\ seen = source
  BY DEF EffectsOfPane
<1>2. CASE active /\ source # NoSource
  <2>1. source \in Inputs
    BY <1>2 DEF TypeOK, MaybeSource
  <2> QED BY <1>1, <1>2, <2>1, StartInv
<1>3. CASE ~(active /\ source # NoSource)
  <2>1. slot = NoTask
    BY <1>1, <1>3, CalculationAssumption DEF SlotIsSeen
  <2>2. UNCHANGED <<slot, pending, running>>
    BY <1>3, <2>1, CalculationAssumption
       DEF ReleaseSlot, KeepSlot, OnlySlotRuns, SlotIsSeen
  <2>3. TypeOK'
    BY <1>3, <2>2 DEF TypeOK, MaybeTask
  <2> QED BY <1>1, <1>3, <2>2, <2>3
          DEF OnlySlotRuns, SlotIsSeen, EffectsOfPane, SeenUnlessDue, FailureIsSeen,
              PlannerTaskIsDue, EffectsDue
<1> QED BY <1>2, <1>3

LEMMA CancelInv == ASSUME IInv, CancelAnalysis PROVE IInv'
<1> USE DEF IInv, CancelAnalysis, ReleaseSlot, screen, results
<1>1. slot' = NoTask /\ pending' = NoSource /\ running' = {}
  BY DEF OnlySlotRuns
<1>2. TypeOK'
  BY <1>1 DEF TypeOK, MaybeTask, MaybeSource
<1> QED BY <1>1, <1>2 DEF OnlySlotRuns, SlotIsSeen, EffectsOfPane, SeenUnlessDue,
                          FailureIsSeen, PlannerTaskIsDue, EffectsDue

LEMMA DuelEffectsInv == ASSUME IInv, DuelEffects PROVE IInv'
<1> USE DEF IInv, DuelEffects, screen
<1>1. pane = "duel" /\ active
  BY DEF EffectsOfPane
<1>2. CASE "empty" \in due
  <2>1. /\ slot' = NoTask /\ pending' = NoSource /\ running' = {}
        /\ failure' = NoSource /\ success' = NoSource /\ seen' = source
    BY <1>2, CalculationAssumption DEF ReleaseSlot, OnlySlotRuns
  <2>2. TypeOK'
    BY <2>1 DEF TypeOK, MaybeTask, MaybeSource
  <2> QED BY <1>1, <2>1, <2>2 DEF OnlySlotRuns, SlotIsSeen, EffectsOfPane, SeenUnlessDue,
                                  FailureIsSeen, PlannerTaskIsDue
<1>3. CASE "empty" \notin due
  <2>1. /\ seen' = source /\ UNCHANGED success
        /\ failure' = IF failure = source THEN failure ELSE NoSource
        /\ IF slot # NoTask /\ computes[slot] # source THEN ReleaseSlot ELSE KeepSlot
    BY <1>1, <1>3 DEF LookAgain
  <2>2. OnlySlotRuns' /\ SlotIsSeen' /\ running' \in SUBSET Task /\ slot' \in MaybeTask
        /\ pending' \in MaybeSource
    BY <1>1, <2>1, CalculationAssumption
       DEF OnlySlotRuns, SlotIsSeen, ReleaseSlot, KeepSlot, TypeOK, MaybeTask, MaybeSource
  <2>3. TypeOK'
    BY <2>1, <2>2 DEF TypeOK, MaybeSource
  <2> QED BY <1>1, <2>1, <2>2, <2>3 DEF EffectsOfPane, SeenUnlessDue, FailureIsSeen,
                                        PlannerTaskIsDue
<1> QED BY <1>2, <1>3

(* Only the task in the slot can settle, and it still owns the slot.       *)
LEMMA SettleOwns ==
  ASSUME IInv, NEW t \in Task, t \in running
  PROVE  /\ t = slot /\ running = {t} /\ Owns(t) /\ active
         /\ computes[t] = seen /\ seen \in Inputs
<1>1. t = slot /\ slot # NoTask /\ running = {t}
  BY DEF IInv, OnlySlotRuns
<1> QED BY <1>1 DEF IInv, SlotIsSeen, Owns

LEMMA SettleInv ==
  ASSUME IInv, NEW t \in Task, NEW succeeds \in BOOLEAN, Settle(t, succeeds) PROVE IInv'
<1>0. t \in running
  BY DEF Settle
<1>1. /\ running = {t} /\ Owns(t) /\ computes[t] = seen /\ seen \in Inputs
  BY <1>0, SettleOwns
<1>2. /\ running' = {} /\ slot' = NoTask /\ pending' = NoSource
      /\ success' = IF succeeds THEN seen ELSE success
      /\ failure' = IF ~succeeds THEN seen
                    ELSE IF failure = seen THEN NoSource ELSE failure
      /\ UNCHANGED <<pane, active, source, setups, due, seen, owner, computes>>
  BY <1>1 DEF Settle, screen
<1>3. TypeOK'
  BY <1>1, <1>2 DEF IInv, TypeOK, MaybeTask, MaybeSource
<1>4. (OnlySlotRuns /\ SlotIsSeen /\ EffectsOfPane /\ SeenUnlessDue)'
  BY <1>2 DEF IInv, OnlySlotRuns, SlotIsSeen, EffectsOfPane, SeenUnlessDue, EffectsDue
<1>5. FailureIsSeen'
  BY <1>2 DEF IInv, FailureIsSeen, EffectsDue
<1>6. PlannerTaskIsDue'
  BY <1>1, <1>2 DEF IInv, PlannerTaskIsDue, EffectsOfPane
<1> QED BY <1>3, <1>4, <1>5, <1>6 DEF IInv

(* The handlers that commit.                                               *)
Commits(retried) == ScreenChanges /\ Commit(retried) /\ (retried => pane = "planner")

LEMMA HandlersCommit ==
  ASSUME IInv,
         \/ SwitchTab
         \/ \E s \in Inputs :
              EditInputs(s) \/ ChangeSetups(s) \/ Retry(s)
                \/ \E edited \in BOOLEAN : Recompute(s, edited)
  PROVE  \E retried \in BOOLEAN : Commits(retried)
<1> USE DEF Commits, ScreenChanges
<1>0. active \in BOOLEAN /\ setups \in BOOLEAN /\ Inputs \subseteq MaybeSource
      /\ NoSource \in MaybeSource
  BY DEF IInv, TypeOK, MaybeSource
<1>1. CASE SwitchTab
  BY <1>0, <1>1 DEF SwitchTab, IInv, TypeOK
<1>2. ASSUME NEW s \in Inputs, EditInputs(s) PROVE \E r \in BOOLEAN : Commits(r)
  BY <1>0, <1>2 DEF EditInputs
<1>3. ASSUME NEW s \in Inputs, ChangeSetups(s) PROVE \E r \in BOOLEAN : Commits(r)
  BY <1>0, <1>3 DEF ChangeSetups
<1>4. ASSUME NEW s \in Inputs, Retry(s) PROVE \E r \in BOOLEAN : Commits(r)
  BY <1>0, <1>4 DEF Retry
<1>5. ASSUME NEW s \in Inputs, NEW edited \in BOOLEAN, Recompute(s, edited)
      PROVE \E r \in BOOLEAN : Commits(r)
  <2>1. ScreenChanges /\ Commit(~edited /\ Failed) /\ pane = "planner"
    BY <1>0, <1>5 DEF Recompute
  <2>2. (~edited /\ Failed) \in BOOLEAN
    BY DEF Failed
  <2> QED BY <2>1, <2>2
<1> QED BY <1>1, <1>2, <1>3, <1>4, <1>5

LEMMA StepInv == ASSUME IInv, [Next]_vars PROVE IInv'
<1>1. CASE UNCHANGED vars
  BY <1>1 DEF vars, screen, results, slots, IInv, TypeOK, OnlySlotRuns, SlotIsSeen,
              EffectsOfPane, SeenUnlessDue, FailureIsSeen, PlannerTaskIsDue, EffectsDue
<1>2. CASE \/ SwitchTab
           \/ \E s \in Inputs :
                EditInputs(s) \/ ChangeSetups(s) \/ Retry(s)
                  \/ \E edited \in BOOLEAN : Recompute(s, edited)
  BY <1>2, HandlersCommit, CommitInv DEF Commits
<1>3. CASE PlanTask BY <1>3, PlanInv
<1>4. CASE RunAnalysis \/ BuildMatrix
  <2>1. source \in Inputs /\ active /\ StartTask(source) /\ seen' = source
        /\ pane # "planner" /\ due' = due /\ UNCHANGED <<screen, success>>
    BY <1>4 DEF RunAnalysis, BuildMatrix, CanRun, IInv, TypeOK, MaybeSource, EffectsOfPane
  <2> QED BY <2>1, StartInv
<1>5. CASE CancelAnalysis BY <1>5, CancelInv
<1>6. CASE DuelEffects BY <1>6, DuelEffectsInv
<1>7. ASSUME NEW t \in Task, Settle(t, TRUE) \/ Settle(t, FALSE) PROVE IInv'
  BY <1>7, SettleInv
<1> QED BY <1>1, <1>2, <1>3, <1>4, <1>5, <1>6, <1>7 DEF Next

(* What happens, without the fairness that only the liveness needs.        *)
Steps == Init /\ [][Next]_vars

(* The strengthening holds in every reachable state.                       *)
THEOREM Inductive == Steps => []IInv
<1>1. Init => IInv BY InitInv
<1>2. IInv /\ [Next]_vars => IInv' BY StepInv
<1> QED BY <1>1, <1>2, PTL DEF Steps

-----------------------------------------------------------------------------
(* The state of a pane keeps its types (TypeOK).                           *)
THEOREM TypeCorrect == Steps => []TypeOK
<1>1. IInv => TypeOK BY DEF IInv
<1> QED BY <1>1, Inductive, PTL

(* "building" is shown only while a task for the inputs on screen runs or  *)
(* is about to start (SlotBuildingHasTask): no obsolete pending state is   *)
(* left behind that would keep the pane waiting.                           *)
THEOREM BuildingIsBacked == Steps => []SlotBuildingHasTask
<1>1. ASSUME IInv, Building PROVE SlotBuildingHasTask
  <2>1. CASE Current(pending)
    BY <1>1, <2>1 DEF Current, IInv, SlotIsSeen, OnlySlotRuns, SlotBuildingHasTask
  <2>2. CASE /\ pane = "planner" /\ active /\ source # NoSource
             /\ ~Current(failure) /\ ~Current(success)
    <3>1. source \notin {success, failure} /\ seen = source
      BY <1>1, <2>2 DEF Current, IInv, EffectsOfPane
    <3>2. slot = NoTask => "task" \in due
      BY <1>1, <2>2, <3>1 DEF IInv, PlannerTaskIsDue
    <3>3. slot # NoTask => slot \in running /\ computes[slot] = source
      BY <1>1, <3>1 DEF IInv, SlotIsSeen, OnlySlotRuns
    <3> QED BY <2>2, <3>2, <3>3 DEF SlotBuildingHasTask
  <2> QED BY <1>1, <2>1, <2>2 DEF Building
<1>2. IInv => SlotBuildingHasTask
  BY <1>1 DEF SlotBuildingHasTask
<1> QED BY <1>2, Inductive, PTL

-----------------------------------------------------------------------------
(* The refinement.  What LatestAnswer sees of a pane:                      *)
ShownFailure == IF failure = seen THEN failure ELSE NoSource
Working == {computes[t] : t \in running}

USE DEF ShownFailure, Working

LEMMA WorkingIsSeen ==
  ASSUME IInv
  PROVE  Working = IF slot = NoTask THEN {} ELSE {seen}
BY DEF IInv, OnlySlotRuns, SlotIsSeen

LEMMA InitRefines == Init => Latest!Init
BY DEF Init, Latest!Init, MaybeSource

(* A commit looks at the question again, or leaves it to a passive effect. *)
LEMMA CommitRefines ==
  ASSUME IInv, IInv', NEW retried \in BOOLEAN, ScreenChanges, Commit(retried)
  PROVE  [Latest!Next]_(Latest!vars)
<1> USE DEF Commit, ScreenChanges
<1>1. due = {} /\ seen = source /\ failure \in {seen, NoSource}
  BY DEF IInv, EffectsOfPane, SeenUnlessDue, FailureIsSeen, EffectsDue, TypeOK
<1>2. CASE pane # "duel" /\ (active' # active \/ source' # source)
  <2>1. /\ seen' = source' /\ UNCHANGED <<success, computes>>
        /\ failure' = IF failure = source' THEN failure ELSE NoSource
        /\ IF slot # NoTask /\ (~active' \/ computes[slot] # source')
             THEN ReleaseSlot ELSE KeepSlot
    BY <1>2 DEF LayoutEffect, LookAgain
  <2>2. Working' = IF active' THEN Working \cap {seen'} ELSE {}
    BY <2>1, CalculationAssumption
       DEF IInv, OnlySlotRuns, SlotIsSeen, ReleaseSlot, KeepSlot
  <2>3. ShownFailure' = IF ShownFailure = seen' THEN ShownFailure ELSE NoSource
    BY <1>1, <2>1
  <2>4. Latest!Look
    BY <2>1, <2>2, <2>3 DEF Latest!Look, MaybeSource
  <2> QED BY <2>4 DEF Latest!Next
<1>3. CASE ~(pane # "duel" /\ (active' # active \/ source' # source))
  <2>1. UNCHANGED <<seen, failure, success, running, computes>>
    BY <1>3 DEF LayoutEffect, KeepSlot
  <2>2. active' = active
    BY <1>3 DEF IInv, TypeOK, EffectsOfPane
  <2> QED BY <2>1, <2>2 DEF Latest!vars
<1> QED BY <1>2, <1>3

LEMMA StartRefines ==
  ASSUME IInv, NEW s \in Inputs, active, StartTask(s), seen' = s,
         running' = {slot'}, computes'[slot'] = s, UNCHANGED <<active, success>>
  PROVE  Latest!Start
<1>1. Working' = {s}
  OBVIOUS
<1>2. ShownFailure' = NoSource
  BY DEF StartTask
<1> QED BY <1>1, <1>2, CalculationAssumption DEF Latest!Start

LEMMA PlanRefines == ASSUME IInv, PlanTask PROVE [Latest!Next]_(Latest!vars)
<1> USE DEF PlanTask, screen
<1>1. pane = "planner" /\ seen = source
  BY DEF IInv, EffectsOfPane
<1>2. CASE active /\ source # NoSource
  <2>1. source \in Inputs
    BY <1>2 DEF IInv, TypeOK, MaybeSource
  <2>2. running' = {slot'} /\ computes'[slot'] = source
    BY <1>1, <1>2, <2>1, StartInv
  <2>3. Latest!Start
    BY <1>1, <1>2, <2>1, <2>2, StartRefines
  <2> QED BY <2>3 DEF Latest!Next
<1>3. CASE ~(active /\ source # NoSource)
  <2>1. slot = NoTask
    BY <1>1, <1>3, CalculationAssumption DEF IInv, SlotIsSeen
  <2>2. UNCHANGED running
    BY <1>3, <2>1, CalculationAssumption DEF ReleaseSlot, KeepSlot, IInv, OnlySlotRuns
  <2> QED BY <1>3, <2>2 DEF Latest!vars
<1> QED BY <1>2, <1>3

LEMMA DuelEffectsRefine == ASSUME IInv, IInv', DuelEffects PROVE Latest!Next
<1> USE DEF DuelEffects, screen
<1>1. pane = "duel" /\ active
  BY DEF IInv, EffectsOfPane
<1>2. CASE "empty" \in due
  <2>1. /\ running' = {} /\ failure' = NoSource /\ success' = NoSource /\ seen' = source
    BY <1>2, CalculationAssumption DEF ReleaseSlot, IInv, OnlySlotRuns
  <2>2. Latest!Forget
    BY <2>1 DEF Latest!Forget, IInv, TypeOK, MaybeSource
  <2> QED BY <2>2 DEF Latest!Next
<1>3. CASE "empty" \notin due
  <2>1. /\ seen' = source /\ UNCHANGED <<success, computes, active>>
        /\ failure' = IF failure = source THEN failure ELSE NoSource
        /\ IF slot # NoTask /\ computes[slot] # source THEN ReleaseSlot ELSE KeepSlot
    BY <1>1, <1>3 DEF LookAgain
  <2>2. Working' = IF active' THEN Working \cap {seen'} ELSE {}
    BY <1>1, <2>1, CalculationAssumption
       DEF IInv, OnlySlotRuns, SlotIsSeen, ReleaseSlot, KeepSlot
  <2>3. failure # seen /\ failure # NoSource => seen = source
    BY DEF IInv, FailureIsSeen
  <2>4. ShownFailure' = IF ShownFailure = seen' THEN ShownFailure ELSE NoSource
    BY <2>1, <2>3
  <2>5. Latest!Look
    BY <1>1, <2>1, <2>2, <2>4 DEF Latest!Look, IInv, TypeOK, MaybeSource
  <2> QED BY <2>5 DEF Latest!Next
<1> QED BY <1>2, <1>3

LEMMA SettleRefines ==
  ASSUME IInv, NEW t \in Task, NEW succeeds \in BOOLEAN, Settle(t, succeeds)
  PROVE  Latest!Next
<1>0. t \in running
  BY DEF Settle
<1>1. running = {t} /\ Owns(t) /\ computes[t] = seen /\ seen \in Inputs /\ active
  BY <1>0, SettleOwns
<1>2. /\ running' = {}
      /\ success' = IF succeeds THEN seen ELSE success
      /\ failure' = IF ~succeeds THEN seen
                    ELSE IF failure = seen THEN NoSource ELSE failure
      /\ UNCHANGED <<active, seen, computes>>
  BY <1>1 DEF Settle, screen
<1>3. Working = {seen} /\ Working' = {}
  BY <1>1, <1>2
<1>4. CASE succeeds
  <2>1. ShownFailure' = NoSource
    BY <1>2, <1>4
  <2>2. Latest!Answer
    BY <1>1, <1>2, <1>3, <1>4, <2>1 DEF Latest!Answer
  <2> QED BY <2>2 DEF Latest!Next
<1>5. CASE ~succeeds
  <2>1. Latest!Fail
    BY <1>1, <1>2, <1>3, <1>5 DEF Latest!Fail
  <2> QED BY <2>1 DEF Latest!Next
<1> QED BY <1>4, <1>5

LEMMA StepRefines == ASSUME IInv, IInv', [Next]_vars PROVE [Latest!Next]_(Latest!vars)
<1>1. CASE UNCHANGED vars
  BY <1>1 DEF vars, screen, results, slots, Latest!vars
<1>2. CASE \/ SwitchTab
           \/ \E s \in Inputs :
                EditInputs(s) \/ ChangeSetups(s) \/ Retry(s)
                  \/ \E edited \in BOOLEAN : Recompute(s, edited)
  BY <1>2, HandlersCommit, CommitRefines DEF Commits
<1>3. CASE PlanTask BY <1>3, PlanRefines
<1>4. CASE RunAnalysis \/ BuildMatrix
  <2>1. source \in Inputs /\ active /\ StartTask(source) /\ seen' = source
        /\ pane # "planner" /\ due' = due /\ UNCHANGED <<screen, success>>
    BY <1>4 DEF RunAnalysis, BuildMatrix, CanRun, IInv, TypeOK, MaybeSource, EffectsOfPane
  <2>2. running' = {slot'} /\ computes'[slot'] = source
    BY <2>1, StartInv
  <2>3. Latest!Start
    BY <2>1, <2>2, StartRefines DEF screen
  <2> QED BY <2>3 DEF Latest!Next
<1>5. CASE CancelAnalysis
  <2>1. running' = {} /\ UNCHANGED <<seen, active, success, failure, computes>>
    BY <1>5, CalculationAssumption
       DEF CancelAnalysis, ReleaseSlot, screen, results, IInv, OnlySlotRuns
  <2>2. Latest!Stop
    BY <2>1 DEF Latest!Stop
  <2> QED BY <2>2 DEF Latest!Next
<1>6. CASE DuelEffects BY <1>6, DuelEffectsRefine
<1>7. ASSUME NEW t \in Task, Settle(t, TRUE) \/ Settle(t, FALSE)
      PROVE [Latest!Next]_(Latest!vars)
  BY <1>7, SettleRefines
<1> QED BY <1>1, <1>2, <1>3, <1>4, <1>5, <1>6, <1>7 DEF Next

(* Each pane implements LatestAnswer (ImplementsLatestAnswer): one Worker  *)
(* at a time, and an answer or a failure kept only for the source the pane *)
(* last looked at.  The Planner starts by itself, Risk on demand and the   *)
(* Duel with effects that come after the commit; the promise is the same.  *)
THEOREM SlotsImplementLatestAnswer == Steps => ImplementsLatestAnswer
<1>1. Init => Latest!Init BY InitRefines
<1>2. IInv /\ IInv' /\ [Next]_vars => [Latest!Next]_(Latest!vars) BY StepRefines
<1> QED BY <1>1, <1>2, Inductive, PTL DEF Steps, ImplementsLatestAnswer, Latest!Spec
=============================================================================
