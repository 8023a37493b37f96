-------------------------- MODULE CalculationSlots --------------------------
(***************************************************************************)
(* The pending slots of the three panes that calculate in a Worker besides *)
(* Compare: usePlannerCalculation, which starts by itself whenever its     *)
(* inputs change; useRiskAnalysis, which runs on demand and lets go of an  *)
(* obsolete run in its layout effect; and the monster matrix of            *)
(* useDuelPane, which does so in a passive effect, after the commit.       *)
(* One behaviour is about one pane.  A source is the identity of all of a  *)
(* pane's inputs; undoing an edit brings an earlier source back.           *)
(***************************************************************************)
EXTENDS CalculationInputs

VARIABLES
  pane,
  active,   \* the Planner tab is open; Risk and Duel keep calculating hidden
  source,   \* the inputs of the last commit
  setups,   \* the Duel has saved setups
  due,      \* passive effects of the last commit that still have to run
  seen,     \* the source that the effects, or a start, last looked at: the
            \* refs of the Planner and of Risk, kept as history for the Duel
  slot,     \* pendingRef: the task in the pending slot
  owner,    \* the task that the cleanup of the Planner's task effect knows
  pending,  \* React state: the source of the pending task
  success,  \* React state: the source of the last successful build
  failure,  \* React state: the source of the last failure
  running,  \* tasks whose Worker has not been terminated
  computes  \* the source each task was started with

screen == <<pane, active, source, setups>>
results == <<success, failure>>
slots == <<slot, owner, pending, running, computes>>
vars == <<screen, due, seen, results, slots>>

MaybeSource == Inputs \cup {NoSource}
MaybeTask == Task \cup {NoTask}

TypeOK ==
  /\ pane \in {"planner", "risk", "duel"}
  /\ active \in BOOLEAN /\ setups \in BOOLEAN
  /\ {source, seen, pending, success, failure} \subseteq MaybeSource
  /\ due \in SUBSET {"task", "source", "empty"}
  /\ slot \in MaybeTask /\ owner \in MaybeTask
  /\ running \in SUBSET Task
  /\ computes \in [Task -> MaybeSource]

Init ==
  /\ pane \in {"planner", "risk", "duel"}
  /\ active \in BOOLEAN /\ (pane # "planner" => active)
  /\ setups \in BOOLEAN /\ (pane # "duel" => setups)
  /\ source \in MaybeSource /\ seen = source
  /\ due = CASE pane = "planner" -> {"task"}
             [] pane = "risk" -> {}
             [] pane = "duel" -> {"source"} \cup (IF setups THEN {} ELSE {"empty"})
  /\ slot = NoTask /\ owner = NoTask
  /\ pending = NoSource /\ success = NoSource /\ failure = NoSource
  /\ running = {}
  /\ computes = [t \in Task |-> NoSource]

-----------------------------------------------------------------------------
(* The presentations that the panes derive.                                *)
Current(s) == s # NoSource /\ s = source

Building ==
  \/ Current(pending)
  \/ /\ pane = "planner" /\ active /\ source # NoSource
     /\ ~Current(failure) /\ ~Current(success)

Failed == ~Building /\ Current(failure)

CanRun == source # NoSource /\ setups /\ ~Building

-----------------------------------------------------------------------------
ReleaseSlot ==
  /\ slot' = NoTask /\ pending' = NoSource
  /\ running' = running \ {slot}

KeepSlot == UNCHANGED <<slot, pending, running>>

(* The effect on a new source: an obsolete task is cancelled and an        *)
(* obsolete failure cleared.                                               *)
LookKeepsPending ==
  /\ seen' = source'
  /\ IF slot # NoTask /\ (~active' \/ computes[slot] # source')
       THEN slot' = NoTask /\ running' = running \ {slot} /\ UNCHANGED pending
       ELSE KeepSlot
  /\ failure' = IF failure = source' THEN failure ELSE NoSource

LookAgain ==
  /\ seen' = source'
  /\ IF slot # NoTask /\ (~active' \/ computes[slot] # source')
       THEN ReleaseSlot ELSE KeepSlot
  /\ failure' = IF failure = source' THEN failure ELSE NoSource

(* A commit flushes the passive effects of the one before; the layout      *)
(* effects of the Planner and of Risk run in it.                           *)
LayoutEffect ==
  IF pane # "duel" /\ (active' # active \/ source' # source)
    THEN LookAgain
    ELSE KeepSlot /\ UNCHANGED <<seen, failure>>

TaskWhenRetriedOnly(retried) == retried \/ active' # active
TaskIsDue(retried) == retried \/ active' # active \/ source' # source

DuePassive(retried) ==
  {e \in {"task"} : pane = "planner" /\ TaskIsDue(retried)}
    \cup {e \in {"source"} : pane = "duel" /\ source' # source}
    \cup {e \in {"empty"} : pane = "duel" /\ setups /\ ~setups'}

Commit(retried) ==
  /\ due = {}
  /\ LayoutEffect
  /\ due' = DuePassive(retried)
  /\ UNCHANGED <<pane, success, owner, computes>>

EditInputs(s) ==
  /\ s # source
  /\ source' = s
  /\ UNCHANGED <<active, setups>>
  /\ Commit(FALSE)

SwitchTab ==
  /\ pane = "planner"
  /\ active' = ~active
  /\ UNCHANGED <<source, setups>>
  /\ Commit(FALSE)

(* The saved setups are part of the matrix's source.                       *)
ChangeSetups(s) ==
  /\ pane = "duel" /\ (s # source \/ source = NoSource)
  /\ setups' = ~setups
  /\ source' = IF source = NoSource THEN NoSource ELSE s
  /\ UNCHANGED active
  /\ Commit(FALSE)

(* The draft becomes the computed state; one equal to it starts the task   *)
(* again when the last one failed.                                         *)
Recompute(s, edited) ==
  /\ pane = "planner" /\ source # NoSource /\ (edited => s # source)
  /\ source' = s
  /\ UNCHANGED <<active, setups>>
  /\ Commit(~edited /\ Failed)

Retry(s) ==
  /\ pane = "planner" /\ active /\ Failed
  /\ source' = s
  /\ UNCHANGED <<active, setups>>
  /\ Commit(TRUE)

-----------------------------------------------------------------------------
(* A task starts for a source, in place of the one in the slot.            *)
StartTask(s) ==
  /\ \E t \in Task \ (running \cup {slot, owner}) :
       /\ slot' = t
       /\ owner' = IF pane = "planner" THEN t ELSE owner
       /\ running' = (running \ {slot}) \cup {t}
       /\ computes' = [computes EXCEPT ![t] = s]
  /\ pending' = s
  /\ failure' = IF failure = s THEN NoSource ELSE failure

(* The Planner's task effect, after the cleanup of the one before.         *)
PlanTask ==
  /\ "task" \in due
  /\ due' = {}
  /\ IF active /\ source # NoSource
       THEN StartTask(source)
       ELSE /\ IF slot = owner THEN ReleaseSlot ELSE KeepSlot
            /\ owner' = NoTask
            /\ UNCHANGED <<failure, computes>>
  /\ UNCHANGED <<screen, seen, success>>

-----------------------------------------------------------------------------
(* Risk: Run and Cancel.                                                   *)
RunAnalysis ==
  /\ pane = "risk" /\ CanRun
  /\ StartTask(source)
  /\ UNCHANGED <<screen, due, seen, success>>

CancelAnalysis ==
  /\ pane = "risk" /\ slot # NoTask
  /\ ReleaseSlot
  /\ UNCHANGED <<screen, due, seen, results, owner, computes>>

-----------------------------------------------------------------------------
(* Duel: the two effects, and a build, which may come before them.         *)
DuelEffects ==
  /\ due \cap {"source", "empty"} # {}
  /\ UNCHANGED <<screen, owner, computes>>
  /\ due' = {}
  /\ IF "empty" \in due
       THEN /\ ReleaseSlot
            /\ success' = NoSource /\ failure' = NoSource
            /\ seen' = source
       ELSE LookAgain /\ UNCHANGED success

BuildMatrix ==
  /\ pane = "duel" /\ CanRun
  /\ slot # NoTask => computes[slot] # source
  /\ StartTask(source)
  /\ seen' = source
  /\ UNCHANGED <<screen, due, success>>

-----------------------------------------------------------------------------
(* A Worker answers, fails or times out.  The Planner and Risk check that  *)
(* the task still has the slot and that its source is the one on screen;   *)
(* the Duel checks the slot only.                                          *)
Owns(t) ==
  /\ slot = t
  /\ pane = "planner" => active
  /\ pane # "duel" => computes[t] = seen

SettleForScreen(t, succeeds) ==
  /\ t \in running
  /\ running' = running \ {t}
  /\ IF Owns(t)
       THEN /\ success' = IF succeeds THEN source ELSE success
            /\ failure' = IF ~succeeds THEN source
                          ELSE IF failure = source THEN NoSource ELSE failure
            /\ slot' = NoTask /\ pending' = NoSource
       ELSE UNCHANGED <<results, slot, pending>>
  /\ UNCHANGED <<screen, due, seen, owner, computes>>

Settle(t, succeeds) ==
  /\ t \in running
  /\ running' = running \ {t}
  /\ IF Owns(t)
       THEN /\ success' = IF succeeds THEN computes[t] ELSE success
            /\ failure' = IF ~succeeds THEN computes[t]
                          ELSE IF failure = computes[t] THEN NoSource ELSE failure
            /\ slot' = NoTask /\ pending' = NoSource
       ELSE UNCHANGED <<results, slot, pending>>
  /\ UNCHANGED <<screen, due, seen, owner, computes>>

Next ==
  \/ \E s \in Inputs :
       EditInputs(s) \/ ChangeSetups(s) \/ Retry(s)
         \/ \E edited \in BOOLEAN : Recompute(s, edited)
  \/ SwitchTab \/ PlanTask
  \/ RunAnalysis \/ CancelAnalysis
  \/ DuelEffects \/ BuildMatrix
  \/ \E t \in Task : Settle(t, TRUE) \/ Settle(t, FALSE)

(* React flushes passive effects, and every Worker answers or is timed out *)
(* after 30 seconds; the user owes nothing.                                *)
Fairness ==
  /\ WF_vars(PlanTask) /\ WF_vars(DuelEffects)
  /\ \A t \in Task : WF_vars(Settle(t, TRUE) \/ Settle(t, FALSE))

Spec == Init /\ [][Next]_vars /\ Fairness

-----------------------------------------------------------------------------
(* Every pane implements LatestAnswer: one Worker at a time, and an answer *)
(* or a failure kept only for the source the pane last looked at, also     *)
(* when it arrives between a commit and its passive effects.               *)
Latest == INSTANCE LatestAnswer WITH
  Questions <- Inputs, Nothing <- NoSource,
  wanted <- seen, open <- active,
  failure <- IF failure = seen THEN failure ELSE NoSource,
  working <- {computes[t] : t \in running}

ImplementsLatestAnswer == Latest!Spec

(* "building" is shown only while a task for the inputs on screen runs or  *)
(* is about to start.                                                      *)
SlotBuildingHasTask ==
  Building =>
    \/ "task" \in due /\ active
    \/ slot \in running /\ computes[slot] = source

(* A calculation that is shown as building for inputs that stay on screen  *)
(* ends in a result or a failure, unless the user cancels it.              *)
BuildingEnds ==
  \A s \in Inputs : (source = s /\ Building) ~> (source # s \/ ~Building)
=============================================================================
