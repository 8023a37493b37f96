------------------------- MODULE CompareCalculation -------------------------
(***************************************************************************)
(* useCompareCalculation of src/app/controllers/use-compare-calculation.ts *)
(* over the one-shot Worker tasks of src/app/calculation-worker-client.ts. *)
(* A commit of React updates the refs and cancels an obsolete task in its  *)
(* layout effect; the debounce timer and the next task start in passive    *)
(* effects, which run later; a Worker answers, fails or times out at any   *)
(* moment, also between the two.  Inputs are compared by object identity.  *)
(* A definition that no action uses, just before one that is used, is a    *)
(* plausible bug of the latter: the mutants of PROJECT.json put it in its  *)
(* place and a property has to notice.                                     *)
(***************************************************************************)
EXTENDS CalculationInputs

VARIABLES
  active,    \* the Compare tab is open
  form,      \* input.form of the last commit
  heavy,     \* heavyForm: the debounced form of the last commit
  inputs,    \* context, cannon, loot and custom setups of the last commit
  timer,     \* the form the running debounce timer will set
  debounced, \* the form a fired timer has set, not committed yet
  due,       \* passive effects that still have to run
  slot,      \* pendingRef: the task in the pending slot
  owner,     \* the task of the last task effect, which its cleanup knows
  pending,   \* React state: the source of the pending task
  success,   \* React state: the source of the last successful build
  failure,   \* React state: the source of the last failure
  running,   \* tasks whose Worker has not been terminated
  computes   \* the source each task was started with

settings == <<active, form, heavy, inputs>>
results == <<success, failure>>
vars == <<settings, timer, debounced, due, slot, owner, pending, results, running, computes>>

Sources == [form : Form, inputs : Inputs]
SourceUnchecked(f, i) == [form |-> f, inputs |-> i]
SourceOf(f, i) == IF i = NoContext THEN NoSource ELSE [form |-> f, inputs |-> i]
Source == SourceOf(form, inputs)
TaskSource == SourceOf(heavy, inputs)
Current(s) == s # NoSource /\ s = Source

TypeOK ==
  /\ active \in BOOLEAN
  /\ form \in Form /\ heavy \in Form /\ inputs \in Inputs \cup {NoContext}
  /\ timer \in Form \cup {NoForm} /\ debounced \in Form \cup {NoForm}
  /\ due \in SUBSET {"timer", "task"}
  /\ slot \in Task \cup {NoTask} /\ owner \in Task \cup {NoTask}
  /\ {pending, success, failure} \subseteq Sources \cup {NoSource}
  /\ running \in SUBSET Task
  /\ computes \in [Task -> Sources \cup {NoSource}]

Init ==
  /\ active \in BOOLEAN
  /\ form \in Form /\ heavy = form
  /\ inputs \in Inputs \cup {NoContext}
  /\ timer = NoForm /\ debounced = NoForm
  /\ due = {"timer", "task"}
  /\ slot = NoTask /\ owner = NoTask
  /\ pending = NoSource /\ success = NoSource /\ failure = NoSource
  /\ running = {}
  /\ computes = [t \in Task |-> NoSource]

-----------------------------------------------------------------------------
(* deriveDenseComparePresentation                                          *)
Building ==
  \/ Current(pending)
  \/ active /\ Current(TaskSource) /\ ~Current(failure) /\ ~Current(success)

Status ==
  IF Building THEN "building"
  ELSE IF Current(failure) THEN "failed"
  ELSE IF Current(success) THEN "ready"
  ELSE IF success # NoSource THEN "stale" ELSE "idle"

-----------------------------------------------------------------------------
(* A commit first flushes the passive effects of the one before.  Its      *)
(* layout effect runs when active or the live source changed.              *)
CancelObsolete ==
  IF slot # NoTask /\ (~active' \/ computes[slot] # Source')
    THEN slot' = NoTask /\ pending' = NoSource /\ running' = running \ {slot}
    ELSE UNCHANGED <<slot, pending, running>>

LayoutEffect ==
  IF active' # active \/ Source' # Source
    THEN /\ CancelObsolete
         /\ failure' = IF failure = Source' THEN failure ELSE NoSource
    ELSE UNCHANGED <<slot, pending, running, failure>>

IgnoresActive == TaskSource' # TaskSource
TaskEffectDue == active' # active \/ TaskSource' # TaskSource

Commit(retried) ==
  /\ due = {}
  /\ heavy' = IF debounced = NoForm THEN heavy ELSE debounced
  /\ debounced' = NoForm
  /\ LayoutEffect
  /\ due' = (IF form' # form THEN {"timer"} ELSE {})
              \cup (IF TaskEffectDue \/ retried THEN {"task"} ELSE {})
  /\ UNCHANGED <<timer, owner, success, computes>>

Referenced ==
  {form, heavy, timer, debounced}
    \cup {s.form : s \in {pending, success, failure} \ {NoSource}}
    \cup {computes[t].form : t \in running \cup ({slot} \ {NoTask})}

(* Every setter puts a new object in place of the form.                    *)
EditForm(f) ==
  /\ f \notin Referenced
  /\ form' = f
  /\ UNCHANGED <<active, inputs>>
  /\ Commit(FALSE)

(* Removing a custom setup, a shared setup, a restore, and the Undo of     *)
(* each: an earlier form object may come back, always together with other  *)
(* cannon, loot or custom setup objects than the ones on screen.           *)
ReplaceSetup(f, i) ==
  /\ f # form /\ i # inputs
  /\ form' = f /\ inputs' = i
  /\ UNCHANGED active
  /\ Commit(FALSE)

ChangeInputs(i) ==
  /\ i # inputs
  /\ inputs' = i
  /\ UNCHANGED <<active, form>>
  /\ Commit(FALSE)

SwitchTab ==
  /\ active' = ~active
  /\ UNCHANGED <<form, inputs>>
  /\ Commit(FALSE)

Retry ==
  /\ Status = "failed" /\ active
  /\ UNCHANGED <<active, form, inputs>>
  /\ Commit(TRUE)

CommitDebounced ==
  /\ debounced # NoForm
  /\ UNCHANGED <<active, form, inputs>>
  /\ Commit(FALSE)

TimerFires ==
  /\ timer # NoForm
  /\ debounced' = timer
  /\ timer' = NoForm
  /\ UNCHANGED <<settings, due, slot, owner, pending, results, running, computes>>

-----------------------------------------------------------------------------
(* The passive effects of the last commit: the debounce timer restarts;    *)
(* the cleanup of the old task effect, then the new task.                  *)
StartsTimerOnce == IF "timer" \in due /\ timer = NoForm THEN form ELSE timer
RestartedTimer == IF "timer" \in due THEN form ELSE timer

CleanedUpOnly == running
StillRunning == running \ (IF slot = owner THEN {slot} ELSE {})

StartTask ==
  /\ active /\ TaskSource # NoSource
  /\ \E t \in Task \ (running \cup {slot, owner}) :
       /\ slot' = t /\ owner' = t
       /\ running' = StillRunning \cup {t}
       /\ computes' = [computes EXCEPT ![t] = TaskSource]
  /\ pending' = TaskSource
  /\ failure' = IF failure = TaskSource THEN NoSource ELSE failure

StartNothing ==
  /\ ~active \/ TaskSource = NoSource
  /\ slot' = IF slot = owner THEN NoTask ELSE slot
  /\ pending' = IF slot = owner THEN NoSource ELSE pending
  /\ owner' = NoTask
  /\ running' = StillRunning
  /\ UNCHANGED <<failure, computes>>

PassiveEffects ==
  /\ due # {}
  /\ due' = {}
  /\ timer' = RestartedTimer
  /\ IF "task" \in due
       THEN StartTask \/ StartNothing
       ELSE UNCHANGED <<slot, owner, pending, failure, running, computes>>
  /\ UNCHANGED <<settings, debounced, success>>

-----------------------------------------------------------------------------
(* A Worker answers, fails or times out; the handlers of its promise run   *)
(* in the same turn and use the result only if the task owns the slot.     *)
OwnsSlotOnly(t) == slot = t
OwnsCurrentSlot(t) == slot = t /\ active /\ Current(computes[t])

Settle(t, succeeds) ==
  /\ t \in running
  /\ running' = running \ {t}
  /\ IF OwnsCurrentSlot(t)
       THEN /\ success' = IF succeeds THEN computes[t] ELSE success
            /\ failure' = IF ~succeeds THEN computes[t]
                          ELSE IF failure = computes[t] THEN NoSource ELSE failure
            /\ slot' = NoTask /\ pending' = NoSource
       ELSE UNCHANGED <<results, slot, pending>>
  /\ UNCHANGED <<settings, timer, debounced, due, owner, computes>>

Next ==
  \/ \E f \in Form : EditForm(f)
  \/ \E i \in Inputs : ChangeInputs(i) \/ \E f \in Form : ReplaceSetup(f, i)
  \/ SwitchTab \/ Retry \/ CommitDebounced \/ TimerFires \/ PassiveEffects
  \/ \E t \in Task : Settle(t, TRUE) \/ Settle(t, FALSE)

(* React commits and flushes, timers fire, and every Worker answers or is  *)
(* timed out after 30 seconds; the user owes nothing.                      *)
Fairness ==
  /\ WF_vars(CommitDebounced) /\ WF_vars(TimerFires) /\ WF_vars(PassiveEffects)
  /\ \A t \in Task : WF_vars(Settle(t, TRUE) \/ Settle(t, FALSE))

Spec == Init /\ [][Next]_vars /\ Fairness

-----------------------------------------------------------------------------
(* Cancelled and replaced tasks never leave a Worker behind: the only one  *)
(* that may still run is the task in the pending slot.                     *)
OneWorker == running \subseteq {slot}

(* A result or a failure is stored only for the inputs on screen, also     *)
(* when a Worker answers between a commit and its passive effects, or      *)
(* while the form is ahead of the debounce.                                *)
StoredIsCurrent ==
  [][/\ success' # success => active /\ success' = Source /\ UNCHANGED settings
     /\ failure' # failure /\ failure' # NoSource => active /\ failure' = Source]_vars

(* "building" is shown only while a task for the inputs on screen is       *)
(* running or about to start.                                              *)
BuildingHasTask ==
  Status = "building" =>
    \/ "task" \in due /\ active /\ TaskSource = Source
    \/ slot \in running /\ computes[slot] = Source

(* Inputs that stay on screen are answered by a result or a failure.       *)
CurrentInputsAreAnswered ==
  \A s \in Sources :
    (active /\ Source = s) ~> (~active \/ Source # s \/ Status \in {"ready", "failed"})
=============================================================================
