-------------------------- MODULE ControllersProofs --------------------------
(***************************************************************************)
(* Proofs about the controllers of MCControllers, for every set of forms,  *)
(* inputs, tasks and values and every bound.                               *)
(*                                                                         *)
(* Compare: "building" is backed by a task because the pending slot never  *)
(* outlives the inputs it was started with (SlotIsRecent), a slot whose    *)
(* task has settled is for inputs that are not on screen and cannot come   *)
(* back unnoticed (DeadSlotIsObsolete), and whatever the debounce has      *)
(* caught up with is running, answered or about to start                   *)
(* (NothingForgotten).                                                     *)
(*                                                                         *)
(* Imports: a file is read at most once and reviewed at most once, because *)
(* its attempt id is never used again: what is being read is not on        *)
(* screen, and neither has been applied.                                   *)
(*                                                                         *)
(* The other panes and the saved setups have proofs of their own, which    *)
(* hold here because only one part moves and the others rest.              *)
(***************************************************************************)
EXTENDS MCControllers, TLAPS

-----------------------------------------------------------------------------
(* Compare.                                                                *)
SlotIsOwned == slot \in {owner, NoTask}

PendingIsSlot == pending = IF slot = NoTask THEN NoSource ELSE computes[slot]

SlotIsRecent ==
  slot # NoTask => active /\ computes[slot] \in Sources /\ computes[slot].inputs = inputs

DeadSlotIsObsolete == slot # NoTask /\ slot \notin running => computes[slot] # Source

NothingForgotten ==
  active /\ Current(TaskSource) /\ "task" \notin due =>
    \/ slot \in running /\ computes[slot] = Source
    \/ Current(failure) \/ Current(success)

IInv ==
  /\ TypeOK /\ OneWorker
  /\ SlotIsOwned /\ PendingIsSlot /\ SlotIsRecent /\ DeadSlotIsObsolete
  /\ NothingForgotten

-----------------------------------------------------------------------------
LEMMA SourceIsTyped ==
  ASSUME CalculationAssumption, NEW f \in Form, NEW i \in Inputs \cup {NoContext}
  PROVE  /\ SourceOf(f, i) \in Sources \cup {NoSource}
         /\ SourceOf(f, i) = NoSource <=> i = NoContext
         /\ i # NoContext =>
              /\ SourceOf(f, i) \in Sources
              /\ SourceOf(f, i).form = f /\ SourceOf(f, i).inputs = i
BY DEF CalculationAssumption, SourceOf, Sources

LEMMA InitInv == ASSUME CalculationAssumption, Init PROVE IInv
<1>1. TypeOK BY DEF Init, TypeOK
<1>2. OneWorker /\ SlotIsOwned /\ PendingIsSlot /\ SlotIsRecent /\ DeadSlotIsObsolete
  BY DEF Init, OneWorker, SlotIsOwned, PendingIsSlot, SlotIsRecent, DeadSlotIsObsolete
<1>3. NothingForgotten BY DEF Init, NothingForgotten
<1> QED BY <1>1, <1>2, <1>3 DEF IInv

(* What the layout effect leaves in the slot is for the new inputs.        *)
LEMMA LayoutKeepsSlot ==
  ASSUME CalculationAssumption, IInv, NEW retried \in BOOLEAN, Commit(retried),
         active' \in BOOLEAN, form' \in Form, inputs' \in Inputs \cup {NoContext}
  PROVE  /\ heavy' \in Form
         /\ slot' \in {slot, NoTask} /\ pending' \in {pending, NoSource}
         /\ PendingIsSlot'
         /\ running' \subseteq running /\ OneWorker' /\ SlotIsOwned'
         /\ slot' # NoTask => slot' = slot /\ (slot \in running => slot \in running')
         /\ active' # active \/ Source' # Source =>
              (slot' # NoTask => active' /\ computes[slot] = Source')
         /\ failure' \in {failure, NoSource}
         /\ active' = active /\ Source' = Source =>
              slot' = slot /\ running' = running /\ failure' = failure
<1>1. heavy' \in Form BY DEF IInv, TypeOK, Commit, CalculationAssumption
<1>2. CASE ~(active' # active \/ Source' # Source)
  <2>1. UNCHANGED <<slot, pending, running, failure, computes, owner>>
    BY <1>2 DEF Commit, LayoutEffect
  <2> QED BY <1>1, <1>2, <2>1 DEF IInv, PendingIsSlot, OneWorker, SlotIsOwned
<1>3. CASE active' # active \/ Source' # Source
  <2>1. CancelObsolete /\ UNCHANGED <<computes, owner>> /\ failure' \in {failure, NoSource}
    BY <1>3 DEF Commit, LayoutEffect
  <2>2. CASE slot # NoTask /\ (~active' \/ computes[slot] # Source')
    <3>1. slot' = NoTask /\ pending' = NoSource /\ running' = running \ {slot}
      BY <2>1, <2>2 DEF CancelObsolete
    <3> QED BY <1>1, <1>3, <2>1, <3>1 DEF IInv, PendingIsSlot, OneWorker, SlotIsOwned
  <2>3. CASE ~(slot # NoTask /\ (~active' \/ computes[slot] # Source'))
    <3>1. UNCHANGED <<slot, pending, running>> BY <2>1, <2>3 DEF CancelObsolete
    <3> QED BY <1>1, <1>3, <2>1, <2>3, <3>1 DEF IInv, PendingIsSlot, OneWorker, SlotIsOwned
  <2> QED BY <2>2, <2>3
<1> QED BY <1>2, <1>3
-----------------------------------------------------------------------------
(* A commit whose inputs moved so that a settled task or an unanswered     *)
(* debounced form cannot come back on screen unnoticed.                    *)
Advances ==
  \/ UNCHANGED <<form, inputs>>
  \/ inputs' # inputs
  \/ form' \notin Referenced

LEMMA CommitInv ==
  ASSUME CalculationAssumption, IInv, NEW retried \in BOOLEAN, Commit(retried), Advances,
         active' \in BOOLEAN, form' \in Form, inputs' \in Inputs \cup {NoContext}
  PROVE  IInv'
<1> USE CalculationAssumption
<1>1. UNCHANGED <<timer, owner, success, computes>> BY DEF Commit
<1>2. heavy' \in Form BY LayoutKeepsSlot
<1>3. TypeOK'
  BY <1>1, LayoutKeepsSlot DEF IInv, TypeOK, Commit
<1>4. OneWorker' /\ SlotIsOwned' /\ PendingIsSlot' BY LayoutKeepsSlot
<1>5. Source' \in Sources \cup {NoSource} /\ (Source' = NoSource <=> inputs' = NoContext)
      /\ (inputs' # NoContext =>
            Source' \in Sources /\ Source'.form = form' /\ Source'.inputs = inputs')
  <2> DEFINE f == form' i == inputs'
  <2>1. Source' = SourceOf(f, i) BY DEF Source
  <2> QED BY <2>1, SourceIsTyped
<1>6. Source \in Sources \cup {NoSource} /\ (Source = NoSource <=> inputs = NoContext)
      /\ (inputs # NoContext => Source.form = form /\ Source.inputs = inputs)
  BY SourceIsTyped DEF Source, IInv, TypeOK
<1>7. SlotIsRecent'
  <2> SUFFICES ASSUME slot' # NoTask
               PROVE  active' /\ computes'[slot'] \in Sources /\ computes'[slot'].inputs = inputs'
    BY DEF SlotIsRecent
  <2>1. slot' = slot /\ slot # NoTask BY LayoutKeepsSlot
  <2>2. active /\ computes[slot] \in Sources /\ computes[slot].inputs = inputs
    BY <2>1 DEF IInv, SlotIsRecent
  <2>3. CASE active' # active \/ Source' # Source
    <3>1. active' /\ computes[slot] = Source' BY <2>3, LayoutKeepsSlot
    <3> QED BY <1>1, <1>5, <2>1, <2>2, <3>1 DEF CalculationAssumption, Sources
  <2>4. CASE active' = active /\ Source' = Source
    <3>1. inputs' = inputs BY <2>4, <1>5, <1>6
    <3> QED BY <1>1, <2>1, <2>2, <2>4, <3>1
  <2> QED BY <2>3, <2>4
<1>8. DeadSlotIsObsolete'
  <2> SUFFICES ASSUME slot' # NoTask, slot' \notin running', computes'[slot'] = Source'
               PROVE  FALSE
    BY DEF DeadSlotIsObsolete
  <2>1. slot' = slot /\ slot # NoTask /\ slot \notin running BY LayoutKeepsSlot
  <2>2. computes[slot] # Source /\ computes[slot] = Source'
    BY <1>1, <2>1 DEF IInv, DeadSlotIsObsolete
  <2>3. computes[slot] \in Sources /\ computes[slot].inputs = inputs
    BY <2>1 DEF IInv, SlotIsRecent
  <2>4. inputs' = inputs /\ form' = computes[slot].form
    BY <1>5, <2>2, <2>3 DEF CalculationAssumption, Sources
  <2>5. computes[slot].form \in Referenced
    BY <2>1 DEF Referenced
  <2>6. form' = form BY <2>4, <2>5 DEF Advances
  <2> QED BY <1>5, <2>2, <2>4, <2>6 DEF Source
<1>9. NothingForgotten'
  <2> SUFFICES ASSUME active', TaskSource' # NoSource, TaskSource' = Source', "task" \notin due'
               PROVE  \/ slot' \in running' /\ computes'[slot'] = Source'
                      \/ Current(failure)' \/ Current(success)'
    BY DEF NothingForgotten, Current
  <2>1. active' = active /\ TaskSource' = TaskSource
    BY DEF Commit, TaskEffectDue
  <2>2. heavy' = form'
    BY <1>2, <1>5, SourceIsTyped DEF TaskSource, Source, SourceOf, CalculationAssumption
  <2>3. heavy = heavy' /\ inputs = inputs'
    BY <2>1, <1>2, SourceIsTyped DEF TaskSource, SourceOf, IInv, TypeOK, CalculationAssumption
  <2>4. heavy \in Referenced BY DEF Referenced
  <2>5. form' = form BY <2>2, <2>3, <2>4 DEF Advances
  <2>6. Source' = Source BY <2>3, <2>5 DEF Source
  <2>7. slot' = slot /\ running' = running /\ failure' = failure
    BY <2>1, <2>6, LayoutKeepsSlot
  <2>8. "task" \notin due BY DEF Commit
  <2>9. Current(TaskSource) BY <2>1, <2>6 DEF Current
  <2> QED BY <1>1, <2>1, <2>6, <2>7, <2>8, <2>9 DEF IInv, NothingForgotten, Current
<1> QED BY <1>3, <1>4, <1>7, <1>8, <1>9 DEF IInv

LEMMA PassiveInv == ASSUME CalculationAssumption, IInv, PassiveEffects PROVE IInv'
<1> USE CalculationAssumption
<1>1. due' = {} /\ UNCHANGED <<active, form, heavy, inputs, debounced, success>>
      /\ timer' \in Form \cup {NoForm}
  BY DEF PassiveEffects, settings, RestartedTimer, IInv, TypeOK
<1>2. Source' = Source /\ TaskSource' = TaskSource BY <1>1 DEF Source, TaskSource
<1>3. TaskSource \in Sources \cup {NoSource} /\ (TaskSource = NoSource <=> inputs = NoContext)
      /\ (inputs # NoContext => TaskSource.inputs = inputs)
  BY SourceIsTyped DEF TaskSource, IInv, TypeOK
<1>4. CASE UNCHANGED <<slot, owner, pending, failure, running, computes>> /\ "task" \notin due
  BY <1>1, <1>2, <1>4 DEF IInv, TypeOK, OneWorker, SlotIsOwned, PendingIsSlot, SlotIsRecent,
     DeadSlotIsObsolete, NothingForgotten, Current
<1>5. CASE StartTask
  <2>1. PICK t \in Task \ (running \cup {slot, owner}) :
          /\ slot' = t /\ owner' = t
          /\ running' = StillRunning \cup {t}
          /\ computes' = [computes EXCEPT ![t] = TaskSource]
    BY <1>5 DEF StartTask
  <2>2. pending' = TaskSource /\ active /\ TaskSource # NoSource
        /\ failure' \in {failure, NoSource}
    BY <1>5 DEF StartTask
  <2>3. t # NoTask /\ computes'[t] = TaskSource
    BY <2>1 DEF CalculationAssumption, IInv, TypeOK
  <2>4. StillRunning = {}
    BY DEF StillRunning, IInv, OneWorker, SlotIsOwned, TypeOK, CalculationAssumption
  <2>5. TypeOK' BY <1>1, <1>3, <2>1, <2>2, <2>4 DEF IInv, TypeOK
  <2>6. OneWorker' /\ SlotIsOwned' /\ PendingIsSlot' /\ DeadSlotIsObsolete'
    BY <2>1, <2>2, <2>3, <2>4 DEF OneWorker, SlotIsOwned, PendingIsSlot, DeadSlotIsObsolete
  <2>7. SlotIsRecent' BY <1>1, <1>3, <2>1, <2>2, <2>3 DEF SlotIsRecent
  <2>8. NothingForgotten' BY <1>2, <2>1, <2>3, <2>4 DEF NothingForgotten, Current
  <2> QED BY <2>5, <2>6, <2>7, <2>8 DEF IInv
<1>6. CASE StartNothing
  <2>1. slot' = NoTask /\ pending' = NoSource /\ owner' = NoTask /\ running' = {}
        /\ UNCHANGED <<failure, computes>> /\ (~active \/ TaskSource = NoSource)
    BY <1>6 DEF StartNothing, StillRunning, IInv, OneWorker, SlotIsOwned, PendingIsSlot, TypeOK,
                CalculationAssumption
  <2> QED BY <1>1, <1>2, <2>1 DEF IInv, TypeOK, OneWorker, SlotIsOwned, PendingIsSlot,
            SlotIsRecent, DeadSlotIsObsolete, NothingForgotten, Current
<1> QED BY <1>4, <1>5, <1>6 DEF PassiveEffects

LEMMA SettleInv ==
  ASSUME CalculationAssumption, IInv, NEW t \in Task, NEW succeeds \in BOOLEAN, Settle(t, succeeds)
  PROVE  IInv'
<1> USE CalculationAssumption
<1>1. UNCHANGED <<active, form, heavy, inputs, timer, debounced, due, owner, computes>>
      /\ running' = running \ {t} /\ t \in running
  BY DEF Settle, settings
<1>2. Source' = Source /\ TaskSource' = TaskSource BY <1>1 DEF Source, TaskSource
<1>3. slot = t /\ t # NoTask /\ running' = {}
  BY <1>1 DEF IInv, OneWorker, TypeOK, CalculationAssumption
<1>4. CASE OwnsCurrentSlot(t)
  <2>1. slot' = NoTask /\ pending' = NoSource
        /\ success' = (IF succeeds THEN computes[t] ELSE success)
        /\ failure' = (IF ~succeeds THEN computes[t]
                       ELSE IF failure = computes[t] THEN NoSource ELSE failure)
    BY <1>4 DEF Settle
  <2>2. computes[t] = Source /\ Source # NoSource BY <1>4 DEF OwnsCurrentSlot, Current
  <2> QED BY <1>1, <1>2, <1>3, <2>1, <2>2 DEF IInv, TypeOK, OneWorker, SlotIsOwned, PendingIsSlot,
            SlotIsRecent, DeadSlotIsObsolete, NothingForgotten, Current
<1>5. CASE ~OwnsCurrentSlot(t)
  <2>1. UNCHANGED <<success, failure, slot, pending>> BY <1>5 DEF Settle, results
  <2>2. active /\ computes[t] \in Sources BY <1>3 DEF IInv, SlotIsRecent
  <2>3. computes[t] # Source
    BY <1>3, <1>5, <2>2 DEF OwnsCurrentSlot, Current, CalculationAssumption, Sources
  <2> QED BY <1>1, <1>2, <1>3, <2>1, <2>3 DEF IInv, TypeOK, OneWorker, SlotIsOwned, PendingIsSlot,
            SlotIsRecent, DeadSlotIsObsolete, NothingForgotten, Current
<1> QED BY <1>4, <1>5
-----------------------------------------------------------------------------
LEMMA StepInv == ASSUME CalculationAssumption, IInv, [Next]_vars PROVE IInv'
<1> USE CalculationAssumption
<1>1. ASSUME NEW f \in Form, EditForm(f) PROVE IInv'
  <2>1. active' \in BOOLEAN /\ form' \in Form /\ inputs' \in Inputs \cup {NoContext} /\ Advances
    BY <1>1 DEF EditForm, Advances, IInv, TypeOK
  <2> QED BY <1>1, <2>1, CommitInv DEF EditForm
<1>2. ASSUME NEW i \in Inputs, ChangeInputs(i) PROVE IInv'
  <2>1. active' \in BOOLEAN /\ form' \in Form /\ inputs' \in Inputs \cup {NoContext} /\ Advances
    BY <1>2 DEF ChangeInputs, Advances, IInv, TypeOK
  <2> QED BY <1>2, <2>1, CommitInv DEF ChangeInputs
<1>3. ASSUME NEW i \in Inputs, NEW f \in Form, ReplaceSetup(f, i) PROVE IInv'
  <2>1. active' \in BOOLEAN /\ form' \in Form /\ inputs' \in Inputs \cup {NoContext} /\ Advances
    BY <1>3 DEF ReplaceSetup, Advances, IInv, TypeOK
  <2> QED BY <1>3, <2>1, CommitInv DEF ReplaceSetup
<1>4. CASE SwitchTab \/ Retry \/ CommitDebounced
  <2>1. active' \in BOOLEAN /\ form' \in Form /\ inputs' \in Inputs \cup {NoContext} /\ Advances
    BY <1>4 DEF SwitchTab, Retry, CommitDebounced, Advances, IInv, TypeOK
  <2> QED BY <1>4, <2>1, CommitInv DEF SwitchTab, Retry, CommitDebounced
<1>5. CASE TimerFires
  <2>1. UNCHANGED <<active, form, heavy, inputs, due, slot, owner, pending, success, failure,
                    running, computes>>
        /\ timer' \in Form \cup {NoForm} /\ debounced' \in Form \cup {NoForm}
    BY <1>5 DEF TimerFires, settings, results, IInv, TypeOK
  <2> QED BY <2>1 DEF IInv, TypeOK, OneWorker, SlotIsOwned, PendingIsSlot, SlotIsRecent,
            DeadSlotIsObsolete, NothingForgotten, Current, Source, TaskSource
<1>6. CASE PassiveEffects BY <1>6, PassiveInv
<1>7. ASSUME NEW t \in Task, Settle(t, TRUE) \/ Settle(t, FALSE) PROVE IInv'
  BY <1>7, SettleInv
<1>8. CASE UNCHANGED vars
  BY <1>8 DEF vars, settings, results, IInv, TypeOK, OneWorker, SlotIsOwned, PendingIsSlot,
     SlotIsRecent, DeadSlotIsObsolete, NothingForgotten, Current, Source, TaskSource
<1> QED BY <1>1, <1>2, <1>3, <1>4, <1>5, <1>6, <1>7, <1>8 DEF Next

(* IInv holds in every state of every behavior.                            *)
THEOREM Inductive == Spec => []IInv
<1>1. Init => IInv BY CalculationAssumption, InitInv
<1>2. IInv /\ [Next]_vars => IInv' BY CalculationAssumption, StepInv
<1> QED BY <1>1, <1>2, PTL DEF Spec

(* The hook's refs and states keep their types.                            *)
THEOREM TypeCorrect == Spec => []TypeOK
<1>1. IInv => TypeOK BY DEF IInv
<1> QED BY <1>1, Inductive, PTL

(* No cancelled or replaced task leaves a Worker running.                  *)
THEOREM WorkersAreOwned == Spec => []OneWorker
<1>1. IInv => OneWorker BY DEF IInv
<1> QED BY <1>1, Inductive, PTL

(* The pane never says "building" without a task for what is on screen.    *)
THEOREM BuildingIsReal == Spec => []BuildingHasTask
<1>1. ASSUME IInv PROVE BuildingHasTask
  <2> SUFFICES ASSUME Status = "building"
               PROVE  \/ "task" \in due /\ active /\ TaskSource = Source
                      \/ slot \in running /\ computes[slot] = Source
    BY DEF BuildingHasTask
  <2>1. Building BY DEF Status
  <2>2. CASE Current(pending)
    <3>1. slot # NoTask /\ computes[slot] = Source
      BY <1>1, <2>2 DEF IInv, PendingIsSlot, Current
    <3> QED BY <1>1, <3>1 DEF IInv, DeadSlotIsObsolete
  <2>3. CASE active /\ Current(TaskSource) /\ ~Current(failure) /\ ~Current(success)
    BY <1>1, <2>3 DEF IInv, NothingForgotten, Current
  <2> QED BY <2>1, <2>2, <2>3 DEF Building
<1>2. IInv => BuildingHasTask BY <1>1
<1> QED BY <1>2, Inductive, PTL

(* A result or failure stored by a step is for the inputs on screen.       *)
Stored ==
  /\ success' # success => active /\ success' = Source /\ UNCHANGED settings
  /\ failure' # failure /\ failure' # NoSource => active /\ failure' = Source

LEMMA StepStores == ASSUME Next PROVE Stored
<1>1. ASSUME NEW retried \in BOOLEAN, Commit(retried) PROVE Stored
  <2>1. success' = success BY <1>1 DEF Commit
  <2>2. failure' \in {failure, NoSource} BY <1>1 DEF Commit, LayoutEffect
  <2> QED BY <2>1, <2>2 DEF Stored
<1>2. ASSUME NEW f \in Form, EditForm(f) PROVE Stored BY <1>1, <1>2 DEF EditForm
<1>3. ASSUME NEW i \in Inputs, ChangeInputs(i) PROVE Stored BY <1>1, <1>3 DEF ChangeInputs
<1>4. ASSUME NEW i \in Inputs, NEW f \in Form, ReplaceSetup(f, i) PROVE Stored
  BY <1>1, <1>4 DEF ReplaceSetup
<1>5. CASE SwitchTab \/ Retry \/ CommitDebounced
  BY <1>1, <1>5 DEF SwitchTab, Retry, CommitDebounced
<1>6. CASE TimerFires BY <1>6 DEF TimerFires, results, Stored
<1>7. CASE PassiveEffects
  BY <1>7 DEF PassiveEffects, StartTask, StartNothing, Stored
<1>8. ASSUME NEW t \in Task, NEW succeeds \in BOOLEAN, Settle(t, succeeds) PROVE Stored
  BY <1>8 DEF Settle, OwnsCurrentSlot, Current, results, Stored
<1> QED BY <1>2, <1>3, <1>4, <1>5, <1>6, <1>7, <1>8 DEF Next

(* Only the task for the inputs on screen stores a result or a failure.    *)
THEOREM StoresCurrent == Spec => StoredIsCurrent
<1>1. [Next]_vars =>
        [/\ success' # success => active /\ success' = Source /\ UNCHANGED settings
         /\ failure' # failure /\ failure' # NoSource => active /\ failure' = Source]_vars
  BY StepStores DEF Stored
<1> QED BY <1>1, PTL DEF Spec, StoredIsCurrent

-----------------------------------------------------------------------------
(* File imports.                                                           *)
(* What is being read was chosen before, has one record and is not applied.*)
ReadingIsNew ==
  \A r \in reading :
    /\ r.id <= chosen
    /\ applied[r.id] = 0
    /\ review # NoReview => review.file # r.id
    /\ \A q \in reading : q.id = r.id => q = r

ReviewIsNew ==
  review # NoReview => applied[review.file] = 0 /\ review.file <= chosen

LaterIsNew == \A i \in Imports!Ids : i > attempts => applied[i] = 0

ImportIInv ==
  /\ Imports!TypeOK /\ Imports!LatestReview /\ Imports!AppliedOnce
  /\ ReadingIsNew /\ ReviewIsNew /\ LaterIsNew

-----------------------------------------------------------------------------
LEMMA ImportInitInv == ASSUME Imports!ImportAssumption, Imports!Init PROVE ImportIInv
<1> USE DEF Imports!Init, Imports!ImportAssumption
<1>1. Imports!TypeOK
  <2>1. attempts \in 0..MaxAttempts /\ chosen \in 0..attempts
    OBVIOUS
  <2>2. applying \in [1..MaxApplies -> SUBSET Imports!Captured]
    OBVIOUS
  <2>3. applied \in [Imports!Ids -> Nat]
    OBVIOUS
  <2> QED BY <2>1, <2>2, <2>3 DEF Imports!TypeOK
<1>2. Imports!AppliedOnce /\ LaterIsNew
  BY DEF Imports!AppliedOnce, LaterIsNew
<1> QED BY <1>1, <1>2 DEF ImportIInv, Imports!LatestReview, ReadingIsNew, ReviewIsNew

LEMMA ImportChooseInv == ASSUME Imports!ImportAssumption, ImportIInv, Imports!ChooseFile PROVE ImportIInv'
<1> USE DEF Imports!ChooseFile, Imports!ImportAssumption
<1>1. attempts' = attempts + 1 /\ attempts' \in Imports!Ids /\ chosen' = attempts'
  BY DEF ImportIInv, Imports!TypeOK, Imports!Ids
<1>2. Imports!TypeOK'
  <2>1. attempts' \in 0..MaxAttempts /\ chosen' \in 0..attempts'
    BY <1>1 DEF Imports!Ids, ImportIInv, Imports!TypeOK
  <2>2. reading' \in SUBSET Imports!Captured
    BY <1>1 DEF ImportIInv, Imports!TypeOK, Imports!Captured
  <2>3. offered' \in BOOLEAN
    BY DEF ImportIInv, Imports!TypeOK
  <2> QED BY <2>1, <2>2, <2>3 DEF ImportIInv, Imports!TypeOK
<1>3. applied[attempts'] = 0
  BY <1>1 DEF ImportIInv, LaterIsNew, Imports!TypeOK
<1>4. ReadingIsNew'
  <2>1. ASSUME NEW r \in reading' PROVE r.id <= chosen' /\ applied[r.id] = 0
    BY <1>1, <1>3 DEF ImportIInv, ReadingIsNew, Imports!TypeOK, Imports!Captured, Imports!Ids
  <2>2. ASSUME NEW r \in reading', NEW q \in reading', q.id = r.id PROVE q = r
    BY <1>1, <2>2 DEF ImportIInv, ReadingIsNew, Imports!TypeOK, Imports!Captured, Imports!Ids
  <2> QED BY <2>1, <2>2 DEF ReadingIsNew
<1>5. (Imports!LatestReview /\ Imports!AppliedOnce /\ ReviewIsNew /\ LaterIsNew)'
  BY <1>1 DEF ImportIInv, Imports!LatestReview, Imports!AppliedOnce, ReviewIsNew, LaterIsNew, Imports!TypeOK, Imports!Ids
<1> QED BY <1>2, <1>4, <1>5 DEF ImportIInv

LEMMA ImportReadInv ==
  ASSUME Imports!ImportAssumption, ImportIInv, NEW r \in reading, Imports!FileIsRead(r) PROVE ImportIInv'
<1> USE DEF Imports!FileIsRead
<1>1. reading' \subseteq reading /\ r \notin reading'
  OBVIOUS
<1>2. r.id \in Imports!Ids /\ r.seen \in ImportValue /\ r.id <= chosen /\ applied[r.id] = 0
  BY DEF ImportIInv, ReadingIsNew, Imports!TypeOK, Imports!Captured
<1>3. CASE UNCHANGED review
  <2>1. Imports!TypeOK'
    BY <1>1, <1>3 DEF ImportIInv, Imports!TypeOK
  <2> QED BY <1>1, <1>3, <2>1 DEF ImportIInv, Imports!LatestReview, Imports!AppliedOnce, ReadingIsNew,
                                 ReviewIsNew, LaterIsNew
<1>4. CASE /\ Imports!IsLatest(r.id) /\ offered' = FALSE
           /\ review' = [id |-> r.id, file |-> r.id, base |-> r.seen, stale |-> FALSE]
  <2>1. review' \in Imports!Review /\ review'.file = r.id
    BY <1>2, <1>4 DEF Imports!Review
  <2>2. Imports!TypeOK'
    BY <1>1, <1>4, <2>1 DEF ImportIInv, Imports!TypeOK
  <2>3. r.id = chosen
    BY <1>2, <1>4 DEF Imports!IsLatest, ImportIInv, Imports!TypeOK, Imports!Ids, Imports!ImportAssumption
  <2>4. ReadingIsNew'
    BY <1>1, <2>1 DEF ImportIInv, ReadingIsNew
  <2>5. (Imports!LatestReview /\ Imports!AppliedOnce /\ ReviewIsNew /\ LaterIsNew)'
    BY <1>2, <2>1, <2>3 DEF ImportIInv, Imports!LatestReview, Imports!AppliedOnce, ReviewIsNew, LaterIsNew
  <2> QED BY <2>2, <2>4, <2>5 DEF ImportIInv
<1> QED BY <1>3, <1>4

(* A step that applies nothing and keeps, drops or refreshes the review.   *)
LEMMA ImportKeepInv ==
  ASSUME Imports!ImportAssumption, ImportIInv, Imports!TypeOK',
         UNCHANGED <<reading, chosen, applied>>, attempts' >= attempts,
         review' = NoReview \/ (review # NoReview /\ review'.file = review.file)
  PROVE  ImportIInv'
BY DEF ImportIInv, Imports!LatestReview, Imports!AppliedOnce, ReadingIsNew, ReviewIsNew, LaterIsNew, Imports!TypeOK,
       Imports!ImportAssumption, Imports!Ids

(* A review is applied and leaves the screen.                              *)
LEMMA ImportApplyInv ==
  ASSUME Imports!ImportAssumption, ImportIInv, review # NoReview, review' = NoReview,
         NEW v \in ImportValue, NEW prior \in ImportValue, Imports!Replace(v, prior),
         UNCHANGED <<kind, attempts, reading, chosen>>,
         busy' \in BOOLEAN, offered' \in BOOLEAN,
         applying' \in [1..MaxApplies -> SUBSET Imports!Captured]
  PROVE  ImportIInv'
<1>1. review \in Imports!Review /\ review.file \in Imports!Ids /\ review.file <= chosen
  BY DEF ImportIInv, Imports!TypeOK, Imports!Review, ReviewIsNew
<1>2. applied' = [applied EXCEPT ![review.file] = 1]
  <2>1. applied[review.file] + 1 = 1
    BY <1>1 DEF ImportIInv, ReviewIsNew
  <2> QED BY <2>1 DEF Imports!Replace
<1>3. applied' \in [Imports!Ids -> Nat]
  BY <1>1, <1>2 DEF ImportIInv, Imports!TypeOK
<1>4. Imports!TypeOK'
  <2>1. shown' \in ImportValue /\ undo' \in ImportValue /\ replaced' \in ImportValue
    BY DEF Imports!Replace, ImportIInv, Imports!TypeOK
  <2> QED BY <1>3, <2>1 DEF ImportIInv, Imports!TypeOK
<1>5. ReadingIsNew'
  BY <1>1, <1>2 DEF ImportIInv, ReadingIsNew, Imports!TypeOK, Imports!Captured
<1>6. Imports!AppliedOnce' /\ LaterIsNew'
  BY <1>1, <1>2 DEF ImportIInv, Imports!AppliedOnce, LaterIsNew, Imports!TypeOK, Imports!Ids
<1> QED BY <1>4, <1>5, <1>6 DEF ImportIInv, Imports!LatestReview, ReviewIsNew

LEMMA ImportRefreshInv == ASSUME Imports!ImportAssumption, ImportIInv, Imports!RefreshReview PROVE ImportIInv'
<1> USE DEF Imports!RefreshReview, Imports!OnReview, Imports!ImportAssumption
<1>1. attempts' \in 0..MaxAttempts /\ attempts' >= attempts
  BY DEF ImportIInv, Imports!TypeOK
<1>2. review \in Imports!Review /\ (kind = "duel" => attempts' \in Imports!Ids)
  BY <1>1 DEF ImportIInv, Imports!TypeOK, Imports!Ids
<1>3. review' \in Imports!Review /\ review'.file = review.file
  BY <1>2 DEF Imports!Review, ImportIInv, Imports!TypeOK
<1>4. offered' \in BOOLEAN
  BY DEF ImportIInv, Imports!TypeOK
<1>5. Imports!TypeOK'
  BY <1>1, <1>3, <1>4 DEF ImportIInv, Imports!TypeOK
<1> QED BY <1>1, <1>3, <1>5, ImportKeepInv

LEMMA ImportStartRestoreInv ==
  ASSUME Imports!ImportAssumption, ImportIInv, NEW n \in 1..MaxApplies, NEW session \in BOOLEAN,
         Imports!StartRestore(n, session)
  PROVE  ImportIInv'
<1> USE DEF Imports!StartRestore, Imports!OnReview
<1>1. review \in Imports!Review
  BY DEF ImportIInv, Imports!TypeOK
<1>2. review' \in Imports!Review /\ review'.file = review.file
  BY <1>1 DEF Imports!Review, ImportIInv, Imports!TypeOK
<1>3. [id |-> review.id, seen |-> shown] \in Imports!Captured
  BY <1>1 DEF Imports!Review, Imports!Captured, ImportIInv, Imports!TypeOK
<1>4. applying' \in [1..MaxApplies -> SUBSET Imports!Captured]
  BY <1>3 DEF ImportIInv, Imports!TypeOK
<1>5. Imports!TypeOK'
  BY <1>2, <1>4 DEF ImportIInv, Imports!TypeOK
<1>6. attempts' >= attempts
  BY DEF ImportIInv, Imports!TypeOK
<1> QED BY <1>2, <1>5, <1>6, ImportKeepInv

LEMMA ImportRestoreAppliesInv ==
  ASSUME Imports!ImportAssumption, ImportIInv, NEW n \in 1..MaxApplies, NEW v \in ImportValue,
         Imports!RestoreApplies(n, v)
  PROVE  ImportIInv'
<1>1. PICK a \in applying[n] :
        /\ applying' = [applying EXCEPT ![n] = {}]
        /\ busy' = FALSE
        /\ review # NoReview /\ review.id = a.id
        /\ Imports!Replace(v, a.seen)
        /\ review' = NoReview /\ offered' = FALSE
        /\ UNCHANGED <<kind, attempts, reading, chosen>>
  BY DEF Imports!RestoreApplies
<1>2. a.seen \in ImportValue /\ applying' \in [1..MaxApplies -> SUBSET Imports!Captured]
  BY <1>1 DEF ImportIInv, Imports!TypeOK, Imports!Captured
<1> QED BY <1>1, <1>2, ImportApplyInv

LEMMA ImportRestoreRefusedInv ==
  ASSUME Imports!ImportAssumption, ImportIInv, NEW n \in 1..MaxApplies, Imports!RestoreRefused(n) PROVE ImportIInv'
<1>1. PICK a \in applying[n] :
        /\ applying' = [applying EXCEPT ![n] = {}]
        /\ busy' = FALSE
        /\ \/ /\ review # NoReview /\ review.id = a.id
              /\ review' = [review EXCEPT !.base = a.seen]
              /\ offered' \in BOOLEAN
           \/ UNCHANGED review /\ offered' \in {offered, FALSE}
        /\ UNCHANGED <<kind, shown, attempts, reading, undo, chosen, applied, replaced>>
  BY DEF Imports!RestoreRefused
<1>2. a.seen \in ImportValue /\ applying' \in [1..MaxApplies -> SUBSET Imports!Captured]
  BY <1>1 DEF ImportIInv, Imports!TypeOK, Imports!Captured
<1>3. \/ review # NoReview /\ review' \in Imports!Review /\ review'.file = review.file
      \/ UNCHANGED review
  BY <1>1, <1>2 DEF ImportIInv, Imports!TypeOK, Imports!Review
<1>4. offered' \in BOOLEAN
  BY <1>1 DEF ImportIInv, Imports!TypeOK
<1>5. Imports!TypeOK'
  BY <1>1, <1>2, <1>3, <1>4 DEF ImportIInv, Imports!TypeOK
<1>6. attempts' >= attempts
  BY <1>1 DEF ImportIInv, Imports!TypeOK
<1> QED BY <1>1, <1>3, <1>5, <1>6, ImportKeepInv

LEMMA ImportStepInv == ASSUME Imports!ImportAssumption, ImportIInv, [Imports!Next]_(Imports!vars) PROVE ImportIInv'
<1>0. attempts \in Nat /\ attempts >= attempts
  BY DEF ImportIInv, Imports!TypeOK, Imports!ImportAssumption
<1>1. CASE UNCHANGED Imports!vars
  <2>1. Imports!TypeOK' BY <1>1 DEF ImportIInv, Imports!TypeOK, Imports!vars
  <2> QED BY <1>1, <2>1 DEF Imports!vars, ImportIInv, Imports!LatestReview, Imports!AppliedOnce, ReadingIsNew,
                            ReviewIsNew, LaterIsNew
<1>2. CASE Imports!ChooseFile BY <1>2, ImportChooseInv
<1>3. CASE Imports!DismissReview
  <2>1. Imports!TypeOK' BY <1>3 DEF Imports!DismissReview, Imports!OnReview, ImportIInv, Imports!TypeOK
  <2> QED BY <1>0, <1>3, <2>1, ImportKeepInv DEF Imports!DismissReview, Imports!OnReview
<1>4. CASE Imports!ReviewGoesStale
  <2>1. review \in Imports!Review
    BY <1>4 DEF Imports!ReviewGoesStale, Imports!OnReview, ImportIInv, Imports!TypeOK
  <2>2. review' \in Imports!Review /\ review'.file = review.file
    BY <1>4, <2>1 DEF Imports!ReviewGoesStale, Imports!OnReview, Imports!Review
  <2>3. Imports!TypeOK' BY <1>4, <2>2 DEF Imports!ReviewGoesStale, Imports!OnReview, ImportIInv, Imports!TypeOK
  <2> QED BY <1>0, <1>4, <2>2, <2>3, ImportKeepInv DEF Imports!ReviewGoesStale, Imports!OnReview
<1>5. CASE Imports!RefreshReview BY <1>5, ImportRefreshInv
<1>6. CASE Imports!UndoImport
  <2>1. Imports!TypeOK' BY <1>6 DEF Imports!UndoImport, ImportIInv, Imports!TypeOK
  <2> QED BY <1>0, <1>6, <2>1, ImportKeepInv DEF Imports!UndoImport
<1>7. ASSUME NEW r \in reading, Imports!FileIsRead(r) PROVE ImportIInv' BY <1>7, ImportReadInv
<1>8. ASSUME NEW v \in ImportValue, Imports!Edit(v) PROVE ImportIInv'
  <2>1. Imports!TypeOK' BY <1>8 DEF Imports!Edit, ImportIInv, Imports!TypeOK
  <2> QED BY <1>0, <1>8, <2>1, ImportKeepInv DEF Imports!Edit
<1>9. ASSUME NEW v \in ImportValue, Imports!ApplyReview(v) PROVE ImportIInv'
  <2>1. shown \in ImportValue /\ busy \in BOOLEAN
        /\ applying \in [1..MaxApplies -> SUBSET Imports!Captured]
    BY DEF ImportIInv, Imports!TypeOK
  <2> QED BY <1>9, <2>1, ImportApplyInv DEF Imports!ApplyReview
<1>10. ASSUME NEW n \in 1..MaxApplies, NEW session \in BOOLEAN, Imports!StartRestore(n, session)
       PROVE ImportIInv'
  BY <1>10, ImportStartRestoreInv
<1>11. ASSUME NEW n \in 1..MaxApplies, NEW v \in ImportValue, Imports!RestoreApplies(n, v) PROVE ImportIInv'
  BY <1>11, ImportRestoreAppliesInv
<1>12. ASSUME NEW n \in 1..MaxApplies, Imports!RestoreRefused(n) PROVE ImportIInv'
  BY <1>12, ImportRestoreRefusedInv
<1> QED BY <1>1, <1>2, <1>3, <1>4, <1>5, <1>6, <1>7, <1>8, <1>9, <1>10, <1>11, <1>12
        DEF Imports!Next

-----------------------------------------------------------------------------
(* The panes and the saved setups, as their own proofs see them: the same  *)
(* definitions, instantiated with the same variables.                      *)
SlotsProofs == INSTANCE CalculationSlotsProofs WITH
  Inputs <- PaneInputs, active <- paneActive, due <- paneDue, slot <- paneSlot,
  owner <- paneOwner, pending <- panePending, success <- paneSuccess,
  failure <- paneFailure, running <- paneRunning, computes <- paneComputes

SetupsProofs == INSTANCE SetupChangesProofs WITH due <- saveDue

LEMMA SlotsInitIsTheirs == ASSUME Slots!Init PROVE SlotsProofs!Init
BY DEF Slots!Init, SlotsProofs!Init, Slots!MaybeSource,
   SlotsProofs!MaybeSource

LEMMA SlotsStepIsTheirs ==
  ASSUME [Slots!Next]_(Slots!vars) PROVE [SlotsProofs!Next]_(SlotsProofs!vars)
BY DEF Slots!BuildMatrix, SlotsProofs!BuildMatrix, Slots!Building,
   SlotsProofs!Building, Slots!CanRun, SlotsProofs!CanRun,
   Slots!CancelAnalysis, SlotsProofs!CancelAnalysis, Slots!ChangeSetups,
   SlotsProofs!ChangeSetups, Slots!Commit, SlotsProofs!Commit, Slots!Current,
   SlotsProofs!Current, Slots!DuePassive, SlotsProofs!DuePassive,
   Slots!DuelEffects, SlotsProofs!DuelEffects, Slots!EditInputs,
   SlotsProofs!EditInputs, Slots!Failed, SlotsProofs!Failed, Slots!KeepSlot,
   SlotsProofs!KeepSlot, Slots!LayoutEffect, SlotsProofs!LayoutEffect,
   Slots!LookAgain, SlotsProofs!LookAgain, Slots!Next, SlotsProofs!Next,
   Slots!Owns, SlotsProofs!Owns, Slots!PlanTask, SlotsProofs!PlanTask,
   Slots!Recompute, SlotsProofs!Recompute, Slots!ReleaseSlot,
   SlotsProofs!ReleaseSlot, Slots!Retry, SlotsProofs!Retry, Slots!RunAnalysis,
   SlotsProofs!RunAnalysis, Slots!Settle, SlotsProofs!Settle, Slots!StartTask,
   SlotsProofs!StartTask, Slots!SwitchTab, SlotsProofs!SwitchTab,
   Slots!TaskIsDue, SlotsProofs!TaskIsDue, Slots!results, SlotsProofs!results,
   Slots!screen, SlotsProofs!screen, Slots!slots, SlotsProofs!slots,
   Slots!vars, SlotsProofs!vars

LEMMA SetupsInitIsTheirs == ASSUME Setups!Init PROVE SetupsProofs!Init
BY DEF Setups!Cardinality, SetupsProofs!Cardinality, Setups!IsFiniteSet,
   SetupsProofs!IsFiniteSet, Setups!Init, SetupsProofs!Init, Setups!Loaded,
   SetupsProofs!Loaded, Setups!NoButton, SetupsProofs!NoButton,
   Setups!RawOrNull, SetupsProofs!RawOrNull

LEMMA SetupsStepIsTheirs ==
  ASSUME [Setups!Next]_(Setups!vars) PROVE [SetupsProofs!Next]_(SetupsProofs!vars)
BY DEF Setups!Cardinality, SetupsProofs!Cardinality, Setups!IsFiniteSet,
   SetupsProofs!IsFiniteSet, Setups!ApplyDurable, SetupsProofs!ApplyDurable,
   Setups!ApplyForSession, SetupsProofs!ApplyForSession, Setups!ApplyRefused,
   SetupsProofs!ApplyRefused, Setups!ApplyTorn, SetupsProofs!ApplyTorn,
   Setups!Autosave, SetupsProofs!Autosave, Setups!AutosaveReturns,
   SetupsProofs!AutosaveReturns, Setups!BecomesLive, SetupsProofs!BecomesLive,
   Setups!ButtonTaken, SetupsProofs!ButtonTaken, Setups!CompletesUndo,
   SetupsProofs!CompletesUndo, Setups!ConfirmClear, SetupsProofs!ConfirmClear,
   Setups!DeleteSetup, SetupsProofs!DeleteSetup, Setups!DropRequest,
   SetupsProofs!DropRequest, Setups!Edits, SetupsProofs!Edits,
   Setups!EffectDue, SetupsProofs!EffectDue, Setups!EventArrives,
   SetupsProofs!EventArrives, Setups!Fresh, SetupsProofs!Fresh,
   Setups!Handles, SetupsProofs!Handles, Setups!InvalidateSavedSetupUndo,
   SetupsProofs!InvalidateSavedSetupUndo, Setups!KeepCurrent,
   SetupsProofs!KeepCurrent, Setups!KeepsReleased, SetupsProofs!KeepsReleased,
   Setups!LegacyMigration, SetupsProofs!LegacyMigration, Setups!Loaded,
   SetupsProofs!Loaded, Setups!Next, SetupsProofs!Next, Setups!NoButton,
   SetupsProofs!NoButton, Setups!NoUndoOrRequest,
   SetupsProofs!NoUndoOrRequest, Setups!OtherTabWrites,
   SetupsProofs!OtherTabWrites, Setups!Persist, SetupsProofs!Persist,
   Setups!RawOrNull, SetupsProofs!RawOrNull, Setups!Registers,
   SetupsProofs!Registers, Setups!ReleasesStored, SetupsProofs!ReleasesStored,
   Setups!Reload, SetupsProofs!Reload, Setups!SaveSetup,
   SetupsProofs!SaveSetup, Setups!SkipLeft, SetupsProofs!SkipLeft,
   Setups!SkipsOnce, SetupsProofs!SkipsOnce, Setups!Suspended,
   SetupsProofs!Suspended, Setups!Torn, SetupsProofs!Torn, Setups!UndoDelete,
   SetupsProofs!UndoDelete, Setups!UndoDurable, SetupsProofs!UndoDurable,
   Setups!UndoForSession, SetupsProofs!UndoForSession, Setups!UndoRefused,
   SetupsProofs!UndoRefused, Setups!UndoStale, SetupsProofs!UndoStale,
   Setups!UndoTorn, SetupsProofs!UndoTorn, Setups!Undoes, SetupsProofs!Undoes,
   Setups!WriteTakenBack, SetupsProofs!WriteTakenBack,
   Setups!Writes, SetupsProofs!Writes, Setups!WritesNothing,
   SetupsProofs!WritesNothing, Setups!area, SetupsProofs!area, Setups!seen,
   SetupsProofs!seen, Setups!undoing, SetupsProofs!undoing, Setups!vars,
   SetupsProofs!vars

(* A step of the page is a step of one part.                               *)
LEMMA PartsStep ==
  ASSUME [PartsNext]_allVars
  PROVE  /\ [Next]_vars /\ [Slots!Next]_(Slots!vars)
         /\ [Setups!Next]_(Setups!vars) /\ [Imports!Next]_(Imports!vars)
<1>1. UNCHANGED vars \/ Next BY DEF PartsNext, allVars
<1>2. UNCHANGED paneVars \/ Slots!Next BY DEF PartsNext, allVars
<1>3. UNCHANGED setupVars \/ Setups!Next BY DEF PartsNext, allVars
<1>4. UNCHANGED importVars \/ Imports!Next BY DEF PartsNext, allVars
<1>5. UNCHANGED paneVars => UNCHANGED Slots!vars
  BY DEF paneVars, Slots!vars, Slots!screen, Slots!results, Slots!slots
<1>6. UNCHANGED setupVars => UNCHANGED Setups!vars
  BY DEF setupVars, Setups!vars, Setups!area, Setups!undoing, Setups!seen
<1>7. UNCHANGED importVars => UNCHANGED Imports!vars
  BY DEF importVars, Imports!vars
<1> QED BY <1>1, <1>2, <1>3, <1>4, <1>5, <1>6, <1>7

-----------------------------------------------------------------------------
(* The parts of the page together.                                         *)

(* The assumptions that the panes' and the saved setups' proofs rest on.   *)
LEMMA TheirAssumptions == SlotsProofs!CalculationAssumption /\ SetupsProofs!SetupAssumption
BY PartsAssumption DEF Slots!CalculationAssumption, SlotsProofs!CalculationAssumption,
   Setups!SetupAssumption, SetupsProofs!SetupAssumption, Setups!Request, SetupsProofs!Request,
   Setups!Record, SetupsProofs!Record, Setups!RawOrNull, SetupsProofs!RawOrNull

(* The initial states of the parts; Compare may be at rest.                *)
LEMMA PartsInitInv ==
  ASSUME PartsInit
  PROVE  IInv /\ SlotsProofs!Init /\ SetupsProofs!Init /\ ImportIInv
<1>1. ASSUME Init PROVE IInv BY <1>1, CalculationAssumption, InitInv
<1>2. ASSUME CompareRests PROVE IInv
  <2> USE DEF CompareRests
  <2>1. TypeOK BY <1>2, PartsAssumption DEF TypeOK
  <2>2. OneWorker /\ SlotIsOwned /\ PendingIsSlot /\ SlotIsRecent /\ DeadSlotIsObsolete
    BY <1>2 DEF OneWorker, SlotIsOwned, PendingIsSlot, SlotIsRecent, DeadSlotIsObsolete
  <2>3. NothingForgotten BY <1>2 DEF NothingForgotten
  <2> QED BY <2>1, <2>2, <2>3 DEF IInv
<1>3. IInv BY <1>1, <1>2 DEF PartsInit
<1>4. Slots!Init /\ Setups!Init /\ Imports!Init BY DEF PartsInit
<1> QED BY <1>3, <1>4, SlotsInitIsTheirs, SetupsInitIsTheirs, ImportInitInv, PartsAssumption

(* Compare and the imports keep their invariants, and what a behaviour of  *)
(* the page does to a pane or to the saved setups is a behaviour of them.  *)
THEOREM PartsInductive ==
  PartsSpec => [](IInv /\ ImportIInv) /\ SlotsProofs!Steps /\ SetupsProofs!Spec
<1>1. PartsInit => IInv /\ SlotsProofs!Init /\ SetupsProofs!Init /\ ImportIInv
  BY PartsInitInv
<1>2. [PartsNext]_allVars =>
        /\ [SlotsProofs!Next]_(SlotsProofs!vars)
        /\ [SetupsProofs!Next]_(SetupsProofs!vars)
  BY PartsStep, SlotsStepIsTheirs, SetupsStepIsTheirs
<1>3. IInv /\ ImportIInv /\ [PartsNext]_allVars => (IInv /\ ImportIInv)'
  BY PartsStep, StepInv, ImportStepInv, CalculationAssumption, PartsAssumption
<1> QED BY <1>1, <1>2, <1>3, PTL DEF PartsSpec, SlotsProofs!Steps, SetupsProofs!Spec

(* The state of every controller keeps its types (PartsTypeOK).            *)
THEOREM PartsTypeCorrect == PartsSpec => []PartsTypeOK
<1>1. SlotsProofs!Steps => []SlotsProofs!TypeOK
  BY SlotsProofs!TypeCorrect, TheirAssumptions
<1>2. SetupsProofs!Spec => []SetupsProofs!TypeOK
  BY SetupsProofs!TypeCorrect, TheirAssumptions
<1>3. SlotsProofs!TypeOK => Slots!TypeOK
  BY DEF SlotsProofs!TypeOK, Slots!TypeOK, SlotsProofs!MaybeSource, Slots!MaybeSource,
         SlotsProofs!MaybeTask, Slots!MaybeTask
<1>4. SetupsProofs!TypeOK => Setups!TypeOK
  BY DEF SetupsProofs!TypeOK, Setups!TypeOK, SetupsProofs!RawOrNull, Setups!RawOrNull,
         SetupsProofs!Request, Setups!Request, SetupsProofs!Record, Setups!Record,
         SetupsProofs!Button, Setups!Button
<1>5. IInv /\ ImportIInv => TypeOK /\ Imports!TypeOK BY DEF IInv, ImportIInv
<1> QED BY <1>1, <1>2, <1>3, <1>4, <1>5, PartsInductive, PTL DEF PartsTypeOK

(* "building" is shown by the Planner, Risk or the Duel only while a task  *)
(* for the inputs on screen runs or is about to start                      *)
(* (SlotBuildingHasTask); the argument is in CalculationSlotsProofs.       *)
THEOREM PanesAreBacked == PartsSpec => []SlotBuildingHasTask
<1>1. SlotsProofs!Steps => []SlotsProofs!SlotBuildingHasTask
  BY SlotsProofs!BuildingIsBacked, TheirAssumptions
<1>2. SlotsProofs!SlotBuildingHasTask => SlotBuildingHasTask
  BY DEF SlotBuildingHasTask, SlotsProofs!SlotBuildingHasTask, Slots!SlotBuildingHasTask,
         SlotsProofs!Building, Slots!Building, SlotsProofs!Current, Slots!Current
<1> QED BY <1>1, <1>2, PartsInductive, PTL

(* The panes implement LatestAnswer (ImplementsLatestAnswer): one Worker   *)
(* at a time, and an answer or a failure kept only for the source the pane *)
(* last looked at; the step-by-step argument is in CalculationSlotsProofs. *)
THEOREM PanesImplementLatestAnswer == PartsSpec => ImplementsLatestAnswer
<1>1. SlotsProofs!Steps => SlotsProofs!ImplementsLatestAnswer
  BY SlotsProofs!SlotsImplementLatestAnswer, TheirAssumptions
<1>2. SlotsProofs!Latest!Init => Slots!Latest!Init
  BY DEF SlotsProofs!Latest!Init, Slots!Latest!Init
<1>3. [SlotsProofs!Latest!Next]_(SlotsProofs!Latest!vars)
        => [Slots!Latest!Next]_(Slots!Latest!vars)
  BY DEF Slots!Latest!Answer, SlotsProofs!Latest!Answer, Slots!Latest!Fail,
         SlotsProofs!Latest!Fail, Slots!Latest!Forget, SlotsProofs!Latest!Forget,
         Slots!Latest!Look, SlotsProofs!Latest!Look, Slots!Latest!Next,
         SlotsProofs!Latest!Next, Slots!Latest!Start, SlotsProofs!Latest!Start,
         Slots!Latest!Stop, SlotsProofs!Latest!Stop, Slots!Latest!vars,
         SlotsProofs!Latest!vars
<1> QED BY <1>1, <1>2, <1>3, PartsInductive, PTL
        DEF ImplementsLatestAnswer, Slots!ImplementsLatestAnswer,
            SlotsProofs!ImplementsLatestAnswer, Slots!Latest!Spec, SlotsProofs!Latest!Spec

(* The review on screen is of the file chosen last, however long the files *)
(* chosen before take to be read (LatestReview).                           *)
THEOREM LatestIsReviewed == PartsSpec => []LatestReview
<1>1. ImportIInv => LatestReview BY DEF ImportIInv, LatestReview
<1> QED BY <1>1, PartsInductive, PTL

(* One choice of a file is applied once at most, for any number of applies *)
(* that wait for the restore tools at the same time (AppliedOnce).         *)
THEOREM AppliesOnce == PartsSpec => []AppliedOnce
<1>1. ImportIInv => AppliedOnce BY DEF ImportIInv, AppliedOnce
<1> QED BY <1>1, PartsInductive, PTL

(* An Undo of a merge or a rename takes back the last change of the        *)
(* collection and nothing else (UndoIsOfLastChange): a later save, delete  *)
(* or import makes the offered Undo go away before it could drop it.       *)
THEOREM UndoTakesBackLastChange == PartsSpec => UndoIsOfLastChange
<1>1. SetupsProofs!Spec => SetupsProofs!UndoIsOfLastChange
  BY SetupsProofs!UndoTakesBackLastChange, TheirAssumptions
<1>2. SetupsProofs!vars = Setups!vars /\ (SetupsProofs!vars = Setups!vars)'
  BY DEF Setups!area, SetupsProofs!area, Setups!seen, SetupsProofs!seen, Setups!undoing,
         SetupsProofs!undoing, Setups!vars, SetupsProofs!vars
<1>3. [last'.kind = "undone" /\ last' # last
         => last = [kind |-> "change", from |-> live']]_(SetupsProofs!vars)
      => [last'.kind = "undone" /\ last' # last
            => last = [kind |-> "change", from |-> live']]_(Setups!vars)
  BY <1>2
<1> QED BY <1>1, <1>3, PartsInductive, PTL
        DEF UndoIsOfLastChange, Setups!UndoIsOfLastChange, SetupsProofs!UndoIsOfLastChange

(* What is stored and was neither loaded nor written by this tab is        *)
(* replaced only by another tab or by a decision about it, unless a change *)
(* for this session has released it (UnknownIsKept): every save, merge and *)
(* Undo looks at the key first, and finds it in conflict or not fresh.     *)
THEOREM UnknownStaysStored == PartsSpec => UnknownIsKept
<1>1. SetupsProofs!Spec => SetupsProofs!UnknownIsKept
  BY SetupsProofs!UnknownStaysStored, TheirAssumptions
<1>2. [foreign /\ ~released /\ storage' # storage =>
         \/ SetupsProofs!KeepCurrent \/ SetupsProofs!ConfirmClear
         \/ \E v \in Value : SetupsProofs!LegacyMigration(v)
         \/ \E raw \in SetupsProofs!RawOrNull : SetupsProofs!OtherTabWrites(raw)]_(SetupsProofs!vars)
      => [foreign /\ ~released /\ storage' # storage =>
            \/ Setups!KeepCurrent \/ Setups!ConfirmClear
            \/ \E v \in Value : Setups!LegacyMigration(v)
            \/ \E raw \in Setups!RawOrNull : Setups!OtherTabWrites(raw)]_(Setups!vars)
  BY DEF Setups!Cardinality, SetupsProofs!Cardinality, Setups!IsFiniteSet,
         SetupsProofs!IsFiniteSet, Setups!ConfirmClear, SetupsProofs!ConfirmClear,
         Setups!Edits, SetupsProofs!Edits, Setups!EffectDue, SetupsProofs!EffectDue,
         Setups!Fresh, SetupsProofs!Fresh, Setups!Handles, SetupsProofs!Handles,
         Setups!InvalidateSavedSetupUndo, SetupsProofs!InvalidateSavedSetupUndo,
         Setups!KeepCurrent, SetupsProofs!KeepCurrent, Setups!KeepsReleased,
         SetupsProofs!KeepsReleased, Setups!LegacyMigration,
         SetupsProofs!LegacyMigration, Setups!NoButton, SetupsProofs!NoButton,
         Setups!NoUndoOrRequest, SetupsProofs!NoUndoOrRequest, Setups!OtherTabWrites,
         SetupsProofs!OtherTabWrites, Setups!Persist, SetupsProofs!Persist,
         Setups!RawOrNull, SetupsProofs!RawOrNull, Setups!ReleasesStored,
         SetupsProofs!ReleasesStored, Setups!Suspended, SetupsProofs!Suspended,
         Setups!WriteTakenBack, SetupsProofs!WriteTakenBack,
         Setups!Writes, SetupsProofs!Writes, Setups!WritesNothing,
         SetupsProofs!WritesNothing, Setups!area, SetupsProofs!area, Setups!seen,
         SetupsProofs!seen, Setups!undoing, SetupsProofs!undoing, Setups!vars,
         SetupsProofs!vars
<1> QED BY <1>1, <1>2, PartsInductive, PTL
        DEF UnknownIsKept, Setups!UnknownIsKept, SetupsProofs!UnknownIsKept

(* The skip token of an applied change is used up by the save effect of    *)
(* that change (SkipIsForItsChange), also when the area is suspended in    *)
(* between and the effect comes late.                                      *)
THEOREM SkipIsUsedUp == PartsSpec => SkipIsForItsChange
<1>1. SetupsProofs!Spec => SetupsProofs!SkipIsForItsChange
  BY SetupsProofs!SkipIsUsedUp, TheirAssumptions
<1>2. [SetupsProofs!AutosaveReturns /\ skip /\ ~SetupsProofs!Suspended /\ token # NoRaw =>
         live = token \/ baseline = live \/ last.kind = "import"]_(SetupsProofs!vars)
      => [Setups!AutosaveReturns /\ skip /\ ~Setups!Suspended /\ token # NoRaw =>
            live = token \/ baseline = live \/ last.kind = "import"]_(Setups!vars)
  BY DEF Setups!AutosaveReturns, SetupsProofs!AutosaveReturns, Setups!SkipLeft,
         SetupsProofs!SkipLeft, Setups!Suspended, SetupsProofs!Suspended, Setups!area,
         SetupsProofs!area, Setups!seen, SetupsProofs!seen, Setups!undoing,
         SetupsProofs!undoing, Setups!vars, SetupsProofs!vars
<1> QED BY <1>1, <1>2, PartsInductive, PTL
        DEF SkipIsForItsChange, Setups!SkipIsForItsChange, SetupsProofs!SkipIsForItsChange
=============================================================================
