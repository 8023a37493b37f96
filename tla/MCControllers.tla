---------------------------- MODULE MCControllers ----------------------------
(***************************************************************************)
(* The controllers of the page that calculate in a Worker (Compare, the    *)
(* Planner, Risk, the Duel matrix) and that replace saved data after a     *)
(* review (file imports, changes of the saved setups), on small instances. *)
(* They share no state here, so a behaviour is about one part, and the     *)
(* others rest in a state in which they owe nothing.                       *)
(***************************************************************************)
EXTENDS CompareCalculation, Naturals

CONSTANTS
  f1, f2, f3, i1, i2, w1, w2, v1, v2, v3,
  PaneInputs,                        \* the sources of the other panes
  Value, Default, NoRaw, Unreadable, NoRequest, NoRecord, MaxEvents,
  ImportValue, Kinds, MaxAttempts, MaxApplies, NoReview, NothingToUndo

VARIABLES
  part,
  pane, paneActive, source, setups, paneDue, seen, paneSlot, paneOwner, panePending,
  paneSuccess, paneFailure, paneRunning, paneComputes,
  storage, events, live, saveDue, baseline, conflict, blocked, skip, request, record,
  button, last, token, foreign, released,
  kind, shown, attempts, reading, review, busy, offered, applying, undo, chosen, applied,
  replaced

paneVars == <<pane, paneActive, source, setups, paneDue, seen, paneSlot, paneOwner,
              panePending, paneSuccess, paneFailure, paneRunning, paneComputes>>
setupVars == <<storage, events, live, saveDue, baseline, conflict, blocked, skip, request,
               record, button, last, token, foreign, released>>
importVars == <<kind, shown, attempts, reading, review, busy, offered, applying, undo,
                chosen, applied, replaced>>
allVars == <<part, vars, paneVars, setupVars, importVars>>

Slots == INSTANCE CalculationSlots WITH
  Inputs <- PaneInputs, active <- paneActive, due <- paneDue, slot <- paneSlot,
  owner <- paneOwner, pending <- panePending, success <- paneSuccess,
  failure <- paneFailure, running <- paneRunning, computes <- paneComputes

Setups == INSTANCE SetupChanges WITH due <- saveDue

Imports == INSTANCE FileImports WITH Value <- ImportValue, live <- shown

ASSUME PartsAssumption ==
  /\ f1 \in Form /\ Slots!CalculationAssumption
  /\ Setups!SetupAssumption /\ Imports!ImportAssumption

CompareRests ==
  /\ active = FALSE /\ form = f1 /\ heavy = form /\ inputs = NoContext
  /\ timer = NoForm /\ debounced = NoForm /\ due = {}
  /\ slot = NoTask /\ owner = NoTask
  /\ pending = NoSource /\ success = NoSource /\ failure = NoSource
  /\ running = {} /\ computes = [t \in Task |-> NoSource]

PartsInit ==
  /\ part \in {"compare", "pane", "setups", "import"}
  /\ IF part = "compare" THEN Init ELSE CompareRests
  /\ Slots!Init /\ (part # "pane" => pane = "risk" /\ source = NoSource)
  /\ Setups!Init /\ (part # "setups" => storage = NoRaw)
  /\ Imports!Init /\ (part # "import" => kind = "setup" /\ shown = v1)

PartsNext ==
  \/ part = "compare" /\ Next /\ UNCHANGED <<part, paneVars, setupVars, importVars>>
  \/ part = "pane" /\ Slots!Next /\ UNCHANGED <<part, vars, setupVars, importVars>>
  \/ part = "setups" /\ Setups!Next /\ UNCHANGED <<part, vars, paneVars, importVars>>
  \/ part = "import" /\ Imports!Next /\ UNCHANGED <<part, vars, paneVars, setupVars>>

PartsSpec == PartsInit /\ [][PartsNext]_allVars /\ Fairness /\ Slots!Fairness

-----------------------------------------------------------------------------
(* The type invariant of each part.                                        *)
PartsTypeOK == TypeOK /\ Slots!TypeOK /\ Setups!TypeOK /\ Imports!TypeOK

(* The properties of the other parts; those of Compare are its own.        *)
SlotBuildingHasTask == Slots!SlotBuildingHasTask
ImplementsLatestAnswer == Slots!ImplementsLatestAnswer
BuildingEnds == Slots!BuildingEnds
UndoIsOfLastChange == Setups!UndoIsOfLastChange
UnknownIsKept == Setups!UnknownIsKept
SkipIsForItsChange == Setups!SkipIsForItsChange
LatestReview == Imports!LatestReview
AppliedOnce == Imports!AppliedOnce
=============================================================================
