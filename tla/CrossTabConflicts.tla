------------------------- MODULE CrossTabConflicts -------------------------
(***************************************************************************)
(* Several tabs of the simulator over one localStorage: the conflict       *)
(* controller of src/app/controllers/cross-tab-conflicts.ts together with  *)
(* the parts of App.tsx and local-state-recovery.ts that decide when a tab *)
(* writes.  A tab loads its values while it is constructed, takes its      *)
(* baseline only after the runtime bootstrap, saves every edit from an     *)
(* effect, and learns of other tabs from storage events that arrive late   *)
(* or out of order.  Handlers are synchronous inside a tab; localStorage   *)
(* has no lock between tabs.  A definition that no action uses, just       *)
(* before one that is used, is a plausible bug of the latter: the mutants  *)
(* of PROJECT.json put it in its place and a property has to notice.       *)
(***************************************************************************)
EXTENDS Naturals, FiniteSets

CONSTANTS
  Tab,
  Area,            \* areas of CROSS_TAB_AREA_REGISTRY saved by an effect
  ContextChecked,  \* areas the bootstrap may find unusable with this game data
  FirstSkipped,    \* areas whose first save is skipped: the price history
  ForeignArea,     \* areas that another version of the app writes as well
  Value,           \* semantic values of an area
  Default,         \* the value of an area that is not stored
  Stamp,           \* savedAt of an envelope; two saves may share it
  NoRaw,           \* getItem's null
  Unreadable,      \* a raw string the loader rejects: invalid or unsupported
  NoConflict,
  NoUndo,
  Idle,
  Undoer,          \* bound: tabs whose user may come back to the Undo of a Keep
  MaxEvents,       \* bound: events queued for a tab before others wait
  Exclusive,       \* TRUE: no tab touches storage inside another tab's handler
  QuietBoot        \* TRUE: no tab touches storage while another is loading

ASSUME CrossTabAssumption ==
  /\ ContextChecked \cup FirstSkipped \cup ForeignArea \subseteq Area
  /\ Undoer \subseteq Tab
  /\ Default \in Value
  /\ {Exclusive, QuietBoot} \subseteq BOOLEAN
  /\ MaxEvents \in Nat
  /\ Cardinality({NoRaw, Unreadable, NoConflict}) = 3
  /\ {NoRaw, Unreadable, NoConflict} \cap [val : Value, at : Stamp] = {}
  /\ Idle \notin [area : Area, step : {"load", "adopt", "save"}]

VARIABLES
  storage,   \* localStorage: the raw string of every area
  phase,     \* a tab is closed, loading (bootstrap running) or ready
  live,      \* React state: the value of every area in a tab
  blocked,   \* recovery.blockedIds
  skip,      \* recovery.skipNextPersistIds
  baseline,  \* the raw each tab expects (baselines)
  conflict,  \* latestExternalRaw of a conflicted area (conflicts)
  due,       \* areas whose persistence effect has to run
  call,      \* the storage access an unfinished persist is about to make
  inbox,     \* storage events dispatched to a tab and not handled yet
  undo,      \* the pending Undo of a Keep
  known,     \* history: the raw a tab's live value comes from or is stored as
  torn       \* history: the raw a failed Undo of the tab left in storage, until
             \* the tab has a conflict on the area

vars == <<storage, phase, live, blocked, skip, baseline, conflict, due, call,
          inbox, undo, known, torn>>

Saved == [val : Value, at : Stamp]
RawOrNull == Saved \cup {NoRaw, Unreadable}
Call == [area : Area, step : {"load", "adopt", "save"}]
IsUndo(record) ==
  \E ids \in SUBSET Area : record \in [pre : [ids -> RawOrNull], post : [ids -> RawOrNull]]

TypeOK ==
  /\ storage \in [Area -> RawOrNull]
  /\ phase \in [Tab -> {"closed", "loading", "ready"}]
  /\ live \in [Tab -> [Area -> Value]]
  /\ blocked \in [Tab -> SUBSET Area]
  /\ skip \in [Tab -> SUBSET Area]
  /\ baseline \in [Tab -> [Area -> RawOrNull]]
  /\ conflict \in [Tab -> [Area -> RawOrNull \cup {NoConflict}]]
  /\ due \in [Tab -> SUBSET Area]
  /\ call \in [Tab -> Call \cup {Idle}]
  /\ inbox \in [Tab -> [Area -> SUBSET RawOrNull]]
  /\ \A t \in Tab : undo[t] = NoUndo \/ IsUndo(undo[t])
  /\ known \in [Tab -> [Area -> RawOrNull]]
  /\ torn \in [Tab -> [Area -> SUBSET RawOrNull]]

-----------------------------------------------------------------------------
Everywhere(x) == [a \in Area |-> x]
LoadedUnchecked(raw) == IF raw \in Saved THEN raw.val ELSE raw
Loaded(raw) == IF raw \in Saved THEN raw.val ELSE Default
Conflicted(t, a) == conflict[t][a] # NoConflict
Suspended(t, a) == a \in blocked[t] \/ Conflicted(t, a)

Init ==
  /\ storage \in [Area -> RawOrNull]
  /\ \A a \in Area \ ForeignArea : storage[a] # Unreadable
  /\ phase = [t \in Tab |-> "closed"]
  /\ live = [t \in Tab |-> Everywhere(Default)]
  /\ blocked = [t \in Tab |-> {}]
  /\ skip = [t \in Tab |-> {}]
  /\ baseline = [t \in Tab |-> Everywhere(NoRaw)]
  /\ conflict = [t \in Tab |-> Everywhere(NoConflict)]
  /\ due = [t \in Tab |-> {}]
  /\ call = [t \in Tab |-> Idle]
  /\ inbox = [t \in Tab |-> Everywhere({})]
  /\ undo = [t \in Tab |-> NoUndo]
  /\ known = [t \in Tab |-> Everywhere(NoRaw)]
  /\ torn = [t \in Tab |-> Everywhere({})]

(* A handler that may touch storage starts, as far as the environment      *)
(* chosen by Exclusive and QuietBoot lets it.                              *)
MayStart(others) ==
  /\ Exclusive => \A u \in Tab : call[u] = Idle
  /\ QuietBoot => \A u \in others : phase[u] # "loading"

Free(t) == phase[t] = "ready" /\ call[t] = Idle /\ MayStart(Tab \ {t})

(* The in-memory controllers of a tab go with its document.                *)
NewControllers(t) ==
  /\ skip' = [skip EXCEPT ![t] = {}]
  /\ baseline' = [baseline EXCEPT ![t] = Everywhere(NoRaw)]
  /\ conflict' = [conflict EXCEPT ![t] = Everywhere(NoConflict)]
  /\ due' = [due EXCEPT ![t] = {}]
  /\ call' = [call EXCEPT ![t] = Idle]
  /\ undo' = [undo EXCEPT ![t] = NoUndo]
  /\ torn' = [torn EXCEPT ![t] = Everywhere({})]

(* A document that starts in t and reads the raws of st: the useState      *)
(* loaders of App and the health report of the recovery controller.        *)
NewDocument(t, st) ==
  /\ QuietBoot => \A u \in Tab : call[u] = Idle
  /\ phase' = [phase EXCEPT ![t] = "loading"]
  /\ live' = [live EXCEPT ![t] = [a \in Area |-> Loaded(st[a])]]
  /\ blocked' = [blocked EXCEPT ![t] = {a \in Area : st[a] = Unreadable}]
  /\ known' = [known EXCEPT ![t] = st]
  /\ NewControllers(t)

(* A write by t dispatches an event to every other document when it        *)
(* changes the key; t itself gets none.                                    *)
Dispatched(t, events) ==
  [u \in Tab |-> IF u = t \/ phase[u] = "closed" THEN inbox[u]
                 ELSE [a \in Area |-> inbox[u][a] \cup events[a]]]

Changes(st) == [a \in Area |-> IF st[a] = storage[a] THEN {} ELSE {st[a]}]

(* Bound: a write waits until the other documents have few events queued.  *)
Room(t) == \A u \in Tab \ {t}, a \in Area : Cardinality(inbox[u][a]) < MaxEvents

-----------------------------------------------------------------------------
Open(t) ==
  /\ phase[t] = "closed"
  /\ NewDocument(t, storage)
  /\ UNCHANGED <<storage, inbox>>

(* The resolved bootstrap replaces values this game data cannot use and    *)
(* blocks their areas, marks a price history with snapshots, which is      *)
(* stored already, then readyToPersist lets initialize read the baselines  *)
(* and runs every persistence effect once.                                 *)
BootstrapReady(t) ==
  /\ phase[t] = "loading"
  /\ \E invalid \in SUBSET {a \in ContextChecked : known[t][a] \in Saved} :
       /\ live' = [live EXCEPT ![t] =
                     [a \in Area |-> IF a \in invalid THEN Default ELSE @[a]]]
       /\ blocked' = [blocked EXCEPT ![t] = @ \cup invalid]
  /\ skip' = [skip EXCEPT ![t] = @ \cup {a \in FirstSkipped : live[t][a] # Default}]
  /\ phase' = [phase EXCEPT ![t] = "ready"]
  /\ baseline' = [baseline EXCEPT ![t] = storage]
  /\ due' = [due EXCEPT ![t] = Area]
  /\ UNCHANGED <<storage, conflict, call, inbox, undo, known, torn>>

Close(t) ==
  /\ phase[t] # "closed"
  /\ phase' = [phase EXCEPT ![t] = "closed"]
  /\ live' = [live EXCEPT ![t] = Everywhere(Default)]
  /\ blocked' = [blocked EXCEPT ![t] = {}]
  /\ known' = [known EXCEPT ![t] = Everywhere(NoRaw)]
  /\ NewControllers(t)
  /\ inbox' = [inbox EXCEPT ![t] = Everywhere({})]
  /\ UNCHANGED storage

(* A live setter: the effect of the area runs after the next render.       *)
Edit(t, a, v) ==
  /\ Free(t)
  /\ v # live[t][a]
  /\ live' = [live EXCEPT ![t][a] = v]
  /\ due' = [due EXCEPT ![t] = @ \cup {a}]
  /\ UNCHANGED <<storage, phase, blocked, skip, baseline, conflict, call, inbox, undo, known, torn>>

-----------------------------------------------------------------------------
(* The persistence effect of an area.  A suspended area returns before     *)
(* shouldSkipPersist, so its one-shot skip marker is left in place.        *)
EffectRuns(t, a) ==
  /\ Free(t)
  /\ a \in due[t]
  /\ due' = [due EXCEPT ![t] = @ \ {a}]

EffectReturns(t, a) ==
  /\ EffectRuns(t, a)
  /\ \/ Suspended(t, a) /\ UNCHANGED skip
     \/ ~Suspended(t, a) /\ a \in skip[t] /\ skip' = [skip EXCEPT ![t] = @ \ {a}]
  /\ UNCHANGED <<storage, phase, live, blocked, baseline, conflict, call, inbox, undo, known, torn>>

Access(a, step) == [area |-> a, step |-> step]
CaptureConflict(t, a, raw) ==
  /\ conflict' = [conflict EXCEPT ![t][a] = raw]
  /\ torn' = [torn EXCEPT ![t][a] = {}]

(* persist, first read: checkFreshness compares the exact raw strings.     *)
TrustsBaseline(t, a) == ~Conflicted(t, a)
Fresh(t, a) == storage[a] = baseline[t][a]

CheckFreshness(t, a) ==
  /\ EffectRuns(t, a)
  /\ ~Suspended(t, a) /\ a \notin skip[t]
  /\ Room(t)
  /\ IF Fresh(t, a)
       THEN /\ call' = [call EXCEPT ![t] = Access(a, "load")]
            /\ UNCHANGED <<conflict, torn>>
       ELSE CaptureConflict(t, a, storage[a]) /\ UNCHANGED call
  /\ UNCHANGED <<storage, phase, live, blocked, skip, baseline, inbox, undo, known>>

Holds(a, v) == storage[a] \in Saved /\ storage[a].val = v

(* Second read: an equal stored value is not written again.                *)
LoadForCompare(t, a) ==
  /\ call[t] = Access(a, "load")
  /\ call' = [call EXCEPT ![t].step =
       IF Holds(a, live[t][a]) THEN "adopt" ELSE "save"]
  /\ UNCHANGED <<storage, phase, live, blocked, skip, baseline, conflict, due, inbox, undo,
                 known, torn>>

(* Third read, of the no-change path: what it returns becomes the baseline, *)
(* whatever it holds.                                                       *)
AdoptCurrentRaw(t, a) ==
  /\ call[t] = Access(a, "adopt")
  /\ baseline' = [baseline EXCEPT ![t][a] = storage[a]]
  /\ known' = IF Holds(a, live[t][a]) THEN [known EXCEPT ![t][a] = storage[a]] ELSE known
  /\ call' = [call EXCEPT ![t] = Idle]
  /\ UNCHANGED <<storage, phase, live, blocked, skip, conflict, due, inbox, undo, torn>>

Save(t, a) ==
  /\ call[t] = Access(a, "save")
  /\ \E at \in Stamp :
       LET raw == [val |-> live[t][a], at |-> at]
       IN  /\ storage' = [storage EXCEPT ![a] = raw]
           /\ baseline' = [baseline EXCEPT ![t][a] = raw]
           /\ known' = [known EXCEPT ![t][a] = raw]
  /\ inbox' = Dispatched(t, Changes(storage'))
  /\ call' = [call EXCEPT ![t] = Idle]
  /\ UNCHANGED <<phase, live, blocked, skip, conflict, due, undo, torn>>

(* Any of the three accesses may throw: nothing is recorded, and the area  *)
(* waits for the next edit.                                                *)
PersistThrows(t) ==
  /\ call[t] # Idle
  /\ call' = [call EXCEPT ![t] = Idle]
  /\ UNCHANGED <<storage, phase, live, blocked, skip, baseline, conflict, due, inbox, undo,
                 known, torn>>

-----------------------------------------------------------------------------
(* handleStorageChange.  A document that is still loading has no listener. *)
OnlyWhileConflicted(t, a, raw) ==
  phase[t] = "ready" /\ raw # baseline[t][a] /\ Conflicted(t, a)
IsExternal(t, a, raw) == phase[t] = "ready" /\ raw # baseline[t][a]

AdoptsExternalRaw(t, a, raw) ==
  /\ phase[t] # "closed" /\ call[t] = Idle
  /\ raw \in inbox[t][a]
  /\ inbox' = [inbox EXCEPT ![t][a] = @ \ {raw}]
  /\ IF IsExternal(t, a, raw)
       THEN CaptureConflict(t, a, raw) /\ baseline' = [baseline EXCEPT ![t][a] = raw]
       ELSE UNCHANGED <<conflict, torn, baseline>>
  /\ UNCHANGED <<storage, phase, live, blocked, skip, due, call, undo, known>>

HandleStorageChange(t, a, raw) ==
  /\ phase[t] # "closed" /\ call[t] = Idle
  /\ raw \in inbox[t][a]
  /\ inbox' = [inbox EXCEPT ![t][a] = @ \ {raw}]
  /\ IF IsExternal(t, a, raw)
       THEN CaptureConflict(t, a, raw)
       ELSE UNCHANGED <<conflict, torn>>
  /\ UNCHANGED <<storage, phase, live, blocked, skip, baseline, due, call, undo, known>>

(* Another version of the app leaves a raw string this one cannot read.    *)
ForeignWrite(a) ==
  /\ MayStart(Tab)
  /\ \A t \in Tab : Room(t)
  /\ storage[a] # Unreadable
  /\ storage' = [storage EXCEPT ![a] = Unreadable]
  /\ inbox' = [u \in Tab |-> IF phase[u] = "closed" THEN inbox[u]
                             ELSE [inbox[u] EXCEPT ![a] = @ \cup {Unreadable}]]
  /\ UNCHANGED <<phase, live, blocked, skip, baseline, conflict, due, call, undo, known, torn>>

-----------------------------------------------------------------------------
(* The review of the areas the user selected, at the handler's reads.      *)
Selectable(t) == SUBSET {a \in Area : Conflicted(t, a)} \ {{}}
ChangedAgain(t, ids) == {a \in ids : storage[a] # conflict[t][a]}
ReviewUnclassified(t, ids) == \A a \in ids : storage[a] = conflict[t][a]
ReviewReady(t, ids) ==
  \A a \in ids : storage[a] = conflict[t][a] /\ storage[a] # Unreadable

(* refreshSelected with a stale review: the review shows the new values    *)
(* and whatever the user asked for is not done.                            *)
RefreshReview(t, ids) ==
  /\ Free(t)
  /\ ids \in Selectable(t)
  /\ ChangedAgain(t, ids) # {}
  /\ conflict' = [conflict EXCEPT ![t] =
                    [a \in Area |-> IF a \in ids THEN storage[a] ELSE @[a]]]
  /\ UNCHANGED <<storage, phase, live, blocked, skip, baseline, due, call, inbox, undo,
                 known, torn>>

(* A ready review and a reload. *)
UseSavedData(t, ids) ==
  /\ Free(t)
  /\ ids \in Selectable(t)
  /\ ReviewReady(t, ids)
  /\ NewDocument(t, storage)
  /\ UNCHANGED <<storage, inbox>>

(* The raw of a Keep of the current live values.                           *)
Kept(t, ids, at) ==
  [a \in Area |-> IF a \in ids THEN [val |-> live[t][a], at |-> at] ELSE storage[a]]

(* The one Undo slot of a tab; outside the bound the offer is gone at      *)
(* once, as when the next undoable action takes the slot.                  *)
Offer(t, record) ==
  undo' = [undo EXCEPT ![t] = IF t \in Undoer THEN record ELSE NoUndo]

(* A verified Keep: the batch is one step here (LocalStateBatch has its    *)
(* interior), completeExternalApply releases the areas and their effects   *)
(* run again because they are no longer suspended.                         *)
KeepCurrent(t, ids) ==
  /\ Free(t)
  /\ Room(t)
  /\ ids \in Selectable(t)
  /\ ReviewReady(t, ids)
  /\ \E at \in Stamp :
       LET post == Kept(t, ids, at)
       IN  /\ storage' = post
           /\ baseline' = [baseline EXCEPT ![t] =
                             [a \in Area |-> IF a \in ids THEN post[a] ELSE @[a]]]
           /\ known' = [known EXCEPT ![t] =
                          [a \in Area |-> IF a \in ids THEN post[a] ELSE @[a]]]
           /\ Offer(t, [pre |-> [a \in ids |-> storage[a]], post |-> [a \in ids |-> post[a]]])
  /\ inbox' = Dispatched(t, Changes(storage'))
  /\ conflict' = [conflict EXCEPT ![t] =
                    [a \in Area |-> IF a \in ids THEN NoConflict ELSE @[a]]]
  /\ blocked' = [blocked EXCEPT ![t] = @ \ ids]
  /\ due' = [due EXCEPT ![t] = @ \cup ids]
  /\ UNCHANGED <<phase, live, skip, call, torn>>

(* A batch over some areas fails after trying a few: what it wrote is      *)
(* rolled back, except where the rollback failed as well.  Other tabs see  *)
(* the values that were taken back, too.                                   *)
BatchFails(t, target) ==
  /\ \E tried \in SUBSET DOMAIN target : \E left \in SUBSET tried :
       LET wrote == {a \in tried : target[a] # storage[a]}
       IN  /\ storage' = [a \in Area |-> IF a \in left THEN target[a] ELSE storage[a]]
           /\ inbox' = Dispatched(t, [a \in Area |->
                IF a \notin wrote THEN {}
                ELSE {target[a]} \cup (IF a \in left THEN {} ELSE {storage[a]})])
  /\ UNCHANGED <<phase, live, blocked, skip, conflict, due, call, known>>

(* A Keep that fails leaves the conflicts as they are.                     *)
KeepFails(t, ids) ==
  /\ Free(t)
  /\ Room(t)
  /\ ids \in Selectable(t)
  /\ ReviewReady(t, ids)
  /\ \E at \in Stamp : BatchFails(t, [a \in ids |-> Kept(t, ids, at)[a]])
  /\ UNCHANGED <<baseline, undo, torn>>

(* The Undo of a Keep runs once, and only over the values the Keep saved.  *)
MayUndo(t) ==
  /\ Free(t)
  /\ undo[t] # NoUndo
  /\ \A a \in DOMAIN undo[t].post : storage[a] = undo[t].post[a]

(* It restores the exact external raws and reloads.                        *)
UndoKeep(t) ==
  /\ MayUndo(t)
  /\ Room(t)
  /\ LET pre == undo[t].pre
         restored == [a \in Area |-> IF a \in DOMAIN pre THEN pre[a] ELSE storage[a]]
     IN  /\ storage' = restored
         /\ NewDocument(t, restored)
         /\ inbox' = Dispatched(t, Changes(restored))

(* When its batch fails nothing is reloaded and no baseline moves.  An     *)
(* external raw that could not be taken back stays in storage, and a tab   *)
(* gets no event for a write of its own.                                   *)
RecordsRestored(t) == baseline' = [baseline EXCEPT ![t] =
  [a \in Area |-> IF a \in DOMAIN undo[t].pre THEN undo[t].pre[a] ELSE @[a]]]
RecordsNothing(t) == UNCHANGED baseline

UndoKeepFails(t) ==
  /\ MayUndo(t)
  /\ Room(t)
  /\ BatchFails(t, undo[t].pre)
  /\ RecordsNothing(t)
  /\ torn' = [torn EXCEPT ![t] = [a \in Area |->
                IF storage'[a] = storage[a] THEN @[a] ELSE {storage'[a]}]]
  /\ undo' = [undo EXCEPT ![t] = NoUndo]

(* A stale Undo leaves newer values alone, one that cannot read storage    *)
(* does nothing, and setUndoableStatus of an unrelated action takes the    *)
(* slot: each way the offer is gone.                                       *)
UndoGone(t) ==
  /\ Free(t)
  /\ undo[t] # NoUndo
  /\ undo' = [undo EXCEPT ![t] = NoUndo]
  /\ UNCHANGED <<storage, phase, live, blocked, skip, baseline, conflict, due, call, inbox,
                 known, torn>>

(* confirmClearItem on an area the recovery panel lists, from a health     *)
(* report that may be older than the stored value: resolveCleared drops    *)
(* the conflict, the skip marker keeps the effect from recreating the key. *)
ConfirmClear(t, a) ==
  /\ Free(t)
  /\ Room(t)
  /\ a \in blocked[t] \/ storage[a] = Unreadable
  /\ storage[a] # NoRaw
  /\ storage' = [storage EXCEPT ![a] = NoRaw]
  /\ baseline' = [baseline EXCEPT ![t][a] = NoRaw]
  /\ known' = [known EXCEPT ![t][a] = NoRaw]
  /\ conflict' = [conflict EXCEPT ![t][a] = NoConflict]
  /\ blocked' = [blocked EXCEPT ![t] = @ \ {a}]
  /\ skip' = [skip EXCEPT ![t] = @ \cup {a}]
  /\ due' = IF Suspended(t, a) THEN [due EXCEPT ![t] = @ \cup {a}] ELSE due
  /\ inbox' = Dispatched(t, Changes(storage'))
  /\ UNCHANGED <<phase, live, call, undo, torn>>

-----------------------------------------------------------------------------
Effect(t, a) ==
  \/ EffectReturns(t, a) \/ CheckFreshness(t, a)
  \/ LoadForCompare(t, a) \/ AdoptCurrentRaw(t, a) \/ Save(t, a)

Resolve(t) ==
  \/ UndoKeep(t) \/ UndoKeepFails(t) \/ UndoGone(t)
  \/ \E ids \in SUBSET Area :
       RefreshReview(t, ids) \/ UseSavedData(t, ids) \/ KeepCurrent(t, ids) \/ KeepFails(t, ids)
  \/ \E a \in Area : ConfirmClear(t, a)

User(t) ==
  \/ Open(t) \/ Close(t) \/ Resolve(t)
  \/ \E a \in Area, v \in Value : Edit(t, a, v)

Next ==
  \/ \E t \in Tab : User(t) \/ BootstrapReady(t) \/ PersistThrows(t)
  \/ \E t \in Tab, a \in Area :
       Effect(t, a) \/ \E raw \in RawOrNull : HandleStorageChange(t, a, raw)
  \/ \E a \in ForeignArea : ForeignWrite(a)

(* React runs every scheduled effect and the browser delivers every event  *)
(* to a document that stays open; users and other programs owe nothing.    *)
Fairness ==
  \A t \in Tab, a \in Area :
    /\ WF_vars(Effect(t, a))
    /\ \A raw \in RawOrNull : WF_vars(HandleStorageChange(t, a, raw))

Spec == Init /\ [][Next]_vars /\ Fairness

-----------------------------------------------------------------------------
(* No silent overwrite: what an automatic save replaces is exactly what    *)
(* the tab's live value was loaded from or last saved as, never a value    *)
(* another tab put there.                                                  *)
NoSilentOverwrite ==
  [][\A t \in Tab, a \in Area :
       call[t] = Access(a, "save") /\ call'[t] = Idle /\ storage'[a] # storage[a]
         => storage[a] = known[t][a]]_vars

(* A stored value this version cannot read is removed by an explicit clear *)
(* only: no default, Keep or Undo of any tab replaces it.                  *)
UnreadableIsKept ==
  [][\A a \in Area :
       storage[a] = Unreadable /\ storage'[a] # Unreadable
         => storage'[a] = NoRaw /\ \E t \in Tab : ConfirmClear(t, a)]_vars

(* While a tab has no conflict on an area, its baseline is the raw its     *)
(* live value came from: nothing but the tab's own loads, saves and        *)
(* resolutions moves the baseline.                                         *)
BaselineIsKnown ==
  \A t \in Tab, a \in Area : phase[t] = "ready" => baseline[t][a] = known[t][a]

(* A tab whose stored value was changed under it learns of it: a missed,   *)
(* late or reordered event, or an overwrite of its own value by a tab that *)
(* had already passed its check, ends in a conflict.  The exception is     *)
(* what the code leaves silent: a raw that the tab's own failed Undo of a  *)
(* Keep left in storage.  Its next save finds that one (NoSilentOverwrite). *)
ExternalChangeSurfaces ==
  \A t \in Tab, a \in Area :
    (phase[t] = "ready" /\ storage[a] # known[t][a] /\ storage[a] \notin torn[t][a])
      ~> (phase[t] # "ready" \/ storage[a] = known[t][a] \/ Conflicted(t, a))
=============================================================================
