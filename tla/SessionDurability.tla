------------------------- MODULE SessionDurability -------------------------
(***************************************************************************)
(* One ready tab and what it knows about the durability of its work: the   *)
(* transitions of local-state-recovery.ts, the Workspace restore executor, *)
(* and the guard of session-only-exit-protection.ts that arms the leave    *)
(* warning.  localStorage is external: every access may throw.  React runs *)
(* the effects of a commit before the next event handler, so handlers      *)
(* start when nothing is due, and the guard's current fingerprint is the   *)
(* live value whenever one starts.  A definition that no action uses, just *)
(* before one that is used, is a plausible bug of the latter: the mutants  *)
(* of PROJECT.json put it in its place and a property has to notice.       *)
(***************************************************************************)
EXTENDS Naturals, FiniteSets

CONSTANTS
  Area,            \* areas saved by an effect
  ContextChecked,  \* areas whose stored value the game data may reject
  Value,           \* semantic values of an area
  Default,         \* the value used when nothing usable is stored
  NoRaw,           \* getItem's null
  Unreadable,      \* a raw string the loader rejects
  Unusable,        \* a raw string that loads but that the bootstrap replaced
  NoAck, NoUndo, NoOffer,
  External         \* raw strings other tabs write

ASSUME DurabilityAssumption ==
  /\ External \subseteq Value \cup {NoRaw, Unreadable}
  /\ ContextChecked \subseteq Area
  /\ Default \in Value
  /\ {NoRaw, Unreadable, Unusable, NoAck} \cap Value = {}
  /\ Cardinality({NoRaw, Unreadable, Unusable}) = 3

VARIABLES
  storage,         \* localStorage
  unseen,          \* areas written by another tab, their event not handled
  live,            \* React state
  due,             \* areas whose persistence effect has to run
  baseline,        \* cross-tab controller: the raw this tab expects
  conflict,        \* cross-tab controller: areas changed by another tab
  blocked,         \* recovery: blockedIds
  contextInvalid,  \* recovery: contextInvalidIds
  skip,            \* recovery: skipNextPersistIds
  failure,         \* recovery: storageFailures
  durable,         \* guard: baselineFingerprint
  acked,           \* guard: acknowledgedFingerprint
  nonDurable,      \* guard: areas with a reason
  pending,         \* guard: pendingDurableIds
  offer,           \* the plan that may be applied for this session
  undo,            \* the pending Workspace Undo
  origin,          \* history: what the live value of an area comes from
  displaced        \* history: areas whose key was cleared, put back or torn
                   \* after the guard took its durable baseline

recovery == <<blocked, contextInvalid, skip, failure>>
guard == <<durable, acked, nonDurable, pending>>
vars == <<storage, unseen, live, due, baseline, conflict, recovery, guard, offer, undo,
          origin, displaced>>

RawOrNull == Value \cup {NoRaw, Unreadable, Unusable}
Origin == {"stored", "edit", "held", "session", "undone", "cleared", "again"}
Partial(S) == UNION {[ids -> S] : ids \in SUBSET Area}

TypeOK ==
  /\ storage \in [Area -> RawOrNull] /\ baseline \in [Area -> RawOrNull]
  /\ live \in [Area -> Value] /\ durable \in [Area -> Value]
  /\ acked \in [Area -> Value \cup {NoAck}]
  /\ {unseen, due, conflict, blocked, contextInvalid, skip, nonDurable, pending, displaced}
       \subseteq SUBSET Area
  /\ failure \in [Area -> {"none", "save", "clear"}]
  /\ offer = NoOffer \/ offer \in Partial(Value)
  /\ undo = NoUndo \/ undo \in [mode : {"durable", "session"}, offered : BOOLEAN,
                                prior : Partial(Value), raw : Partial(RawOrNull)]
  /\ origin \in [Area -> Origin]

-----------------------------------------------------------------------------
LoadedUnchecked(raw) == IF raw # NoRaw THEN raw ELSE Default
Loaded(raw) == IF raw \in Value THEN raw ELSE Default
Suspended(a) == a \in blocked \cup conflict
With(f, ids, g) == [a \in Area |-> IF a \in ids THEN g[a] ELSE f[a]]
Everywhere(x) == [a \in Area |-> x]

(* The report's items that need attention because of what is stored; a     *)
(* value the bootstrap rejected is one only while its id is marked.        *)
Rejected(st, marked) ==
  {a \in Area : st[a] = Unreadable \/ (a \in marked /\ st[a] \in Value \cup {Unusable})}

(* The runtime bootstrap has been applied and persistence is enabled.      *)
Init ==
  /\ storage \in [Area -> RawOrNull]
  /\ \A a \in Area \ ContextChecked : storage[a] # Unusable
  /\ unseen = {}
  /\ live = [a \in Area |-> Loaded(storage[a])]
  /\ due = Area
  /\ baseline = storage
  /\ conflict = {}
  /\ contextInvalid = {a \in Area : storage[a] = Unusable}
  /\ blocked = Rejected(storage, contextInvalid)
  /\ skip = {}
  /\ failure = Everywhere("none")
  /\ durable = live
  /\ acked = Everywhere(NoAck)
  /\ nonDurable = {}
  /\ pending = {}
  /\ offer = NoOffer
  /\ undo = NoUndo
  /\ origin = Everywhere("stored")
  /\ displaced = {}

(* The effects of the last commit have run.                                *)
Settled == due = {} /\ pending = {}

-----------------------------------------------------------------------------
(* Guard and recovery transitions.                                         *)
RecordPendingOnly(ids) ==
  /\ pending' = pending \ ids
  /\ UNCHANGED <<durable, acked, nonDurable>>

RecordNonDurable(ids) ==
  /\ nonDurable' = nonDurable \cup ids
  /\ pending' = pending \ ids
  /\ UNCHANGED <<durable, acked>>

RecordDurable(a) ==
  /\ durable' = [durable EXCEPT ![a] = live[a]]
  /\ acked' = [acked EXCEPT ![a] = NoAck]
  /\ nonDurable' = nonDurable \ {a}
  /\ pending' = pending \ {a}

RecordDurableIds(ids) ==
  /\ durable' = With(durable, ids, live)
  /\ acked' = With(acked, ids, Everywhere(NoAck))
  /\ nonDurable' = nonDurable \ ids
  /\ pending' = pending \cup ids

Failing(ids, kind) == failure' = With(failure, ids, kind)
ClearStorageFailures(ids) == Failing(ids, Everywhere("none"))

(* releaseClearedLocalStateTransition: the marker keeps the effect of the  *)
(* released area from recreating the key.                                  *)
ReleaseWithoutMarker(a) ==
  /\ blocked' = blocked \ {a}
  /\ contextInvalid' = contextInvalid \ {a}
  /\ UNCHANGED skip

ReleaseCleared(a) ==
  /\ blocked' = blocked \ {a}
  /\ contextInvalid' = contextInvalid \ {a}
  /\ skip' = skip \cup {a}

-----------------------------------------------------------------------------
(* The persistence effect of an area.                                      *)
EffectReturns(a) ==
  /\ a \in due
  /\ due' = due \ {a}
  /\ \/ Suspended(a) /\ UNCHANGED skip
     \/ ~Suspended(a) /\ a \in skip /\ skip' = skip \ {a}
  /\ UNCHANGED <<unseen, storage, live, baseline, conflict, blocked, contextInvalid, failure,
                 guard, offer, undo, origin, displaced>>

Persisting(a) ==
  /\ a \in due /\ ~Suspended(a) /\ a \notin skip
  /\ due' = due \ {a}
  /\ UNCHANGED <<unseen, live, blocked, contextInvalid, skip, offer, undo>>

PersistFindsConflict(a) ==
  /\ Persisting(a)
  /\ storage[a] # baseline[a]
  /\ conflict' = conflict \cup {a}
  /\ UNCHANGED <<storage, baseline, failure, guard, origin, displaced>>

(* A read threw.                                                           *)
PersistUnavailable(a) ==
  /\ Persisting(a)
  /\ RecordNonDurable({a})
  /\ UNCHANGED <<storage, baseline, conflict, failure, origin, displaced>>

(* The stored value was equal already, or the write went through.          *)
PersistSaves(a) ==
  /\ Persisting(a)
  /\ storage[a] = baseline[a]
  /\ storage' = [storage EXCEPT ![a] = live[a]]
  /\ baseline' = [baseline EXCEPT ![a] = live[a]]
  /\ RecordDurable(a)
  /\ ClearStorageFailures({a})
  /\ origin' = [origin EXCEPT ![a] = "stored"]
  /\ displaced' = displaced \ {a}
  /\ UNCHANGED conflict

(* The read-back of an equal stored value threw: only a notice.            *)
PersistUnverified(a) ==
  /\ Persisting(a)
  /\ storage[a] = baseline[a] /\ storage[a] = live[a]
  /\ UNCHANGED <<storage, baseline, conflict, failure, guard, origin, displaced>>

PersistFails(a) ==
  /\ Persisting(a)
  /\ storage[a] = baseline[a] /\ storage[a] # live[a]
  /\ RecordNonDurable({a})
  /\ Failing({a}, Everywhere("save"))
  /\ UNCHANGED <<storage, baseline, conflict, origin, displaced>>

(* reconcileCurrent, the last effect of a commit.                          *)
ReconcileCurrent ==
  /\ due = {} /\ pending # {}
  /\ durable' = With(durable, pending, live)
  /\ acked' = With(acked, pending, Everywhere(NoAck))
  /\ nonDurable' = nonDurable \ pending
  /\ pending' = {}
  /\ UNCHANGED <<unseen, storage, live, due, baseline, conflict, recovery, offer, undo,
                 origin, displaced>>

-----------------------------------------------------------------------------
Edit(a, v) ==
  /\ Settled
  /\ v # live[a]
  /\ live' = [live EXCEPT ![a] = v]
  /\ due' = due \cup {a}
  /\ origin' = [origin EXCEPT ![a] = IF Suspended(a) THEN "held" ELSE "edit"]
  /\ UNCHANGED <<unseen, storage, baseline, conflict, recovery, guard, offer, undo, displaced>>

(* acknowledgeBackup after a started download of the current values.       *)
AcknowledgeBackup ==
  /\ Settled
  /\ acked' = [a \in Area |->
       IF a \in nonDurable /\ live[a] # durable[a] THEN live[a] ELSE acked[a]]
  /\ UNCHANGED <<unseen, storage, live, due, baseline, conflict, recovery, durable, nonDurable,
                 pending, offer, undo, origin, displaced>>

(* Another tab writes a raw this tab does not expect: a save carries its   *)
(* own savedAt (equal raws are a matter of CrossTabConflicts).             *)
ExternalWrite(a, raw) ==
  /\ Settled
  /\ raw # baseline[a]
  /\ storage' = [storage EXCEPT ![a] = raw]
  /\ unseen' = unseen \cup {a}
  /\ UNCHANGED <<live, due, baseline, conflict, recovery, guard, offer, undo, origin,
                 displaced>>

StorageEvent(a) ==
  /\ Settled
  /\ a \in unseen
  /\ unseen' = unseen \ {a}
  /\ conflict' = IF storage[a] = baseline[a] THEN conflict ELSE conflict \cup {a}
  /\ UNCHANGED <<storage, live, due, baseline, recovery, guard, offer, undo, origin, displaced>>

(* A verified Keep of this tab's value for a conflicted area, with         *)
(* completeExternalApply; the effect runs again and finds it stored.       *)
KeepCurrent(a) ==
  /\ Settled
  /\ a \in conflict /\ storage[a] # Unreadable
  /\ storage' = [storage EXCEPT ![a] = live[a]]
  /\ baseline' = [baseline EXCEPT ![a] = live[a]]
  /\ conflict' = conflict \ {a}
  /\ blocked' = blocked \ {a}
  /\ contextInvalid' = contextInvalid \ {a}
  /\ ClearStorageFailures({a})
  /\ RecordDurableIds({a})
  /\ due' = due \cup {a}
  /\ origin' = [origin EXCEPT ![a] = "stored"]
  /\ displaced' = displaced \ {a}
  /\ UNCHANGED <<unseen, live, skip, offer, undo>>

(* A Keep whose rollback failed as well: the conflict stays.               *)
KeepTorn(a) ==
  /\ Settled
  /\ a \in conflict /\ storage[a] # Unreadable
  /\ storage' = [storage EXCEPT ![a] = live[a]]
  /\ UNCHANGED <<unseen, live, due, baseline, conflict, recovery, guard, offer, undo, origin,
                 displaced>>

(* What the recovery panel offers to clear.  A confirmed clear takes two   *)
(* clicks: the event of the write that spoiled the value comes first.      *)
Clearable(a) ==
  /\ a \notin unseen
  /\ storage[a] # NoRaw
  /\ failure[a] # "save"
  /\ a \in Rejected(storage, contextInvalid) \/ failure[a] = "clear"

(* confirmClearItem.  The guard is told nothing.                           *)
ConfirmClear(a) ==
  /\ Settled
  /\ Clearable(a)
  /\ storage' = [storage EXCEPT ![a] = NoRaw]
  /\ baseline' = [baseline EXCEPT ![a] = NoRaw]
  /\ conflict' = conflict \ {a}
  /\ ReleaseCleared(a)
  /\ ClearStorageFailures({a})
  /\ due' = IF Suspended(a) THEN due \cup {a} ELSE due
  /\ origin' = [origin EXCEPT ![a] = "cleared"]
  /\ displaced' = displaced \cup {a}
  /\ UNCHANGED <<unseen, live, guard, offer, undo>>

ClearFails(a) ==
  /\ Settled
  /\ Clearable(a)
  /\ Failing({a}, Everywhere("clear"))
  /\ UNCHANGED <<unseen, storage, live, due, baseline, conflict, blocked, contextInvalid, skip,
                 guard, offer, undo, origin, displaced>>

-----------------------------------------------------------------------------
(* Batches over the keys of several areas (LocalStateBatch has the         *)
(* interior); operations is the raw every selected area is to take.        *)
Stale(ids) == {a \in ids : storage[a] # baseline[a]}

(* canStartDurableWrite stops at the first area that is not fresh.         *)
WriteRefused(ids) ==
  /\ conflict \cap ids # {} \/ Stale(ids) # {}
  /\ \/ conflict \cap ids # {} /\ UNCHANGED conflict
     \/ \E a \in Stale(ids) \ conflict : conflict' = conflict \cup {a}
  /\ UNCHANGED <<recovery, guard>>

WriteAllowed(ids) == conflict \cap ids = {} /\ Stale(ids) = {}

Kind(operations) ==
  [a \in Area |-> IF a \in DOMAIN operations /\ operations[a] = NoRaw THEN "clear" ELSE "save"]

(* recordExternalApplyFailure                                              *)
RecordApplyFailure(ids, operations, newlyBlocked) ==
  /\ Failing(ids, Kind(operations))
  /\ RecordNonDurable(ids)
  /\ blocked' = blocked \cup newlyBlocked
  /\ skip' = skip \ ids
  /\ UNCHANGED contextInvalid

(* Only the failed operation is recorded; it may be on a key of an area    *)
(* that no effect saves, and those are not in Area.                        *)
RolledBack(operations) ==
  /\ WriteAllowed(DOMAIN operations)
  /\ \E ids \in SUBSET DOMAIN operations :
       Cardinality(ids) <= 1 /\ RecordApplyFailure(ids, operations, {})
  /\ UNCHANGED conflict

(* The rollback failed as well: some of the tried keys keep the new raw.   *)
Torn(operations) ==
  /\ WriteAllowed(DOMAIN operations)
  /\ \E tried \in SUBSET DOMAIN operations : \E left \in SUBSET tried :
       /\ storage' = With(storage, left, operations)
       /\ displaced' = displaced \cup left
       /\ RecordApplyFailure(tried, operations, tried)
  /\ UNCHANGED conflict

(* The live setters of the selected areas, after prepareExternalApply.     *)
ApplyLive(values, from) ==
  /\ live' = With(live, DOMAIN values, values)
  /\ skip' = skip \cup DOMAIN values
  /\ due' = due \cup DOMAIN values
  /\ origin' = With(origin, DOMAIN values, Everywhere(from))

(* A written batch whose live setters throw is taken back, as far as the   *)
(* rollback succeeds, and the setters get the prior values again.          *)
LiveRefused(operations) ==
  LET ids == DOMAIN operations
  IN  /\ WriteAllowed(ids)
      /\ due' = due \cup ids
      /\ origin' = With(origin, ids, Everywhere("again"))
      /\ \/ /\ skip' = skip \ ids
            /\ UNCHANGED <<storage, blocked, contextInvalid, failure, guard, displaced>>
         \/ \E left \in SUBSET ids :
              /\ storage' = With(storage, left, operations)
              /\ displaced' = displaced \cup left
              /\ RecordApplyFailure(ids, operations, ids)
      /\ UNCHANGED <<live, conflict>>

(* recordCurrentBaselines; the re-read may throw.                          *)
RecordCurrentRaw(ids) ==
  \/ baseline' = With(baseline, ids, storage')
  \/ UNCHANGED baseline

-----------------------------------------------------------------------------
(* applyDurable, by outcome.                                               *)
Applying(target) ==
  /\ Settled
  /\ DOMAIN target # {}
  /\ UNCHANGED baseline

ApplyNotStarted(target) ==
  /\ Applying(target)
  /\ WriteRefused(DOMAIN target) \/ UNCHANGED <<conflict, recovery, guard>>
  /\ offer' = target
  /\ UNCHANGED <<unseen, storage, live, due, undo, origin, displaced>>

ApplyRolledBack(target) ==
  /\ Applying(target)
  /\ RolledBack(target)
  /\ offer' = target
  /\ UNCHANGED <<unseen, storage, live, due, undo, origin, displaced>>

ApplyTorn(target) ==
  /\ Applying(target)
  /\ Torn(target)
  /\ offer' = NoOffer
  /\ UNCHANGED <<unseen, live, due, undo, origin>>

ApplyTakenBack(target) ==
  /\ Applying(target)
  /\ LiveRefused(target)
  /\ offer' = NoOffer
  /\ UNCHANGED <<unseen, undo>>

Undoable(mode, values) ==
  [mode |-> mode, offered |-> FALSE, prior |-> [a \in DOMAIN values |-> live[a]],
   raw |-> IF mode = "durable" THEN [a \in DOMAIN values |-> storage[a]] ELSE <<>>]

ApplyDurable(target) ==
  LET ids == DOMAIN target
  IN  /\ Settled
      /\ ids # {} /\ WriteAllowed(ids)
      /\ storage' = With(storage, ids, target)
      /\ RecordCurrentRaw(ids)
      /\ ApplyLive(target, "stored")
      /\ blocked' = blocked \ ids
      /\ contextInvalid' = contextInvalid \ ids
      /\ ClearStorageFailures(ids)
      /\ RecordDurableIds(ids)
      /\ undo' = Undoable("durable", target)
      /\ offer' = NoOffer
      /\ displaced' = displaced \ ids
      /\ UNCHANGED <<unseen, conflict>>

(* applyForSession takes the plan a failed durable Apply left on offer.    *)
ApplyForSession ==
  /\ Settled
  /\ offer # NoOffer
  /\ ApplyLive(offer, "session")
  /\ undo' = Undoable("session", offer)
  /\ offer' = NoOffer
  /\ UNCHANGED <<unseen, storage, baseline, conflict, blocked, contextInvalid, failure,
                 guard, displaced>>

-----------------------------------------------------------------------------
(* undo, by outcome, and undoForSession.                                   *)
Undoing ==
  /\ Settled
  /\ undo # NoUndo /\ undo.mode = "durable" /\ ~undo.offered
  /\ UNCHANGED offer

OfferUndo == undo' = [undo EXCEPT !.offered = TRUE]

UndoNotStarted ==
  /\ Undoing
  /\ WriteRefused(DOMAIN undo.raw) \/ UNCHANGED <<conflict, recovery, guard>>
  /\ OfferUndo
  /\ UNCHANGED <<unseen, storage, live, due, baseline, origin, displaced>>

UndoRolledBack ==
  /\ Undoing
  /\ RolledBack(undo.raw)
  /\ OfferUndo
  /\ UNCHANGED <<unseen, storage, live, due, baseline, origin, displaced>>

UndoTorn ==
  /\ Undoing
  /\ Torn(undo.raw)
  /\ undo' = NoUndo
  /\ UNCHANGED <<unseen, live, due, baseline, origin>>

UndoTakenBack ==
  /\ Undoing
  /\ LiveRefused(undo.raw)
  /\ undo' = NoUndo
  /\ UNCHANGED <<unseen, baseline>>

(* completeExternalUndo drops the marks of the restored areas before it    *)
(* asks the report which of them need attention.                           *)
ReleasesAll(ids) == blocked \ ids

Reblocked(ids) ==
  (blocked \ ids) \cup (ids \cap Rejected(storage', contextInvalid \ ids))

UndoRestore ==
  LET ids == DOMAIN undo.raw
  IN  /\ Undoing
      /\ WriteAllowed(ids)
      /\ storage' = With(storage, ids, undo.raw)
      /\ RecordCurrentRaw(ids)
      /\ ApplyLive(undo.prior, "undone")
      /\ blocked' = Reblocked(ids)
      /\ contextInvalid' = contextInvalid \ ids
      /\ ClearStorageFailures(ids)
      /\ RecordDurableIds(ids)
      /\ undo' = NoUndo
      /\ displaced' = displaced \cup ids
      /\ UNCHANGED <<unseen, conflict>>

UndoForSession ==
  /\ Settled
  /\ undo # NoUndo /\ (undo.mode = "session" \/ undo.offered)
  /\ ApplyLive(undo.prior, "session")
  /\ undo' = NoUndo
  /\ UNCHANGED <<unseen, storage, baseline, conflict, blocked, contextInvalid, failure,
                 guard, offer, displaced>>

(* A later undoable action takes the slot, a dismissed review the offer.   *)
Forget ==
  /\ Settled
  /\ \/ undo # NoUndo /\ undo' = NoUndo /\ UNCHANGED offer
     \/ offer # NoOffer /\ offer' = NoOffer /\ UNCHANGED undo
  /\ UNCHANGED <<unseen, storage, live, due, baseline, conflict, recovery, guard, origin,
                 displaced>>

-----------------------------------------------------------------------------
Effect(a) ==
  \/ EffectReturns(a) \/ PersistFindsConflict(a) \/ PersistUnavailable(a)
  \/ PersistSaves(a) \/ PersistUnverified(a) \/ PersistFails(a)

Restore ==
  \/ \E target \in Partial(Value) :
       \/ ApplyNotStarted(target) \/ ApplyRolledBack(target) \/ ApplyTorn(target)
       \/ ApplyTakenBack(target) \/ ApplyDurable(target)
  \/ ApplyForSession \/ UndoForSession \/ Forget
  \/ UndoNotStarted \/ UndoRolledBack \/ UndoTorn \/ UndoTakenBack \/ UndoRestore

Next ==
  \/ \E a \in Area :
       Effect(a) \/ StorageEvent(a) \/ KeepCurrent(a) \/ KeepTorn(a) \/ ConfirmClear(a) \/ ClearFails(a)
  \/ \E a \in Area, v \in Value : Edit(a, v)
  \/ \E a \in Area, raw \in External : ExternalWrite(a, raw)
  \/ ReconcileCurrent \/ AcknowledgeBackup \/ Restore

Spec == Init /\ [][Next]_vars

-----------------------------------------------------------------------------
(* A reload would not bring the live value back.                           *)
Unsaved(a) == live[a] # Loaded(storage[a])

(* The guard counts the area as changed and not saved: it arms the leave   *)
(* warning unless the user has downloaded a backup of this very value.     *)
Protected(a) == a \in nonDurable /\ live[a] # durable[a]

(* An area torn by a failed rollback is named in the recovery panel, one   *)
(* written by another tab has or is about to have its conflict review.     *)
Elsewhere == conflict \cup unseen \cup {a \in blocked : failure[a] # "none"}

Survives(from, areas) ==
  Settled => \A a \in areas \ Elsewhere :
    origin[a] = from /\ Unsaved(a) => Protected(a)

(* Work is not lost by leaving the page: whenever the effects have run, an *)
(* edited value that a reload would not bring back is protected, whatever  *)
(* saves, conflicts, clears, restores, Undos and failures came before it.  *)
(* Two kinds of edits are not protected by the code and left out: of an    *)
(* area whose saves are suspended for recovery (origin "held"), and back   *)
(* to the guard's durable value of an area whose stored value is another   *)
(* one since a clear, an Undo or a torn batch (displaced).                 *)
EditsAreProtected == Survives("edit", Area \ displaced)

(* The same for values that a restore applied to this session only.        *)
SessionApplyIsProtected == Survives("session", Area)

(* The same for the values that the Undo of a durable restore brings back: *)
(* the live ones and the stored ones may have differed before it.          *)
UndoIsProtected == Survives("undone", Area)

NotReplaced(raw) ==
  \A a \in Area : storage[a] = raw /\ storage'[a] # raw => ~Effect(a)

(* No autosave replaces a stored value that the loader rejects with the    *)
(* default that stands in for it, also not after an Undo put that value    *)
(* back or a clear of it failed.                                           *)
UnreadableIsKept == [][NotReplaced(Unreadable)]_vars

(* The same for a stored value that the runtime bootstrap replaced with a  *)
(* default: it stays until the user clears or replaces it.                 *)
UnusableIsKept == [][NotReplaced(Unusable)]_vars

(* A value the user cleared is not recreated by an autosave of the live    *)
(* value that is still there; only a later edit or restore stores again.   *)
ClearedStaysCleared ==
  [][\A a \in Area : origin[a] = "cleared" /\ storage'[a] # storage[a]
        => ~Effect(a)]_vars
=============================================================================
