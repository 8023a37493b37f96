---------------------- MODULE SessionDurabilityProofs ----------------------
(***************************************************************************)
(* Proofs about SessionDurability for every set of areas and values: that  *)
(* the leave warning counts every edit a reload would not bring back, and  *)
(* that no autosave replaces an unreadable value or recreates a cleared    *)
(* one.  All three rest on what the guard's durable value, the pending     *)
(* list and the skip marker of an area mean between two commits.           *)
(***************************************************************************)
EXTENDS SessionDurability, FiniteSetTheorems, TLAPS

(***************************************************************************)
(* The inductive invariant, area by area.                                  *)
(***************************************************************************)

(* The cross-tab controller has said, or is about to say, nothing of the   *)
(* stored value: it is what this tab left there.                           *)
Undisturbed(a) == a \notin conflict /\ (a \notin unseen \/ storage[a] = baseline[a])

(* The guard's durable value is what a reload would bring back.  Between a *)
(* durable Apply and reconcileCurrent it is the value of before the Apply; *)
(* then the live value is the stored one, and no effect of the area may    *)
(* take it off the pending list before.                                    *)
DurableIsStored(a) ==
  Undisturbed(a) /\ a \notin displaced =>
    IF a \in pending
    THEN /\ live[a] = Loaded(storage[a])
         /\ durable[a] = Loaded(storage[a]) \/ (a \in due => a \in skip)
    ELSE durable[a] = Loaded(storage[a])

(* An edit whose effect has run without storing it is counted.             *)
EditsAreCounted(a) ==
  /\ origin[a] = "edit" /\ live[a] # durable[a]
  /\ a \notin due \cup displaced \cup conflict
  => a \in nonDurable

(* Only values of storage wait for reconcileCurrent.                       *)
PendingIsStored(a) == a \in pending => origin[a] \in {"stored", "undone"}

(* The effect of an edit is not kept from saving it.                       *)
EditsReachEffect(a) ==
  a \in due /\ origin[a] = "edit" => ~Suspended(a) /\ (a \in skip => a \in displaced)

(* A marker that outlives its effect belongs to a cleared area, or to one  *)
(* whose saves are suspended.                                              *)
MarkerHasReason(a) == a \in skip /\ a \notin due => a \in displaced \/ Suspended(a)

(* A rejected value that this tab knows of blocks the saves of its area.   *)
UnreadableIsBlocked(a) ==
  storage[a] = Unreadable /\ baseline[a] = Unreadable => a \in blocked

(* The effect that a clear brought about is the marker's to stop.          *)
ClearIsMarked(a) == a \in due /\ origin[a] = "cleared" => a \in skip

AreaInv(a) ==
  /\ DurableIsStored(a)
  /\ EditsAreCounted(a)
  /\ PendingIsStored(a)
  /\ EditsReachEffect(a)
  /\ MarkerHasReason(a)
  /\ UnreadableIsBlocked(a)
  /\ ClearIsMarked(a)

(* The Undo of a durable Apply takes back the live and the stored values   *)
(* of the same areas.                                                      *)
UndoIsWhole ==
  undo # NoUndo /\ undo.mode = "durable" => DOMAIN undo.raw = DOMAIN undo.prior

IInv == TypeOK /\ UndoIsWhole /\ \A a \in Area : AreaInv(a)

-----------------------------------------------------------------------------
(* Nothing another state of the key means is a semantic value.             *)
LEMMA RawsApart ==
  ASSUME DurabilityAssumption
  PROVE  /\ Default \in Value
         /\ NoRaw \notin Value /\ Unreadable \notin Value /\ Unusable \notin Value
         /\ NoAck \notin Value /\ NoRaw # Unreadable
         /\ External \subseteq RawOrNull
<1>1. NoRaw # Unreadable
  <2>1. SUFFICES ASSUME NoRaw = Unreadable PROVE FALSE
    OBVIOUS
  <2>2. {NoRaw, Unreadable, Unusable} = {Unusable} \cup {Unreadable}
    BY <2>1
  <2>3. IsFiniteSet({Unusable}) /\ Cardinality({Unusable}) = 1
    BY FS_Singleton
  <2>4. \/ Cardinality({Unusable} \cup {Unreadable}) = Cardinality({Unusable})
        \/ Cardinality({Unusable} \cup {Unreadable}) = Cardinality({Unusable}) + 1
    BY <2>3, FS_AddElement
  <2> QED BY <2>2, <2>3, <2>4 DEF DurabilityAssumption
<1> QED BY <1>1 DEF DurabilityAssumption, RawOrNull

LEMMA LoadedIsValue ==
  ASSUME DurabilityAssumption, NEW raw PROVE Loaded(raw) \in Value
BY DEF DurabilityAssumption, Loaded

(* The types one by one, for the provers.                                  *)
LEMMA Types ==
  ASSUME TypeOK
  PROVE  /\ storage \in [Area -> RawOrNull] /\ baseline \in [Area -> RawOrNull]
         /\ live \in [Area -> Value] /\ durable \in [Area -> Value]
         /\ acked \in [Area -> Value \cup {NoAck}]
         /\ unseen \subseteq Area /\ due \subseteq Area /\ conflict \subseteq Area
         /\ blocked \subseteq Area /\ contextInvalid \subseteq Area /\ skip \subseteq Area
         /\ nonDurable \subseteq Area /\ pending \subseteq Area
         /\ displaced \subseteq Area
         /\ failure \in [Area -> {"none", "save", "clear"}]
         /\ offer = NoOffer \/ offer \in Partial(Value)
         /\ undo = NoUndo \/ undo \in [mode : {"durable", "session"}, offered : BOOLEAN,
                                       prior : Partial(Value), raw : Partial(RawOrNull)]
         /\ origin \in [Area -> Origin]
BY DEF TypeOK

LEMMA TypesOfParts ==
  ASSUME storage' \in [Area -> RawOrNull], baseline' \in [Area -> RawOrNull],
         live' \in [Area -> Value], durable' \in [Area -> Value],
         acked' \in [Area -> Value \cup {NoAck}],
         unseen' \subseteq Area, due' \subseteq Area, conflict' \subseteq Area,
         blocked' \subseteq Area, contextInvalid' \subseteq Area, skip' \subseteq Area,
         nonDurable' \subseteq Area, pending' \subseteq Area, displaced' \subseteq Area,
         failure' \in [Area -> {"none", "save", "clear"}],
         offer' = NoOffer \/ offer' \in Partial(Value),
         undo' = NoUndo \/ undo' \in [mode : {"durable", "session"}, offered : BOOLEAN,
                                      prior : Partial(Value), raw : Partial(RawOrNull)],
         origin' \in [Area -> Origin]
  PROVE  TypeOK'
BY DEF TypeOK

LEMMA WithType ==
  ASSUME NEW S, NEW f \in [Area -> S], NEW ids, NEW g, \A a \in ids \cap Area : g[a] \in S
  PROVE  With(f, ids, g) \in [Area -> S]
BY DEF With

LEMMA WithAt ==
  ASSUME NEW f, NEW ids, NEW g, NEW a \in Area
  PROVE  With(f, ids, g)[a] = IF a \in ids THEN g[a] ELSE f[a]
BY DEF With

LEMMA PartialParts ==
  ASSUME NEW S, NEW f \in Partial(S)
  PROVE  DOMAIN f \subseteq Area /\ \A a \in DOMAIN f : f[a] \in S
BY DEF Partial

LEMMA RestrictionIsPartial ==
  ASSUME NEW S, NEW ids \in SUBSET Area, NEW f, \A a \in ids : f[a] \in S
  PROVE  [a \in ids |-> f[a]] \in Partial(S)
<1>1. [a \in ids |-> f[a]] \in [ids -> S]
  OBVIOUS
<1> QED BY <1>1 DEF Partial

-----------------------------------------------------------------------------
LEMMA InitInv == ASSUME DurabilityAssumption, Init PROVE IInv
<1> USE DEF Init
<1>1. live \in [Area -> Value]
  BY LoadedIsValue
<1>2. TypeOK
  BY <1>1 DEF TypeOK, Rejected, Everywhere, Origin
<1>3. ASSUME NEW a \in Area PROVE AreaInv(a)
  BY <1>1, RawsApart DEF AreaInv, DurableIsStored, EditsAreCounted, PendingIsStored,
     EditsReachEffect, MarkerHasReason, UnreadableIsBlocked, ClearIsMarked, Everywhere,
     Rejected
<1> QED BY <1>2, <1>3 DEF IInv, UndoIsWhole

(* The effect of an edit does not return: nothing suspends or skips it.    *)
LEMMA EffectReturnsInv ==
  ASSUME DurabilityAssumption, IInv, NEW a \in Area, EffectReturns(a)
  PROVE  IInv'
<1> USE DEF EffectReturns, recovery, guard
<1>1. TypeOK'
  BY Types, TypesOfParts, RawsApart DEF IInv
<1>2. ASSUME NEW b \in Area PROVE AreaInv(b)'
  <2>1. AreaInv(b)
    BY DEF IInv
  <2> USE <2>1, Types, RawsApart DEF IInv, AreaInv, Undisturbed, Suspended, Settled
  <2> QED
    BY DEF DurableIsStored, EditsAreCounted, PendingIsStored, EditsReachEffect,
         MarkerHasReason, UnreadableIsBlocked, ClearIsMarked, Loaded
<1>3. UndoIsWhole'
  BY DEF IInv, UndoIsWhole
<1> QED BY <1>1, <1>2, <1>3 DEF IInv

LEMMA PersistFindsConflictInv ==
  ASSUME DurabilityAssumption, IInv, NEW a \in Area, PersistFindsConflict(a)
  PROVE  IInv'
<1> USE DEF PersistFindsConflict, recovery, guard, Persisting
<1>1. TypeOK'
  BY Types, TypesOfParts, RawsApart DEF IInv
<1>2. ASSUME NEW b \in Area PROVE AreaInv(b)'
  <2>1. AreaInv(b)
    BY DEF IInv
  <2> USE <2>1, Types, RawsApart DEF IInv, AreaInv, Undisturbed, Suspended, Settled
  <2> QED
    BY DEF DurableIsStored, EditsAreCounted, PendingIsStored, EditsReachEffect,
         MarkerHasReason, UnreadableIsBlocked, ClearIsMarked, Loaded
<1>3. UndoIsWhole'
  BY DEF IInv, UndoIsWhole
<1> QED BY <1>1, <1>2, <1>3 DEF IInv

(* An area still pending is not counted as failed: a marker stops its      *)
(* effect until reconcileCurrent.                                          *)
LEMMA PersistUnavailableInv ==
  ASSUME DurabilityAssumption, IInv, NEW a \in Area, PersistUnavailable(a)
  PROVE  IInv'
<1> USE DEF PersistUnavailable, recovery, guard, Persisting, RecordNonDurable
<1>1. TypeOK'
  BY Types, TypesOfParts, RawsApart DEF IInv
<1>2. ASSUME NEW b \in Area PROVE AreaInv(b)'
  <2>1. AreaInv(b)
    BY DEF IInv
  <2> USE <2>1, Types, RawsApart DEF IInv, AreaInv, Undisturbed, Suspended, Settled
  <2> QED
    BY DEF DurableIsStored, EditsAreCounted, PendingIsStored, EditsReachEffect,
         MarkerHasReason, UnreadableIsBlocked, ClearIsMarked, Loaded
<1>3. UndoIsWhole'
  BY DEF IInv, UndoIsWhole
<1> QED BY <1>1, <1>2, <1>3 DEF IInv

(* The guard, storage and the live value agree after a save.               *)
LEMMA PersistSavesInv ==
  ASSUME DurabilityAssumption, IInv, NEW a \in Area, PersistSaves(a)
  PROVE  IInv'
<1> USE DEF PersistSaves, recovery, guard, Persisting, RecordDurable,
          ClearStorageFailures, Failing, With, Everywhere, RawOrNull, Origin
<1>1. TypeOK'
  BY Types, TypesOfParts, RawsApart DEF IInv
<1>2. ASSUME NEW b \in Area PROVE AreaInv(b)'
  <2>1. AreaInv(b)
    BY DEF IInv
  <2> USE <2>1, Types, RawsApart DEF IInv, AreaInv, Undisturbed, Suspended, Settled
  <2> QED
    BY DEF DurableIsStored, EditsAreCounted, PendingIsStored, EditsReachEffect,
         MarkerHasReason, UnreadableIsBlocked, ClearIsMarked, Loaded
<1>3. UndoIsWhole'
  BY DEF IInv, UndoIsWhole
<1> QED BY <1>1, <1>2, <1>3 DEF IInv

(* An equal stored value that cannot be verified: then the durable value   *)
(* is the stored one already, and the edit does not differ from it.        *)
LEMMA PersistUnverifiedInv ==
  ASSUME DurabilityAssumption, IInv, NEW a \in Area, PersistUnverified(a)
  PROVE  IInv'
<1> USE DEF PersistUnverified, recovery, guard, Persisting
<1>1. TypeOK'
  BY Types, TypesOfParts, RawsApart DEF IInv
<1>2. ASSUME NEW b \in Area PROVE AreaInv(b)'
  <2>1. AreaInv(b)
    BY DEF IInv
  <2> USE <2>1, Types, RawsApart DEF IInv, AreaInv, Undisturbed, Suspended, Settled
  <2> QED
    BY DEF DurableIsStored, EditsAreCounted, PendingIsStored, EditsReachEffect,
         MarkerHasReason, UnreadableIsBlocked, ClearIsMarked, Loaded
<1>3. UndoIsWhole'
  BY DEF IInv, UndoIsWhole
<1> QED BY <1>1, <1>2, <1>3 DEF IInv

LEMMA PersistFailsInv ==
  ASSUME DurabilityAssumption, IInv, NEW a \in Area, PersistFails(a)
  PROVE  IInv'
<1> USE DEF PersistFails, recovery, guard, Persisting, RecordNonDurable, Failing,
          With, Everywhere
<1>1. TypeOK'
  BY Types, TypesOfParts, RawsApart DEF IInv
<1>2. ASSUME NEW b \in Area PROVE AreaInv(b)'
  <2>1. AreaInv(b)
    BY DEF IInv
  <2> USE <2>1, Types, RawsApart DEF IInv, AreaInv, Undisturbed, Suspended, Settled
  <2> QED
    BY DEF DurableIsStored, EditsAreCounted, PendingIsStored, EditsReachEffect,
         MarkerHasReason, UnreadableIsBlocked, ClearIsMarked, Loaded
<1>3. UndoIsWhole'
  BY DEF IInv, UndoIsWhole
<1> QED BY <1>1, <1>2, <1>3 DEF IInv

LEMMA ReconcileCurrentInv ==
  ASSUME DurabilityAssumption, IInv, ReconcileCurrent
  PROVE  IInv'
<1> USE DEF ReconcileCurrent, recovery, guard, With, Everywhere
<1>1. TypeOK'
  BY Types, TypesOfParts, RawsApart DEF IInv
<1>2. ASSUME NEW b \in Area PROVE AreaInv(b)'
  <2>1. AreaInv(b)
    BY DEF IInv
  <2> USE <2>1, Types, RawsApart DEF IInv, AreaInv, Undisturbed, Suspended, Settled
  <2> QED
    BY DEF DurableIsStored, EditsAreCounted, PendingIsStored, EditsReachEffect,
         MarkerHasReason, UnreadableIsBlocked, ClearIsMarked, Loaded
<1>3. UndoIsWhole'
  BY DEF IInv, UndoIsWhole
<1> QED BY <1>1, <1>2, <1>3 DEF IInv

(* A marker left over holds up no edit but of a displaced area.            *)
LEMMA EditInv ==
  ASSUME DurabilityAssumption, IInv, NEW a \in Area, NEW v \in Value, Edit(a,
         v)
  PROVE  IInv'
<1> USE DEF Edit, recovery, guard, Origin
<1>1. TypeOK'
  BY Types, TypesOfParts, RawsApart DEF IInv
<1>2. ASSUME NEW b \in Area PROVE AreaInv(b)'
  <2>1. AreaInv(b)
    BY DEF IInv
  <2> USE <2>1, Types, RawsApart DEF IInv, AreaInv, Undisturbed, Suspended, Settled
  <2> QED
    BY DEF DurableIsStored, EditsAreCounted, PendingIsStored, EditsReachEffect,
         MarkerHasReason, UnreadableIsBlocked, ClearIsMarked, Loaded
<1>3. UndoIsWhole'
  BY DEF IInv, UndoIsWhole
<1> QED BY <1>1, <1>2, <1>3 DEF IInv

LEMMA AcknowledgeBackupInv ==
  ASSUME DurabilityAssumption, IInv, AcknowledgeBackup
  PROVE  IInv'
<1> USE DEF AcknowledgeBackup, recovery, guard
<1>1. TypeOK'
  BY Types, TypesOfParts, RawsApart DEF IInv
<1>2. ASSUME NEW b \in Area PROVE AreaInv(b)'
  <2>1. AreaInv(b)
    BY DEF IInv
  <2> USE <2>1, Types, RawsApart DEF IInv, AreaInv, Undisturbed, Suspended, Settled
  <2> QED
    BY DEF DurableIsStored, EditsAreCounted, PendingIsStored, EditsReachEffect,
         MarkerHasReason, UnreadableIsBlocked, ClearIsMarked, Loaded
<1>3. UndoIsWhole'
  BY DEF IInv, UndoIsWhole
<1> QED BY <1>1, <1>2, <1>3 DEF IInv

(* The write makes the area disturbed until its event is handled.          *)
LEMMA ExternalWriteInv ==
  ASSUME DurabilityAssumption, IInv, NEW a \in Area, NEW raw \in External,
         ExternalWrite(a, raw)
  PROVE  IInv'
<1> USE DEF ExternalWrite, recovery, guard
<1>1. TypeOK'
  BY Types, TypesOfParts, RawsApart DEF IInv
<1>2. ASSUME NEW b \in Area PROVE AreaInv(b)'
  <2>1. AreaInv(b)
    BY DEF IInv
  <2> USE <2>1, Types, RawsApart DEF IInv, AreaInv, Undisturbed, Suspended, Settled
  <2> QED
    BY DEF DurableIsStored, EditsAreCounted, PendingIsStored, EditsReachEffect,
         MarkerHasReason, UnreadableIsBlocked, ClearIsMarked, Loaded
<1>3. UndoIsWhole'
  BY DEF IInv, UndoIsWhole
<1> QED BY <1>1, <1>2, <1>3 DEF IInv

LEMMA StorageEventInv ==
  ASSUME DurabilityAssumption, IInv, NEW a \in Area, StorageEvent(a)
  PROVE  IInv'
<1> USE DEF StorageEvent, recovery, guard
<1>1. TypeOK'
  BY Types, TypesOfParts, RawsApart DEF IInv
<1>2. ASSUME NEW b \in Area PROVE AreaInv(b)'
  <2>1. AreaInv(b)
    BY DEF IInv
  <2> USE <2>1, Types, RawsApart DEF IInv, AreaInv, Undisturbed, Suspended, Settled
  <2> QED
    BY DEF DurableIsStored, EditsAreCounted, PendingIsStored, EditsReachEffect,
         MarkerHasReason, UnreadableIsBlocked, ClearIsMarked, Loaded
<1>3. UndoIsWhole'
  BY DEF IInv, UndoIsWhole
<1> QED BY <1>1, <1>2, <1>3 DEF IInv

LEMMA KeepCurrentInv ==
  ASSUME DurabilityAssumption, IInv, NEW a \in Area, KeepCurrent(a)
  PROVE  IInv'
<1> USE DEF KeepCurrent, recovery, guard, ClearStorageFailures, Failing,
          RecordDurableIds, With, Everywhere, RawOrNull, Origin
<1>1. TypeOK'
  BY Types, TypesOfParts, RawsApart DEF IInv
<1>2. ASSUME NEW b \in Area PROVE AreaInv(b)'
  <2>1. AreaInv(b)
    BY DEF IInv
  <2> USE <2>1, Types, RawsApart DEF IInv, AreaInv, Undisturbed, Suspended, Settled
  <2> QED
    BY DEF DurableIsStored, EditsAreCounted, PendingIsStored, EditsReachEffect,
         MarkerHasReason, UnreadableIsBlocked, ClearIsMarked, Loaded
<1>3. UndoIsWhole'
  BY DEF IInv, UndoIsWhole
<1> QED BY <1>1, <1>2, <1>3 DEF IInv

LEMMA KeepTornInv ==
  ASSUME DurabilityAssumption, IInv, NEW a \in Area, KeepTorn(a)
  PROVE  IInv'
<1> USE DEF KeepTorn, recovery, guard, RawOrNull
<1>1. TypeOK'
  BY Types, TypesOfParts, RawsApart DEF IInv
<1>2. ASSUME NEW b \in Area PROVE AreaInv(b)'
  <2>1. AreaInv(b)
    BY DEF IInv
  <2> USE <2>1, Types, RawsApart DEF IInv, AreaInv, Undisturbed, Suspended, Settled
  <2> QED
    BY DEF DurableIsStored, EditsAreCounted, PendingIsStored, EditsReachEffect,
         MarkerHasReason, UnreadableIsBlocked, ClearIsMarked, Loaded
<1>3. UndoIsWhole'
  BY DEF IInv, UndoIsWhole
<1> QED BY <1>1, <1>2, <1>3 DEF IInv

(* The marker stops the effect that the release brings about.              *)
LEMMA ConfirmClearInv ==
  ASSUME DurabilityAssumption, IInv, NEW a \in Area, ConfirmClear(a)
  PROVE  IInv'
<1> USE DEF ConfirmClear, recovery, guard, ClearStorageFailures, Failing,
          ReleaseCleared, With, Everywhere, RawOrNull, Origin
<1>1. TypeOK'
  BY Types, TypesOfParts, RawsApart DEF IInv
<1>2. ASSUME NEW b \in Area PROVE AreaInv(b)'
  <2>1. AreaInv(b)
    BY DEF IInv
  <2> USE <2>1, Types, RawsApart DEF IInv, AreaInv, Undisturbed, Suspended, Settled
  <2> QED
    BY DEF DurableIsStored, EditsAreCounted, PendingIsStored, EditsReachEffect,
         MarkerHasReason, UnreadableIsBlocked, ClearIsMarked, Loaded
<1>3. UndoIsWhole'
  BY DEF IInv, UndoIsWhole
<1> QED BY <1>1, <1>2, <1>3 DEF IInv

LEMMA ClearFailsInv ==
  ASSUME DurabilityAssumption, IInv, NEW a \in Area, ClearFails(a)
  PROVE  IInv'
<1> USE DEF ClearFails, recovery, guard, Failing, With, Everywhere
<1>1. TypeOK'
  BY Types, TypesOfParts, RawsApart DEF IInv
<1>2. ASSUME NEW b \in Area PROVE AreaInv(b)'
  <2>1. AreaInv(b)
    BY DEF IInv
  <2> USE <2>1, Types, RawsApart DEF IInv, AreaInv, Undisturbed, Suspended, Settled
  <2> QED
    BY DEF DurableIsStored, EditsAreCounted, PendingIsStored, EditsReachEffect,
         MarkerHasReason, UnreadableIsBlocked, ClearIsMarked, Loaded
<1>3. UndoIsWhole'
  BY DEF IInv, UndoIsWhole
<1> QED BY <1>1, <1>2, <1>3 DEF IInv

-----------------------------------------------------------------------------
(* The batches of the restore executor.  An Apply and an Undo share their  *)
(* outcomes, so each outcome has one lemma over the batch and what the     *)
(* controller leaves on offer.                                             *)
PlansOK ==
  /\ offer = NoOffer \/ offer \in Partial(Value)
  /\ undo = NoUndo \/ undo \in [mode : {"durable", "session"}, offered : BOOLEAN,
                                prior : Partial(Value), raw : Partial(RawOrNull)]
  /\ UndoIsWhole

LEMMA PlansFit ==
  ASSUME IInv
  PROVE  /\ PlansOK
         /\ offer # NoOffer => offer \in Partial(Value)
         /\ undo # NoUndo => undo.prior \in Partial(Value) /\ undo.raw \in Partial(RawOrNull)
BY DEF IInv, TypeOK, PlansOK

LEMMA ValuesAreRaws ==
  ASSUME NEW f \in Partial(Value) PROVE f \in Partial(RawOrNull)
BY DEF Partial, RawOrNull

LEMMA WriteRefusedInv ==
  ASSUME DurabilityAssumption, IInv, Settled, NEW ids \in SUBSET Area, PlansOK',
         WriteRefused(ids) \/ UNCHANGED <<conflict, recovery, guard>>,
         UNCHANGED <<unseen, storage, live, due, baseline, origin, displaced>>
  PROVE  IInv'
<1> USE DEF WriteRefused, Stale, recovery, guard, PlansOK
<1>1. TypeOK'
  <2>1. conflict' \subseteq Area /\ UNCHANGED recovery /\ UNCHANGED guard
    BY Types DEF IInv
  <2> QED BY <2>1, Types, TypesOfParts DEF IInv
<1>2. ASSUME NEW b \in Area PROVE AreaInv(b)'
  <2>1. AreaInv(b)
    BY DEF IInv
  <2>2. UNCHANGED recovery /\ UNCHANGED guard /\ conflict \subseteq conflict'
    OBVIOUS
  <2> HIDE DEF WriteRefused
  <2> USE <2>1, <2>2, Types, RawsApart DEF IInv, AreaInv, Undisturbed, Suspended, Settled
  <2> QED
    BY DEF DurableIsStored, EditsAreCounted, PendingIsStored, EditsReachEffect,
         MarkerHasReason, UnreadableIsBlocked, ClearIsMarked, Loaded
<1> QED BY <1>1, <1>2 DEF IInv, PlansOK

LEMMA RolledBackInv ==
  ASSUME DurabilityAssumption, IInv, Settled, NEW operations \in Partial(RawOrNull),
         RolledBack(operations), PlansOK',
         UNCHANGED <<unseen, storage, live, due, baseline, origin, displaced>>
  PROVE  IInv'
<1> USE DEF RecordApplyFailure, RecordNonDurable, Failing, Kind, With, PlansOK
<1>0. PICK ids \in SUBSET DOMAIN operations : RecordApplyFailure(ids, operations, {})
  BY DEF RolledBack
<1>a. ids \subseteq Area /\ UNCHANGED conflict
  BY PartialParts DEF RolledBack
<1>1. TypeOK'
  BY <1>0, <1>a, Types, TypesOfParts DEF IInv
<1>2. ASSUME NEW b \in Area PROVE AreaInv(b)'
  <2>1. AreaInv(b)
    BY DEF IInv
  <2> USE <1>0, <1>a, <2>1, Types, RawsApart DEF IInv, AreaInv, Undisturbed, Suspended, Settled
  <2> QED
    BY DEF DurableIsStored, EditsAreCounted, PendingIsStored, EditsReachEffect,
         MarkerHasReason, UnreadableIsBlocked, ClearIsMarked, Loaded
<1> QED BY <1>1, <1>2 DEF IInv, PlansOK

LEMMA TornInv ==
  ASSUME DurabilityAssumption, IInv, Settled, NEW operations \in Partial(RawOrNull),
         Torn(operations), PlansOK',
         UNCHANGED <<unseen, live, due, baseline, origin>>
  PROVE  IInv'
<1> USE DEF RecordApplyFailure, RecordNonDurable, Failing, Kind, With, PlansOK
<1>0. PICK tried \in SUBSET DOMAIN operations, left \in SUBSET DOMAIN operations :
        /\ left \subseteq tried
        /\ storage' = With(storage, left, operations)
        /\ displaced' = displaced \cup left
        /\ RecordApplyFailure(tried, operations, tried)
  BY DEF Torn
<1>a. tried \subseteq Area /\ UNCHANGED conflict /\ \A a \in left : operations[a] \in RawOrNull
  BY PartialParts DEF Torn
<1>1. TypeOK'
  <2>1. storage' \in [Area -> RawOrNull]
    BY <1>0, <1>a, Types DEF IInv
  <2> QED BY <1>0, <1>a, <2>1, Types, TypesOfParts DEF IInv
<1>2. ASSUME NEW b \in Area PROVE AreaInv(b)'
  <2>1. AreaInv(b)
    BY DEF IInv
  <2> USE <1>0, <1>a, <2>1, Types, RawsApart DEF IInv, AreaInv, Undisturbed, Suspended, Settled
  <2> QED
    BY DEF DurableIsStored, EditsAreCounted, PendingIsStored, EditsReachEffect,
         MarkerHasReason, UnreadableIsBlocked, ClearIsMarked, Loaded
<1> QED BY <1>1, <1>2 DEF IInv, PlansOK

LEMMA LiveRefusedInv ==
  ASSUME DurabilityAssumption, IInv, Settled, NEW operations \in Partial(RawOrNull),
         LiveRefused(operations), PlansOK', UNCHANGED <<unseen, baseline>>
  PROVE  IInv'
<1> USE DEF PlansOK, recovery, guard
<1> DEFINE ids == DOMAIN operations
<1>a. /\ ids \subseteq Area /\ UNCHANGED <<live, conflict>> /\ due' = due \cup ids
      /\ origin' = With(origin, ids, Everywhere("again")) /\ ids \cap conflict = {}
  BY PartialParts DEF LiveRefused, WriteAllowed
<1>b. \A a \in ids : operations[a] \in RawOrNull
  BY PartialParts
<1>c. ASSUME NEW b \in Area PROVE origin'[b] = IF b \in ids THEN "again" ELSE origin[b]
  BY <1>a DEF With, Everywhere
<1>3. CASE /\ skip' = skip \ ids
           /\ UNCHANGED <<storage, blocked, contextInvalid, failure, guard, displaced>>
  <2> HIDE DEF ids
  <2>1. TypeOK'
    <3>1. origin' \in [Area -> Origin]
      BY <1>a, Types DEF IInv, With, Everywhere, Origin
    <3> QED BY <1>3, <1>a, <3>1, Types, TypesOfParts DEF IInv
  <2>2. ASSUME NEW b \in Area PROVE AreaInv(b)'
    <3>1. AreaInv(b)
      BY DEF IInv
    <3> QED BY <1>3, <1>a, <1>c, <3>1, Types
        DEF IInv, AreaInv, Undisturbed, Suspended, Settled,
         DurableIsStored, EditsAreCounted, PendingIsStored, EditsReachEffect, MarkerHasReason,
         UnreadableIsBlocked, ClearIsMarked
  <2> QED BY <2>1, <2>2 DEF IInv, PlansOK
<1>4. CASE \E left \in SUBSET ids :
             /\ storage' = With(storage, left, operations)
             /\ displaced' = displaced \cup left
             /\ RecordApplyFailure(ids, operations, ids)
  <2>1. PICK left \in SUBSET ids :
             /\ storage' = With(storage, left, operations)
             /\ displaced' = displaced \cup left
             /\ RecordApplyFailure(ids, operations, ids)
    BY <1>4
  <2> HIDE DEF ids
  <2> USE DEF RecordApplyFailure, RecordNonDurable, Failing, Kind, With
  <2>2. TypeOK'
    <3>1. origin' \in [Area -> Origin]
      BY <1>a, Types DEF IInv, With, Everywhere, Origin
    <3>2. storage' \in [Area -> RawOrNull]
      BY <1>b, <2>1, Types DEF IInv
    <3> QED BY <1>a, <2>1, <3>1, <3>2, Types, TypesOfParts DEF IInv
  <2>3. ASSUME NEW b \in Area PROVE AreaInv(b)'
    <3>1. AreaInv(b)
      BY DEF IInv
    <3> QED BY <1>a, <1>c, <2>1, <3>1, Types
        DEF IInv, AreaInv, Undisturbed, Suspended, Settled,
         DurableIsStored, EditsAreCounted, PendingIsStored, EditsReachEffect, MarkerHasReason,
         UnreadableIsBlocked, ClearIsMarked
  <2> QED BY <2>2, <2>3 DEF IInv, PlansOK
<1> QED BY <1>3, <1>4 DEF LiveRefused

(* Live values applied to the session only.                                *)
LEMMA ForSessionInv ==
  ASSUME DurabilityAssumption, IInv, Settled, NEW values \in Partial(Value),
         ApplyLive(values, "session"), PlansOK',
         UNCHANGED <<unseen, storage, baseline, conflict, blocked, contextInvalid, failure,
                     guard, displaced>>
  PROVE  IInv'
<1> USE DEF PlansOK, guard, ApplyLive, With, Everywhere
<1>a. DOMAIN values \subseteq Area /\ \A a \in DOMAIN values : values[a] \in Value
  BY PartialParts
<1>1. TypeOK'
  <2>1. live' \in [Area -> Value] /\ origin' \in [Area -> Origin]
    BY <1>a, Types DEF IInv, Origin
  <2> QED BY <1>a, <2>1, Types, TypesOfParts DEF IInv
<1>2. ASSUME NEW b \in Area PROVE AreaInv(b)'
  <2>1. AreaInv(b)
    BY DEF IInv
  <2> USE <1>a, <2>1, Types, RawsApart DEF IInv, AreaInv, Undisturbed, Suspended, Settled
  <2> QED
    BY DEF DurableIsStored, EditsAreCounted, PendingIsStored, EditsReachEffect,
         MarkerHasReason, UnreadableIsBlocked, ClearIsMarked, Loaded
<1> QED BY <1>1, <1>2 DEF IInv, PlansOK

-----------------------------------------------------------------------------
(* The guard takes the live values of before the Apply; the pending list   *)
(* and the marker hold until reconcileCurrent puts the applied ones there. *)
LEMMA ApplyDurableInv ==
  ASSUME DurabilityAssumption, IInv, NEW target \in Partial(Value), ApplyDurable(target)
  PROVE  IInv'
<1> DEFINE ids == DOMAIN target
<1>a. ids \subseteq Area /\ \A a \in ids : target[a] \in Value
  BY PartialParts
<1>b. /\ Settled /\ conflict \cap ids = {} /\ UNCHANGED <<unseen, conflict>>
      /\ storage' = With(storage, ids, target) /\ live' = With(live, ids, target)
      /\ skip' = skip \cup ids /\ due' = due \cup ids /\ blocked' = blocked \ ids
      /\ contextInvalid' = contextInvalid \ ids /\ displaced' = displaced \ ids
      /\ origin' = With(origin, ids, Everywhere("stored"))
      /\ durable' = With(durable, ids, live) /\ acked' = With(acked, ids, Everywhere(NoAck))
      /\ nonDurable' = nonDurable \ ids /\ pending' = pending \cup ids
      /\ failure' = With(failure, ids, Everywhere("none"))
  BY DEF ApplyDurable, ApplyLive, RecordDurableIds, ClearStorageFailures, Failing, WriteAllowed
<1>c. \/ baseline' = With(baseline, ids, storage')
      \/ baseline' = baseline
  BY DEF ApplyDurable, RecordCurrentRaw
<1>d. PlansOK'
  <2>1. [a \in ids |-> live[a]] \in Partial(Value)
    <3>1. ids \in SUBSET Area /\ \A a \in ids : live[a] \in Value
      BY <1>a, Types DEF IInv
    <3> HIDE DEF ids
    <3> QED BY <3>1, RestrictionIsPartial
  <2>2. [a \in ids |-> storage[a]] \in Partial(RawOrNull)
    <3>1. ids \in SUBSET Area /\ \A a \in ids : storage[a] \in RawOrNull
      BY <1>a, Types DEF IInv
    <3> HIDE DEF ids
    <3> QED BY <3>1, RestrictionIsPartial
  <2>3. offer' = NoOffer /\ undo' = [mode |-> "durable", offered |-> FALSE,
          prior |-> [a \in ids |-> live[a]], raw |-> [a \in ids |-> storage[a]]]
    BY DEF ApplyDurable, Undoable
  <2> QED BY <2>1, <2>2, <2>3 DEF PlansOK, UndoIsWhole
<1> HIDE DEF ids
<1>1. TypeOK'
  <2>1. /\ storage' \in [Area -> RawOrNull] /\ live' \in [Area -> Value]
        /\ origin' \in [Area -> Origin]
    BY <1>a, <1>b, Types DEF IInv, With, Everywhere, Origin, RawOrNull
  <2>2. /\ durable' \in [Area -> Value] /\ acked' \in [Area -> Value \cup {NoAck}]
        /\ failure' \in [Area -> {"none", "save", "clear"}]
    BY <1>a, <1>b, Types DEF IInv, With, Everywhere
  <2>3. baseline' \in [Area -> RawOrNull]
    BY <1>c, <2>1, Types DEF IInv, With
  <2> QED BY <1>a, <1>b, <1>d, <2>1, <2>2, <2>3, Types, TypesOfParts DEF IInv, PlansOK
<1>2. ASSUME NEW b \in Area PROVE AreaInv(b)'
  <2>1. AreaInv(b)
    BY DEF IInv
  <2> USE <1>a, <1>b, <1>c, <2>1, Types, RawsApart
      DEF With, Everywhere, IInv, AreaInv, Undisturbed, Suspended, Settled
  <2> QED
    BY DEF DurableIsStored, EditsAreCounted, PendingIsStored, EditsReachEffect,
         MarkerHasReason, UnreadableIsBlocked, ClearIsMarked, Loaded
<1> QED BY <1>d, <1>1, <1>2 DEF IInv, PlansOK

(* A restored raw the loader rejects blocks its area again, whether or not *)
(* the baseline could be read back.                                        *)
LEMMA UndoRestoreInv ==
  ASSUME DurabilityAssumption, IInv, UndoRestore
  PROVE  IInv'
<1> DEFINE ids == DOMAIN undo.raw
           back == DOMAIN undo.prior
<1>a. /\ ids \subseteq Area /\ back = ids
      /\ \A a \in ids : undo.raw[a] \in RawOrNull
      /\ \A a \in back : undo.prior[a] \in Value
  BY PlansFit, PartialParts DEF IInv, UndoRestore, Undoing, UndoIsWhole
<1>b. /\ Settled /\ conflict \cap ids = {} /\ UNCHANGED <<unseen, conflict>>
      /\ storage' = With(storage, ids, undo.raw) /\ live' = With(live, back, undo.prior)
      /\ skip' = skip \cup back /\ due' = due \cup back
      /\ blocked' = (blocked \ ids) \cup (ids \cap Rejected(storage', contextInvalid \ ids))
      /\ contextInvalid' = contextInvalid \ ids /\ displaced' = displaced \cup ids
      /\ origin' = With(origin, back, Everywhere("undone"))
      /\ durable' = With(durable, ids, live) /\ acked' = With(acked, ids, Everywhere(NoAck))
      /\ nonDurable' = nonDurable \ ids /\ pending' = pending \cup ids
      /\ failure' = With(failure, ids, Everywhere("none"))
  BY DEF UndoRestore, Undoing, ApplyLive, RecordDurableIds, ClearStorageFailures, Failing,
     WriteAllowed, Reblocked
<1>c. \/ baseline' = With(baseline, ids, storage')
      \/ baseline' = baseline
  BY DEF UndoRestore, RecordCurrentRaw
<1>d. PlansOK'
  BY PlansFit DEF UndoRestore, Undoing, PlansOK, UndoIsWhole
<1> HIDE DEF ids, back
<1>1. TypeOK'
  <2>1. /\ storage' \in [Area -> RawOrNull] /\ live' \in [Area -> Value]
        /\ origin' \in [Area -> Origin]
    BY <1>a, <1>b, Types DEF IInv, With, Everywhere, Origin
  <2>2. /\ durable' \in [Area -> Value] /\ acked' \in [Area -> Value \cup {NoAck}]
        /\ failure' \in [Area -> {"none", "save", "clear"}]
    BY <1>a, <1>b, Types DEF IInv, With, Everywhere
  <2>3. baseline' \in [Area -> RawOrNull]
    BY <1>c, <2>1, Types DEF IInv, With
  <2>4. blocked' \subseteq Area
    BY <1>a, <1>b, Types DEF IInv
  <2> QED BY <1>a, <1>b, <1>d, <2>1, <2>2, <2>3, <2>4, Types, TypesOfParts DEF IInv, PlansOK
<1>2. ASSUME NEW b \in Area PROVE AreaInv(b)'
  <2>1. AreaInv(b)
    BY DEF IInv
  <2> USE <1>a, <1>b, <1>c, <2>1, Types, RawsApart
      DEF With, Everywhere, Rejected, IInv, AreaInv, Undisturbed, Suspended, Settled
  <2> QED
    BY DEF DurableIsStored, EditsAreCounted, PendingIsStored, EditsReachEffect,
         MarkerHasReason, UnreadableIsBlocked, ClearIsMarked, Loaded
<1> QED BY <1>d, <1>1, <1>2 DEF IInv, PlansOK

-----------------------------------------------------------------------------
LEMMA RestoreInv == ASSUME DurabilityAssumption, IInv, Restore PROVE IInv'
<1>1. ASSUME NEW target \in Partial(Value),
             ApplyNotStarted(target) \/ ApplyRolledBack(target) \/ ApplyTorn(target)
               \/ ApplyTakenBack(target)
      PROVE  IInv'
  <2>1. target \in Partial(RawOrNull) /\ PlansOK'
    BY <1>1, ValuesAreRaws, PlansFit
      DEF PlansOK, UndoIsWhole, ApplyNotStarted, ApplyRolledBack, ApplyTorn,
       ApplyTakenBack
  <2>2. CASE ApplyNotStarted(target)
    BY <1>1, <2>1, <2>2, PartialParts, WriteRefusedInv DEF ApplyNotStarted, Applying
  <2>3. CASE ApplyRolledBack(target)
    BY <2>1, <2>3, RolledBackInv DEF ApplyRolledBack, Applying
  <2>4. CASE ApplyTorn(target)
    BY <2>1, <2>4, TornInv DEF ApplyTorn, Applying
  <2>5. CASE ApplyTakenBack(target)
    BY <2>1, <2>5, LiveRefusedInv DEF ApplyTakenBack, Applying
  <2> QED BY <1>1, <2>2, <2>3, <2>4, <2>5
<1>2. ASSUME NEW target \in Partial(Value), ApplyDurable(target) PROVE IInv'
  BY <1>2, ApplyDurableInv
<1>3. CASE ApplyForSession
  <2>1. offer \in Partial(Value)
    BY <1>3, PlansFit DEF ApplyForSession
  <2>2. [a \in DOMAIN offer |-> live[a]] \in Partial(Value)
    <3>1. DOMAIN offer \in SUBSET Area
      BY <2>1, PartialParts
    <3>2. \A a \in DOMAIN offer : live[a] \in Value
      BY <3>1, Types DEF IInv
    <3> QED BY <3>1, <3>2, RestrictionIsPartial
  <2>3. <<>> \in Partial(RawOrNull)
    <3>1. [a \in {} |-> storage[a]] \in Partial(RawOrNull)
      BY RestrictionIsPartial
    <3> QED BY <3>1
  <2>4. PlansOK'
    BY <1>3, <2>2, <2>3 DEF PlansOK, UndoIsWhole, ApplyForSession, Undoable
  <2> QED BY <1>3, <2>1, <2>4, ForSessionInv DEF ApplyForSession
<1>4. CASE UndoForSession
  <2>1. undo.prior \in Partial(Value) /\ PlansOK'
    BY <1>4, PlansFit DEF UndoForSession, PlansOK, UndoIsWhole
  <2> QED BY <1>4, <2>1, ForSessionInv DEF UndoForSession
<1>5. CASE Forget
  <2>1. PlansOK'
    BY <1>5, PlansFit DEF Forget, PlansOK, UndoIsWhole
  <2> QED BY <1>5, <2>1, WriteRefusedInv, {} \in SUBSET Area DEF Forget
<1>6. CASE UndoNotStarted \/ UndoRolledBack \/ UndoTorn \/ UndoTakenBack
  <2>1. undo.raw \in Partial(RawOrNull) /\ PlansOK'
    BY <1>6, PlansFit DEF PlansOK, UndoIsWhole, UndoNotStarted, UndoRolledBack, UndoTorn,
       UndoTakenBack,
       Undoing, OfferUndo
  <2>2. CASE UndoNotStarted
    BY <2>1, <2>2, PartialParts, WriteRefusedInv DEF UndoNotStarted, Undoing
  <2>3. CASE UndoRolledBack
    BY <2>1, <2>3, RolledBackInv DEF UndoRolledBack, Undoing
  <2>4. CASE UndoTorn
    BY <2>1, <2>4, TornInv DEF UndoTorn, Undoing
  <2>5. CASE UndoTakenBack
    BY <2>1, <2>5, LiveRefusedInv DEF UndoTakenBack, Undoing
  <2> QED BY <1>6, <2>2, <2>3, <2>4, <2>5
<1>7. CASE UndoRestore
  BY <1>7, UndoRestoreInv
<1> QED BY <1>1, <1>2, <1>3, <1>4, <1>5, <1>6, <1>7 DEF Restore

LEMMA StutterInv == ASSUME IInv, UNCHANGED vars PROVE IInv'
<1> USE DEF vars, recovery, guard
<1>1. TypeOK'
  BY DEF IInv, TypeOK
<1>2. ASSUME NEW b \in Area PROVE AreaInv(b)'
  BY DEF IInv, AreaInv, Undisturbed, Suspended, DurableIsStored, EditsAreCounted,
     PendingIsStored, EditsReachEffect, MarkerHasReason, UnreadableIsBlocked, ClearIsMarked
<1> QED BY <1>1, <1>2 DEF IInv, UndoIsWhole

LEMMA NextInv == ASSUME DurabilityAssumption, IInv, [Next]_vars PROVE IInv'
<1>1. ASSUME NEW a \in Area, Effect(a) PROVE IInv'
  BY <1>1, EffectReturnsInv, PersistFindsConflictInv, PersistUnavailableInv, PersistSavesInv,
     PersistUnverifiedInv, PersistFailsInv DEF Effect
<1>2. ASSUME NEW a \in Area, StorageEvent(a) \/ KeepCurrent(a) \/ KeepTorn(a) PROVE IInv'
  BY <1>2, StorageEventInv, KeepCurrentInv, KeepTornInv
<1>3. ASSUME NEW a \in Area, ConfirmClear(a) \/ ClearFails(a) PROVE IInv'
  BY <1>3, ConfirmClearInv, ClearFailsInv
<1>4. ASSUME NEW a \in Area, NEW v \in Value, Edit(a, v) PROVE IInv'
  BY <1>4, EditInv
<1>5. ASSUME NEW a \in Area, NEW raw \in External, ExternalWrite(a, raw) PROVE IInv'
  BY <1>5, ExternalWriteInv
<1>6. CASE ReconcileCurrent \/ AcknowledgeBackup
  BY <1>6, ReconcileCurrentInv, AcknowledgeBackupInv
<1>7. CASE Restore
  BY <1>7, RestoreInv
<1>8. CASE UNCHANGED vars
  BY <1>8, StutterInv
<1> QED BY <1>1, <1>2, <1>3, <1>4, <1>5, <1>6, <1>7, <1>8 DEF Next

-----------------------------------------------------------------------------
(* The invariant holds in every reachable state.                           *)
THEOREM Inductive ==
  ASSUME DurabilityAssumption PROVE Spec => []IInv
<1>1. Init => IInv
  BY InitInv
<1>2. IInv /\ [Next]_vars => IInv'
  BY NextInv
<1> QED BY <1>1, <1>2, PTL DEF Spec

(* Type correctness.                                                       *)
THEOREM TypeCorrect ==
  ASSUME DurabilityAssumption PROVE Spec => []TypeOK
<1>1. IInv => TypeOK
  BY DEF IInv
<1> QED BY <1>1, Inductive, PTL

(* Once the effects have run, the leave warning counts every edit that a   *)
(* reload would not bring back: the guard's durable value is the stored    *)
(* one, so such an edit differs from it, and its area has a reason.        *)
THEOREM EditsCorrect ==
  ASSUME DurabilityAssumption PROVE Spec => []EditsAreProtected
<1>1. ASSUME IInv PROVE EditsAreProtected
  <2>1. SUFFICES ASSUME Settled, NEW a \in (Area \ displaced) \ Elsewhere,
                        origin[a] = "edit", Unsaved(a)
                 PROVE  Protected(a)
    BY DEF EditsAreProtected, Survives
  <2>2. AreaInv(a) /\ a \notin conflict \cup unseen
    BY <1>1 DEF IInv, Elsewhere
  <2>3. durable[a] = Loaded(storage[a])
    BY <2>1, <2>2 DEF AreaInv, DurableIsStored, Undisturbed, Settled
  <2>4. a \in nonDurable
    BY <2>1, <2>2, <2>3 DEF AreaInv, EditsAreCounted, Unsaved, Settled
  <2> QED BY <2>1, <2>3, <2>4 DEF Protected, Unsaved
<1> QED BY <1>1, Inductive, PTL

(* An autosave replaces a stored value only where this tab expects what is *)
(* stored, saves are not suspended and no marker stops them.               *)
LEMMA EffectsReplace ==
  ASSUME NEW a \in Area, Effect(a), storage'[a] # storage[a]
  PROVE  storage[a] = baseline[a] /\ a \in due /\ ~Suspended(a) /\ a \notin skip
BY DEF Effect, EffectReturns, PersistFindsConflict, PersistUnavailable, PersistSaves,
   PersistUnverified, PersistFails, Persisting

(* No autosave replaces an unreadable stored value.                        *)
THEOREM UnreadableStays ==
  ASSUME DurabilityAssumption PROVE Spec => UnreadableIsKept
<1>1. ASSUME IInv PROVE NotReplaced(Unreadable)
  <2>1. SUFFICES ASSUME NEW a \in Area, storage[a] = Unreadable,
                        storage'[a] # Unreadable, Effect(a)
                 PROVE  FALSE
    BY DEF NotReplaced
  <2> QED BY <1>1, <2>1, EffectsReplace DEF IInv, AreaInv, UnreadableIsBlocked, Suspended
<1> QED BY <1>1, Inductive, PTL DEF UnreadableIsKept

(* No autosave recreates a value the user cleared.                         *)
THEOREM ClearedStays ==
  ASSUME DurabilityAssumption PROVE Spec => ClearedStaysCleared
<1>1. ASSUME IInv
      PROVE  \A a \in Area : origin[a] = "cleared" /\ storage'[a] # storage[a] => ~Effect(a)
  BY <1>1, EffectsReplace DEF IInv, AreaInv, ClearIsMarked
<1> QED BY <1>1, Inductive, PTL DEF ClearedStaysCleared
=============================================================================
