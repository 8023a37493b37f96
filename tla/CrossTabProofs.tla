--------------------------- MODULE CrossTabProofs ---------------------------
(***************************************************************************)
(* Proofs about CrossTabConflicts for any number of tabs, areas and        *)
(* values, in the environment where no handler of one tab is interrupted   *)
(* by another tab and no tab writes while another one is loading.  (The    *)
(* violation runs show that both assumptions are needed.)                  *)
(***************************************************************************)
EXTENDS CrossTabConflicts, FiniteSetTheorems, TLAPS

(* A tab that is still loading has shown exactly what is stored.           *)
LoadedIsStored ==
  \A t \in Tab, a \in Area : phase[t] = "loading" => known[t][a] = storage[a]

(* Between its check and its write, a persist is the only activity and the *)
(* stored raw is the one its tab knows.                                    *)
CallIsFresh ==
  \A t \in Tab : call[t] # Idle =>
    /\ phase[t] = "ready"
    /\ storage[call[t].area] = known[t][call[t].area]
    /\ \A u \in Tab \ {t} : call[u] = Idle /\ phase[u] # "loading"

IInv == TypeOK /\ BaselineIsKnown /\ LoadedIsStored /\ CallIsFresh

-----------------------------------------------------------------------------
(* Initially no tab is open. *)
LEMMA InitIInv == Init => IInv
  BY CrossTabAssumption DEF Init, IInv, TypeOK, BaselineIsKnown, LoadedIsStored, CallIsFresh,
     Everywhere, RawOrNull

(* A document that starts leaves every variable it sets well typed.        *)
LEMMA NewDocumentType ==
  ASSUME TypeOK, NEW t \in Tab, NEW st \in [Area -> RawOrNull], NewDocument(t, st)
  PROVE  /\ phase' \in [Tab -> {"closed", "loading", "ready"}]
         /\ live' \in [Tab -> [Area -> Value]]
         /\ blocked' \in [Tab -> SUBSET Area]
         /\ known' \in [Tab -> [Area -> RawOrNull]]
         /\ skip' \in [Tab -> SUBSET Area]
         /\ baseline' \in [Tab -> [Area -> RawOrNull]]
         /\ conflict' \in [Tab -> [Area -> RawOrNull \cup {NoConflict}]]
         /\ due' \in [Tab -> SUBSET Area]
         /\ call' \in [Tab -> Call \cup {Idle}]
         /\ \A u \in Tab : undo'[u] = NoUndo \/ IsUndo(undo'[u])
         /\ torn' \in [Tab -> [Area -> SUBSET RawOrNull]]
  <1> USE DEF TypeOK, NewDocument, NewControllers
  <1>1. live' \in [Tab -> [Area -> Value]]
    <2>1. \A raw \in RawOrNull : Loaded(raw) \in Value
      BY CrossTabAssumption DEF Loaded, Saved
    <2>2. [b \in Area |-> Loaded(st[b])] \in [Area -> Value]
      BY <2>1
    <2> QED
      BY <2>2
  <1>2. known' \in [Tab -> [Area -> RawOrNull]]
    OBVIOUS
  <1>3. baseline' \in [Tab -> [Area -> RawOrNull]]
    <2>1. Everywhere(NoRaw) \in [Area -> RawOrNull]
      BY DEF Everywhere, RawOrNull
    <2> QED
      BY <2>1
  <1>4. conflict' \in [Tab -> [Area -> RawOrNull \cup {NoConflict}]]
    <2>1. Everywhere(NoConflict) \in [Area -> RawOrNull \cup {NoConflict}]
      BY DEF Everywhere
    <2> QED
      BY <2>1
  <1>5. blocked' \in [Tab -> SUBSET Area] /\ skip' \in [Tab -> SUBSET Area]
        /\ due' \in [Tab -> SUBSET Area]
    OBVIOUS
  <1>6. phase' \in [Tab -> {"closed", "loading", "ready"}] /\ call' \in [Tab -> Call \cup {Idle}]
    OBVIOUS
  <1>7. \A u \in Tab : undo'[u] = NoUndo \/ IsUndo(undo'[u])
    OBVIOUS
  <1>8. torn' \in [Tab -> [Area -> SUBSET RawOrNull]]
    <2>1. Everywhere({}) \in [Area -> SUBSET RawOrNull]
      BY DEF Everywhere
    <2> QED
      BY <2>1
  <1> QED
    BY <1>1, <1>2, <1>3, <1>4, <1>5, <1>6, <1>7, <1>8

(* What a failing batch leaves in storage and dispatches is well typed.    *)
LEMMA BatchFailsType ==
  ASSUME TypeOK, NEW t \in Tab, NEW ids \in SUBSET Area, NEW target \in [ids -> RawOrNull],
         BatchFails(t, target)
  PROVE  /\ storage' \in [Area -> RawOrNull]
         /\ inbox' \in [Tab -> [Area -> SUBSET RawOrNull]]
         /\ UNCHANGED <<phase, live, blocked, skip, conflict, due, call, known>>
  <1>1. PICK tried \in SUBSET ids : \E left \in SUBSET tried :
          LET wrote == {a \in tried : target[a] # storage[a]}
          IN  /\ storage' = [a \in Area |-> IF a \in left THEN target[a] ELSE storage[a]]
              /\ inbox' = Dispatched(t, [a \in Area |->
                   IF a \notin wrote THEN {}
                   ELSE {target[a]} \cup (IF a \in left THEN {} ELSE {storage[a]})])
    BY DEF BatchFails
  <1>2. storage' \in [Area -> RawOrNull]
    BY <1>1 DEF TypeOK
  <1>3. inbox' \in [Tab -> [Area -> SUBSET RawOrNull]]
    BY <1>1 DEF TypeOK, Dispatched
  <1> QED
    BY <1>2, <1>3 DEF BatchFails

LEMMA KeptType ==
  ASSUME TypeOK, NEW t \in Tab, NEW ids \in SUBSET Area, NEW at \in Stamp
  PROVE  [a \in ids |-> Kept(t, ids, at)[a]] \in [ids -> RawOrNull]
  BY DEF TypeOK, Kept, Saved, RawOrNull

LEMMA UndoType ==
  ASSUME TypeOK, NEW t \in Tab, undo[t] # NoUndo
  PROVE  /\ DOMAIN undo[t].pre \in SUBSET Area
         /\ undo[t].pre \in [DOMAIN undo[t].pre -> RawOrNull]
         /\ DOMAIN undo[t].post = DOMAIN undo[t].pre
  BY DEF TypeOK, IsUndo

LEMMA TypeStep == TypeOK /\ [Next]_vars => TypeOK'
  <1> SUFFICES ASSUME TypeOK, [Next]_vars PROVE TypeOK'
    OBVIOUS
  <1> USE CrossTabAssumption DEF TypeOK, RawOrNull
  <1>1. ASSUME NEW t \in Tab, Open(t) PROVE TypeOK'
    BY <1>1, NewDocumentType DEF Open
  <1>2. ASSUME NEW t \in Tab, BootstrapReady(t) PROVE TypeOK'
    BY <1>2 DEF BootstrapReady
  <1>3. ASSUME NEW t \in Tab, Close(t) PROVE TypeOK'
    BY <1>3 DEF Close, NewControllers, Everywhere
  <1>4. ASSUME NEW t \in Tab, NEW a \in Area, NEW v \in Value, Edit(t, a, v) PROVE TypeOK'
    BY <1>4 DEF Edit
  <1>5. ASSUME NEW t \in Tab, NEW a \in Area, EffectReturns(t, a) PROVE TypeOK'
    <2>1. due' \in [Tab -> SUBSET Area]
      BY <1>5 DEF EffectReturns, EffectRuns
    <2>2. skip' \in [Tab -> SUBSET Area]
      <3>1. UNCHANGED skip \/ skip' = [skip EXCEPT ![t] = @ \ {a}]
        BY <1>5 DEF EffectReturns
      <3>2. CASE UNCHANGED skip
        BY <3>2
      <3>3. CASE skip' = [skip EXCEPT ![t] = @ \ {a}]
        BY <3>3
      <3> QED
        BY <3>1, <3>2, <3>3
    <2> QED
      BY <1>5, <2>1, <2>2 DEF EffectReturns
  <1>6. ASSUME NEW t \in Tab, NEW a \in Area, CheckFreshness(t, a) PROVE TypeOK'
    <2>1. due' \in [Tab -> SUBSET Area]
      BY <1>6 DEF CheckFreshness, Fresh, EffectRuns
    <2>2. call' \in [Tab -> Call \cup {Idle}]
      <3>1. UNCHANGED call \/ call' = [call EXCEPT ![t] = Access(a, "load")]
        BY <1>6 DEF CheckFreshness, Fresh
      <3>2. Access(a, "load") \in Call
        BY DEF Access, Call
      <3> QED
        BY <3>1, <3>2
    <2>3. /\ conflict' \in [Tab -> [Area -> RawOrNull \cup {NoConflict}]]
          /\ torn' \in [Tab -> [Area -> SUBSET RawOrNull]]
      <3>1. UNCHANGED <<conflict, torn>> \/ CaptureConflict(t, a, storage[a])
        BY <1>6 DEF CheckFreshness
      <3>2. CASE UNCHANGED <<conflict, torn>>
        BY <3>2
      <3>3. CASE CaptureConflict(t, a, storage[a])
        BY <3>3 DEF CaptureConflict
      <3> QED
        BY <3>1, <3>2, <3>3
    <2> QED
      BY <1>6, <2>1, <2>2, <2>3 DEF CheckFreshness, Fresh
  <1>7. ASSUME NEW t \in Tab, NEW a \in Area, LoadForCompare(t, a) PROVE TypeOK'
    <2>1. call[t] \in Call
      BY <1>7 DEF LoadForCompare, Access, Call
    <2>2. call' \in [Tab -> Call \cup {Idle}]
      BY <1>7, <2>1 DEF LoadForCompare, Call
    <2> QED
      BY <1>7, <2>2 DEF LoadForCompare
  <1>8. ASSUME NEW t \in Tab, NEW a \in Area, AdoptCurrentRaw(t, a) PROVE TypeOK'
    BY <1>8 DEF AdoptCurrentRaw
  <1>9. ASSUME NEW t \in Tab, NEW a \in Area, Save(t, a) PROVE TypeOK'
    BY <1>9 DEF Save, Access, Dispatched, Changes, Saved
  <1>10. ASSUME NEW t \in Tab, PersistThrows(t) PROVE TypeOK'
    BY <1>10 DEF PersistThrows
  <1>11. ASSUME NEW t \in Tab, NEW a \in Area, NEW raw \in RawOrNull, HandleStorageChange(t, a, raw) PROVE TypeOK'
    <2>1. inbox' \in [Tab -> [Area -> SUBSET RawOrNull]]
      BY <1>11 DEF HandleStorageChange, IsExternal
    <2>2. /\ conflict' \in [Tab -> [Area -> RawOrNull \cup {NoConflict}]]
          /\ torn' \in [Tab -> [Area -> SUBSET RawOrNull]]
      <3>1. UNCHANGED <<conflict, torn>> \/ CaptureConflict(t, a, raw)
        BY <1>11 DEF HandleStorageChange
      <3>2. CASE UNCHANGED <<conflict, torn>>
        BY <3>2
      <3>3. CASE CaptureConflict(t, a, raw)
        BY <3>3 DEF CaptureConflict
      <3> QED
        BY <3>1, <3>2, <3>3
    <2> QED
      BY <1>11, <2>1, <2>2 DEF HandleStorageChange, IsExternal
  <1>12. ASSUME NEW a \in Area, ForeignWrite(a) PROVE TypeOK'
    BY <1>12 DEF ForeignWrite
  <1>13. ASSUME NEW t \in Tab, NEW ids \in SUBSET Area, RefreshReview(t, ids) PROVE TypeOK'
    BY <1>13 DEF RefreshReview
  <1>14. ASSUME NEW t \in Tab, NEW ids \in SUBSET Area, UseSavedData(t, ids) PROVE TypeOK'
    BY <1>14, NewDocumentType DEF UseSavedData
  <1>15. ASSUME NEW t \in Tab, NEW ids \in SUBSET Area, KeepCurrent(t, ids) PROVE TypeOK'
    <2> PICK at \in Stamp :
          LET post == Kept(t, ids, at)
          IN  /\ storage' = post
              /\ baseline' = [baseline EXCEPT ![t] =
                                [a \in Area |-> IF a \in ids THEN post[a] ELSE @[a]]]
              /\ known' = [known EXCEPT ![t] =
                             [a \in Area |-> IF a \in ids THEN post[a] ELSE @[a]]]
              /\ Offer(t, [pre |-> [a \in ids |-> storage[a]], post |-> [a \in ids |-> post[a]]])
      BY <1>15 DEF KeepCurrent
    <2>1. Kept(t, ids, at) \in [Area -> RawOrNull]
      BY DEF Kept, Saved
    <2>2. storage' \in [Area -> RawOrNull] /\ baseline' \in [Tab -> [Area -> RawOrNull]]
          /\ known' \in [Tab -> [Area -> RawOrNull]]
      BY <2>1
    <2>3. \A u \in Tab : undo'[u] = NoUndo \/ IsUndo(undo'[u])
      <3>1. IsUndo([pre |-> [a \in ids |-> storage[a]], post |-> [a \in ids |-> Kept(t, ids, at)[a]]])
        BY <2>1 DEF IsUndo
      <3> QED
        BY <3>1 DEF Offer
    <2>4. inbox' \in [Tab -> [Area -> SUBSET RawOrNull]]
      BY <1>15, <2>2 DEF KeepCurrent, Dispatched, Changes
    <2>5. conflict' \in [Tab -> [Area -> RawOrNull \cup {NoConflict}]]
      BY <1>15 DEF KeepCurrent
    <2>6. blocked' \in [Tab -> SUBSET Area] /\ due' \in [Tab -> SUBSET Area]
      BY <1>15 DEF KeepCurrent
    <2> QED
      BY <1>15, <2>2, <2>3, <2>4, <2>5, <2>6 DEF KeepCurrent
  <1>16. ASSUME NEW t \in Tab, NEW ids \in SUBSET Area, KeepFails(t, ids) PROVE TypeOK'
    <2>1. PICK at \in Stamp : BatchFails(t, [a \in ids |-> Kept(t, ids, at)[a]])
      BY <1>16 DEF KeepFails
    <2>2. [a \in ids |-> Kept(t, ids, at)[a]] \in [ids -> RawOrNull]
      BY KeptType
    <2> QED
      BY <1>16, <2>1, <2>2, BatchFailsType DEF KeepFails
  <1>17. ASSUME NEW t \in Tab, UndoKeep(t) PROVE TypeOK'
    <2> DEFINE restored == [a \in Area |->
                 IF a \in DOMAIN undo[t].pre THEN undo[t].pre[a] ELSE storage[a]]
    <2>1. restored \in [Area -> RawOrNull]
      BY <1>17, UndoType DEF UndoKeep, MayUndo
    <2>2. storage' = restored /\ NewDocument(t, restored)
          /\ inbox' = Dispatched(t, Changes(restored))
      BY <1>17 DEF UndoKeep
    <2>3. inbox' \in [Tab -> [Area -> SUBSET RawOrNull]]
      BY <2>1, <2>2 DEF Dispatched, Changes
    <2> QED
      BY <2>1, <2>2, <2>3, NewDocumentType
  <1>18. ASSUME NEW t \in Tab, UndoKeepFails(t) PROVE TypeOK'
    <2>1. /\ storage' \in [Area -> RawOrNull]
          /\ inbox' \in [Tab -> [Area -> SUBSET RawOrNull]]
          /\ UNCHANGED <<phase, live, blocked, skip, conflict, due, call, known>>
      BY <1>18, UndoType, BatchFailsType DEF UndoKeepFails, MayUndo
    <2>2. torn' \in [Tab -> [Area -> SUBSET RawOrNull]]
      BY <1>18, <2>1 DEF UndoKeepFails
    <2>3. undo' = [undo EXCEPT ![t] = NoUndo] /\ baseline' = baseline
      BY <1>18 DEF UndoKeepFails, RecordsNothing
    <2> QED
      BY <2>1, <2>2, <2>3
  <1>21. ASSUME NEW t \in Tab, UndoGone(t) PROVE TypeOK'
    BY <1>21 DEF UndoGone
  <1>19. ASSUME NEW t \in Tab, NEW a \in Area, ConfirmClear(t, a) PROVE TypeOK'
    BY <1>19 DEF ConfirmClear, Dispatched, Changes
  <1>20. CASE UNCHANGED vars
    BY <1>20 DEF vars
  <1> QED
    BY <1>1, <1>2, <1>3, <1>4, <1>5, <1>6, <1>7, <1>8, <1>9, <1>10, <1>11, <1>12, <1>13, <1>14, <1>15, <1>16, <1>17, <1>18, <1>19, <1>20, <1>21
    DEF Next, User, Resolve, Effect

(* The baseline and the known raw of a ready tab move together.            *)
LEMMA BaselineStep ==
  ASSUME Exclusive, QuietBoot, IInv, TypeOK', [Next]_vars PROVE BaselineIsKnown'
  <1> USE CrossTabAssumption DEF IInv, TypeOK, BaselineIsKnown, LoadedIsStored, CallIsFresh, Free
  <1>1. ASSUME NEW t \in Tab, Open(t) PROVE BaselineIsKnown'
    BY <1>1 DEF Open, NewDocument, NewControllers, Everywhere
  <1>2. ASSUME NEW t \in Tab, BootstrapReady(t) PROVE BaselineIsKnown'
    BY <1>2 DEF BootstrapReady
  <1>3. ASSUME NEW t \in Tab, Close(t) PROVE BaselineIsKnown'
    BY <1>3 DEF Close, NewControllers, Everywhere
  <1>4. ASSUME NEW t \in Tab, NEW a \in Area, NEW v \in Value, Edit(t, a, v) PROVE BaselineIsKnown'
    BY <1>4 DEF Edit
  <1>5. ASSUME NEW t \in Tab, NEW a \in Area, EffectReturns(t, a) PROVE BaselineIsKnown'
    BY <1>5 DEF EffectReturns, EffectRuns
  <1>6. ASSUME NEW t \in Tab, NEW a \in Area, CheckFreshness(t, a) PROVE BaselineIsKnown'
    BY <1>6 DEF CheckFreshness, Fresh, EffectRuns, Access
  <1>7. ASSUME NEW t \in Tab, NEW a \in Area, LoadForCompare(t, a) PROVE BaselineIsKnown'
    BY <1>7 DEF LoadForCompare, Access, Call
  <1>8. ASSUME NEW t \in Tab, NEW a \in Area, AdoptCurrentRaw(t, a) PROVE BaselineIsKnown'
    <2>1. Access(a, "adopt") # Idle
      BY DEF Access
    <2>2. storage[a] = known[t][a]
      <3>1. call[t] = Access(a, "adopt") /\ Access(a, "adopt").area = a
        BY <1>8 DEF AdoptCurrentRaw, Access
      <3> QED
        BY <2>1, <3>1
    <2>3. known' = known
      BY <1>8, <2>2 DEF AdoptCurrentRaw
    <2> QED
      BY <1>8, <2>2, <2>3 DEF AdoptCurrentRaw
  <1>9. ASSUME NEW t \in Tab, NEW a \in Area, Save(t, a) PROVE BaselineIsKnown'
    BY <1>9 DEF Save, Access
  <1>10. ASSUME NEW t \in Tab, PersistThrows(t) PROVE BaselineIsKnown'
    BY <1>10 DEF PersistThrows
  <1>11. ASSUME NEW t \in Tab, NEW a \in Area, NEW raw \in RawOrNull, HandleStorageChange(t, a, raw) PROVE BaselineIsKnown'
    BY <1>11 DEF HandleStorageChange, IsExternal
  <1>12. ASSUME NEW a \in Area, ForeignWrite(a) PROVE BaselineIsKnown'
    BY <1>12 DEF ForeignWrite
  <1>13. ASSUME NEW t \in Tab, NEW ids \in SUBSET Area, RefreshReview(t, ids) PROVE BaselineIsKnown'
    BY <1>13 DEF RefreshReview
  <1>14. ASSUME NEW t \in Tab, NEW ids \in SUBSET Area, UseSavedData(t, ids) PROVE BaselineIsKnown'
    BY <1>14 DEF UseSavedData, NewDocument, NewControllers, Everywhere
  <1>15. ASSUME NEW t \in Tab, NEW ids \in SUBSET Area, KeepCurrent(t, ids) PROVE BaselineIsKnown'
    BY <1>15 DEF KeepCurrent, Kept
  <1>16. ASSUME NEW t \in Tab, NEW ids \in SUBSET Area, KeepFails(t, ids) PROVE BaselineIsKnown'
    BY <1>16 DEF KeepFails, BatchFails
  <1>17. ASSUME NEW t \in Tab, UndoKeep(t) PROVE BaselineIsKnown'
    <2> DEFINE restored == [a \in Area |->
                 IF a \in DOMAIN undo[t].pre THEN undo[t].pre[a] ELSE storage[a]]
    <2>1. storage' = restored /\ NewDocument(t, restored)
      BY <1>17 DEF UndoKeep
    <2> HIDE DEF restored
    <2> QED
      BY <1>17, <2>1 DEF UndoKeep, MayUndo, NewDocument, NewControllers, Everywhere
  <1>18. ASSUME NEW t \in Tab, UndoKeepFails(t) PROVE BaselineIsKnown'
    BY <1>18 DEF UndoKeepFails, MayUndo, BatchFails, RecordsNothing
  <1>21. ASSUME NEW t \in Tab, UndoGone(t) PROVE BaselineIsKnown'
    BY <1>21 DEF UndoGone
  <1>19. ASSUME NEW t \in Tab, NEW a \in Area, ConfirmClear(t, a) PROVE BaselineIsKnown'
    BY <1>19 DEF ConfirmClear
  <1>20. CASE UNCHANGED vars
    BY <1>20 DEF vars
  <1> QED
    BY <1>1, <1>2, <1>3, <1>4, <1>5, <1>6, <1>7, <1>8, <1>9, <1>10, <1>11, <1>12, <1>13, <1>14, <1>15, <1>16, <1>17, <1>18, <1>19, <1>20, <1>21
    DEF Next, User, Resolve, Effect


(* Nobody writes while a tab loads.                                        *)
LEMMA LoadedStep ==
  ASSUME Exclusive, QuietBoot, IInv, TypeOK', [Next]_vars PROVE LoadedIsStored'
  <1> USE CrossTabAssumption DEF IInv, TypeOK, LoadedIsStored, CallIsFresh, Free, MayStart
  <1>1. ASSUME NEW t \in Tab, Open(t) PROVE LoadedIsStored'
    BY <1>1 DEF Open, NewDocument, NewControllers, Everywhere
  <1>2. ASSUME NEW t \in Tab, BootstrapReady(t) PROVE LoadedIsStored'
    BY <1>2 DEF BootstrapReady
  <1>3. ASSUME NEW t \in Tab, Close(t) PROVE LoadedIsStored'
    BY <1>3 DEF Close, NewControllers, Everywhere
  <1>4. ASSUME NEW t \in Tab, NEW a \in Area, NEW v \in Value, Edit(t, a, v) PROVE LoadedIsStored'
    BY <1>4 DEF Edit
  <1>5. ASSUME NEW t \in Tab, NEW a \in Area, EffectReturns(t, a) PROVE LoadedIsStored'
    BY <1>5 DEF EffectReturns, EffectRuns
  <1>6. ASSUME NEW t \in Tab, NEW a \in Area, CheckFreshness(t, a) PROVE LoadedIsStored'
    BY <1>6 DEF CheckFreshness, Fresh, EffectRuns, Access
  <1>7. ASSUME NEW t \in Tab, NEW a \in Area, LoadForCompare(t, a) PROVE LoadedIsStored'
    BY <1>7 DEF LoadForCompare, Access, Call
  <1>8. ASSUME NEW t \in Tab, NEW a \in Area, AdoptCurrentRaw(t, a) PROVE LoadedIsStored'
    BY <1>8 DEF AdoptCurrentRaw, Access
  <1>9. ASSUME NEW t \in Tab, NEW a \in Area, Save(t, a) PROVE LoadedIsStored'
    <2>1. Access(a, "save") # Idle
      BY DEF Access
    <2>2. phase[t] = "ready" /\ \A u \in Tab \ {t} : phase[u] # "loading"
      BY <1>9, <2>1 DEF Save
    <2> QED
      BY <1>9, <2>2 DEF Save
  <1>10. ASSUME NEW t \in Tab, PersistThrows(t) PROVE LoadedIsStored'
    BY <1>10 DEF PersistThrows
  <1>11. ASSUME NEW t \in Tab, NEW a \in Area, NEW raw \in RawOrNull, HandleStorageChange(t, a, raw) PROVE LoadedIsStored'
    BY <1>11 DEF HandleStorageChange, IsExternal
  <1>12. ASSUME NEW a \in Area, ForeignWrite(a) PROVE LoadedIsStored'
    BY <1>12 DEF ForeignWrite
  <1>13. ASSUME NEW t \in Tab, NEW ids \in SUBSET Area, RefreshReview(t, ids) PROVE LoadedIsStored'
    BY <1>13 DEF RefreshReview
  <1>14. ASSUME NEW t \in Tab, NEW ids \in SUBSET Area, UseSavedData(t, ids) PROVE LoadedIsStored'
    BY <1>14 DEF UseSavedData, NewDocument, NewControllers, Everywhere
  <1>15. ASSUME NEW t \in Tab, NEW ids \in SUBSET Area, KeepCurrent(t, ids) PROVE LoadedIsStored'
    BY <1>15 DEF KeepCurrent, Kept
  <1>16. ASSUME NEW t \in Tab, NEW ids \in SUBSET Area, KeepFails(t, ids) PROVE LoadedIsStored'
    BY <1>16 DEF KeepFails, BatchFails
  <1>17. ASSUME NEW t \in Tab, UndoKeep(t) PROVE LoadedIsStored'
    <2> DEFINE restored == [a \in Area |->
                 IF a \in DOMAIN undo[t].pre THEN undo[t].pre[a] ELSE storage[a]]
    <2>1. storage' = restored /\ NewDocument(t, restored)
      BY <1>17 DEF UndoKeep
    <2> HIDE DEF restored
    <2> QED
      BY <1>17, <2>1 DEF UndoKeep, MayUndo, NewDocument, NewControllers, Everywhere
  <1>18. ASSUME NEW t \in Tab, UndoKeepFails(t) PROVE LoadedIsStored'
    BY <1>18 DEF UndoKeepFails, MayUndo, BatchFails, RecordsNothing
  <1>21. ASSUME NEW t \in Tab, UndoGone(t) PROVE LoadedIsStored'
    BY <1>21 DEF UndoGone
  <1>19. ASSUME NEW t \in Tab, NEW a \in Area, ConfirmClear(t, a) PROVE LoadedIsStored'
    BY <1>19 DEF ConfirmClear
  <1>20. CASE UNCHANGED vars
    BY <1>20 DEF vars
  <1> QED
    BY <1>1, <1>2, <1>3, <1>4, <1>5, <1>6, <1>7, <1>8, <1>9, <1>10, <1>11, <1>12, <1>13, <1>14, <1>15, <1>16, <1>17, <1>18, <1>19, <1>20, <1>21
    DEF Next, User, Resolve, Effect


(* Nobody writes or loads while a persist is under way.                    *)
LEMMA CallStep ==
  ASSUME Exclusive, QuietBoot, IInv, TypeOK', [Next]_vars PROVE CallIsFresh'
  <1> USE CrossTabAssumption DEF IInv, TypeOK, CallIsFresh, BaselineIsKnown, Call, Free, MayStart
  <1>1. ASSUME NEW t \in Tab, Open(t) PROVE CallIsFresh'
    BY <1>1 DEF Open, NewDocument, NewControllers, Everywhere
  <1>2. ASSUME NEW t \in Tab, BootstrapReady(t) PROVE CallIsFresh'
    BY <1>2 DEF BootstrapReady
  <1>3. ASSUME NEW t \in Tab, Close(t) PROVE CallIsFresh'
    BY <1>3 DEF Close, NewControllers, Everywhere
  <1>4. ASSUME NEW t \in Tab, NEW a \in Area, NEW v \in Value, Edit(t, a, v) PROVE CallIsFresh'
    BY <1>4 DEF Edit
  <1>5. ASSUME NEW t \in Tab, NEW a \in Area, EffectReturns(t, a) PROVE CallIsFresh'
    BY <1>5 DEF EffectReturns, EffectRuns
  <1>6. ASSUME NEW t \in Tab, NEW a \in Area, CheckFreshness(t, a) PROVE CallIsFresh'
    BY <1>6 DEF CheckFreshness, Fresh, EffectRuns, Access
  <1>7. ASSUME NEW t \in Tab, NEW a \in Area, LoadForCompare(t, a) PROVE CallIsFresh'
    BY <1>7 DEF LoadForCompare, Access, Call
  <1>8. ASSUME NEW t \in Tab, NEW a \in Area, AdoptCurrentRaw(t, a) PROVE CallIsFresh'
    BY <1>8 DEF AdoptCurrentRaw, Access
  <1>9. ASSUME NEW t \in Tab, NEW a \in Area, Save(t, a) PROVE CallIsFresh'
    BY <1>9 DEF Save, Access
  <1>10. ASSUME NEW t \in Tab, PersistThrows(t) PROVE CallIsFresh'
    BY <1>10 DEF PersistThrows
  <1>11. ASSUME NEW t \in Tab, NEW a \in Area, NEW raw \in RawOrNull, HandleStorageChange(t, a, raw) PROVE CallIsFresh'
    BY <1>11 DEF HandleStorageChange, IsExternal
  <1>12. ASSUME NEW a \in Area, ForeignWrite(a) PROVE CallIsFresh'
    BY <1>12 DEF ForeignWrite
  <1>13. ASSUME NEW t \in Tab, NEW ids \in SUBSET Area, RefreshReview(t, ids) PROVE CallIsFresh'
    BY <1>13 DEF RefreshReview
  <1>14. ASSUME NEW t \in Tab, NEW ids \in SUBSET Area, UseSavedData(t, ids) PROVE CallIsFresh'
    BY <1>14 DEF UseSavedData, NewDocument, NewControllers, Everywhere
  <1>15. ASSUME NEW t \in Tab, NEW ids \in SUBSET Area, KeepCurrent(t, ids) PROVE CallIsFresh'
    BY <1>15 DEF KeepCurrent, Kept
  <1>16. ASSUME NEW t \in Tab, NEW ids \in SUBSET Area, KeepFails(t, ids) PROVE CallIsFresh'
    BY <1>16 DEF KeepFails, BatchFails
  <1>17. ASSUME NEW t \in Tab, UndoKeep(t) PROVE CallIsFresh'
    BY <1>17 DEF UndoKeep, MayUndo, NewDocument, NewControllers
  <1>18. ASSUME NEW t \in Tab, UndoKeepFails(t) PROVE CallIsFresh'
    BY <1>18 DEF UndoKeepFails, MayUndo, BatchFails, RecordsNothing
  <1>21. ASSUME NEW t \in Tab, UndoGone(t) PROVE CallIsFresh'
    BY <1>21 DEF UndoGone
  <1>19. ASSUME NEW t \in Tab, NEW a \in Area, ConfirmClear(t, a) PROVE CallIsFresh'
    BY <1>19 DEF ConfirmClear
  <1>20. CASE UNCHANGED vars
    BY <1>20 DEF vars
  <1> QED
    BY <1>1, <1>2, <1>3, <1>4, <1>5, <1>6, <1>7, <1>8, <1>9, <1>10, <1>11, <1>12, <1>13, <1>14, <1>15, <1>16, <1>17, <1>18, <1>19, <1>20, <1>21
    DEF Next, User, Resolve, Effect

-----------------------------------------------------------------------------
(* The inductive invariant.                                                *)
THEOREM Inductive ==
  ASSUME Exclusive, QuietBoot
  PROVE  Spec => []IInv
  <1>1. Init => IInv
    BY InitIInv
  <1>2. IInv /\ [Next]_vars => IInv'
    <2> SUFFICES ASSUME IInv, [Next]_vars PROVE IInv'
      OBVIOUS
    <2>1. TypeOK'
      BY TypeStep DEF IInv
    <2> QED
      BY <2>1, BaselineStep, LoadedStep, CallStep DEF IInv
  <1> QED
    BY <1>1, <1>2, PTL DEF Spec

(* Type correctness needs neither assumption about the environment.        *)
THEOREM TypeCorrect == Spec => []TypeOK
  <1>1. Init => TypeOK
    BY InitIInv DEF IInv
  <1> QED
    BY <1>1, TypeStep, PTL DEF Spec

(* For every number of tabs and areas a ready tab's baseline is the raw    *)
(* its live value comes from: freshness checks compare with the right      *)
(* string.                                                                 *)
THEOREM BaselineCorrect ==
  ASSUME Exclusive, QuietBoot
  PROVE  Spec => []BaselineIsKnown
  <1>1. IInv => BaselineIsKnown
    BY DEF IInv
  <1> QED
    BY <1>1, Inductive, PTL

(* No autosave of any tab ever replaces a value its user has not seen in   *)
(* that tab, for every number of tabs, areas, values and pending events.   *)
THEOREM OverwritesAreKnown ==
  ASSUME Exclusive, QuietBoot
  PROVE  Spec => NoSilentOverwrite
  <1>1. IInv => \A t \in Tab, a \in Area :
                  call[t] = Access(a, "save") => storage[a] = known[t][a]
    <2> SUFFICES ASSUME IInv, NEW t \in Tab, NEW a \in Area, call[t] = Access(a, "save")
                 PROVE  storage[a] = known[t][a]
      OBVIOUS
    <2>1. Access(a, "save") # Idle /\ Access(a, "save").area = a
      BY CrossTabAssumption DEF Access
    <2> QED
      BY <2>1 DEF IInv, CallIsFresh
  <1>2. IInv /\ [Next]_vars =>
          [\A t \in Tab, a \in Area :
             call[t] = Access(a, "save") /\ call'[t] = Idle /\ storage'[a] # storage[a]
               => storage[a] = known[t][a]]_vars
    BY <1>1
  <1> QED
    BY <1>2, Inductive, PTL DEF Spec, NoSilentOverwrite
-----------------------------------------------------------------------------
(* What keeps an unreadable stored value from being replaced.              *)

(* A tab that shows the default for an unreadable value keeps the autosave *)
(* of the area away.                                                       *)
UnreadableBlocks ==
  \A t \in Tab, a \in Area :
    phase[t] # "closed" /\ known[t][a] = Unreadable => a \in blocked[t]

(* A persist in progress was started over a value its tab can read.        *)
CallIsReadable ==
  \A t \in Tab : call[t] # Idle => known[t][call[t].area] # Unreadable

(* The Undo of a Keep waits for the very values the Keep saved.            *)
UndoIsOfSaved ==
  \A t \in Tab : undo[t] # NoUndo =>
    \A a \in DOMAIN undo[t].pre : undo[t].post[a] \in Saved

(* Every tab has a slot for the Undo of its own.                           *)
UndoPerTab == undo = [t \in Tab |-> undo[t]]

KeptInv == UndoPerTab /\ UnreadableBlocks /\ CallIsReadable /\ UndoIsOfSaved

LEMMA UnreadableIsNotSaved ==
  Unreadable \notin Saved /\ Unreadable # NoRaw
  <1>1. NoRaw # Unreadable
    <2>1. SUFFICES ASSUME NoRaw = Unreadable PROVE FALSE
      OBVIOUS
    <2>2. {NoRaw, Unreadable, NoConflict} = {NoConflict} \cup {Unreadable}
      BY <2>1
    <2>3. IsFiniteSet({NoConflict}) /\ Cardinality({NoConflict}) = 1
      BY FS_Singleton
    <2>4. \/ Cardinality({NoConflict} \cup {Unreadable}) = Cardinality({NoConflict})
          \/ Cardinality({NoConflict} \cup {Unreadable}) = Cardinality({NoConflict}) + 1
      BY <2>3, FS_AddElement
    <2> QED
      BY <2>2, <2>3, <2>4, CrossTabAssumption
  <1> QED
    BY <1>1, CrossTabAssumption DEF Saved

LEMMA NewDocumentKeeps ==
  ASSUME TypeOK, KeptInv, NEW t \in Tab, NEW st \in [Area -> RawOrNull], NewDocument(t, st)
  PROVE  KeptInv'
  <1> USE DEF TypeOK, KeptInv, NewDocument, NewControllers
  <1>1. UnreadableBlocks'
    BY DEF UnreadableBlocks
  <1>2. CallIsReadable'
    BY DEF CallIsReadable
  <1>3. UndoIsOfSaved'
    BY DEF UndoIsOfSaved, UndoPerTab
  <1>4. UndoPerTab'
    BY DEF UndoPerTab
  <1> QED
    BY <1>1, <1>2, <1>3, <1>4

LEMMA KeptStep ==
  ASSUME IInv, KeptInv, [Next]_vars PROVE KeptInv'
  <1> USE CrossTabAssumption, UnreadableIsNotSaved
      DEF IInv, KeptInv, UndoPerTab, UnreadableBlocks, CallIsReadable, UndoIsOfSaved, TypeOK, Free
  <1>1. ASSUME NEW t \in Tab, Open(t) PROVE KeptInv'
    BY <1>1, NewDocumentKeeps DEF Open
  <1>2. ASSUME NEW t \in Tab, BootstrapReady(t) PROVE KeptInv'
    BY <1>2 DEF BootstrapReady
  <1>3. ASSUME NEW t \in Tab, Close(t) PROVE KeptInv'
    BY <1>3 DEF Close, NewControllers
  <1>4. ASSUME NEW t \in Tab, NEW a \in Area, NEW v \in Value, Edit(t, a, v) PROVE KeptInv'
    BY <1>4 DEF Edit
  <1>5. ASSUME NEW t \in Tab, NEW a \in Area, EffectReturns(t, a) PROVE KeptInv'
    BY <1>5 DEF EffectReturns
  <1>6. ASSUME NEW t \in Tab, NEW a \in Area, CheckFreshness(t, a) PROVE KeptInv'
    <2>1. UnreadableBlocks' /\ UndoIsOfSaved' /\ UndoPerTab'
      BY <1>6 DEF CheckFreshness
    <2>2. CASE UNCHANGED call
      <3>1. CallIsReadable'
        BY <1>6, <2>2 DEF CheckFreshness
      <3> QED
        BY <2>1, <3>1
    <2>3. CASE call' = [call EXCEPT ![t] = Access(a, "load")] /\ Fresh(t, a)
      <3>1. known[t][a] # Unreadable
        BY <1>6, <2>3 DEF CheckFreshness, EffectRuns, Suspended, BaselineIsKnown, Fresh
      <3>2. CallIsReadable'
        BY <1>6, <2>3, <3>1 DEF CheckFreshness, Access
      <3> QED
        BY <2>1, <3>2
    <2> QED
      BY <1>6, <2>2, <2>3 DEF CheckFreshness
  <1>7. ASSUME NEW t \in Tab, NEW a \in Area, LoadForCompare(t, a) PROVE KeptInv'
    BY <1>7 DEF LoadForCompare, Access, Call
  <1>8. ASSUME NEW t \in Tab, NEW a \in Area, AdoptCurrentRaw(t, a) PROVE KeptInv'
    BY <1>8 DEF AdoptCurrentRaw, Holds
  <1>9. ASSUME NEW t \in Tab, NEW a \in Area, Save(t, a) PROVE KeptInv'
    BY <1>9 DEF Save, Saved
  <1>10. ASSUME NEW t \in Tab, PersistThrows(t) PROVE KeptInv'
    BY <1>10 DEF PersistThrows
  <1>11. ASSUME NEW t \in Tab, NEW a \in Area, NEW raw \in RawOrNull,
                HandleStorageChange(t, a, raw)
         PROVE  KeptInv'
    BY <1>11 DEF HandleStorageChange
  <1>12. ASSUME NEW a \in Area, ForeignWrite(a) PROVE KeptInv'
    BY <1>12 DEF ForeignWrite
  <1>13. ASSUME NEW t \in Tab, NEW ids \in SUBSET Area, RefreshReview(t, ids) PROVE KeptInv'
    BY <1>13 DEF RefreshReview
  <1>14. ASSUME NEW t \in Tab, NEW ids \in SUBSET Area, UseSavedData(t, ids) PROVE KeptInv'
    BY <1>14, NewDocumentKeeps DEF UseSavedData
  <1>15. ASSUME NEW t \in Tab, NEW ids \in SUBSET Area, KeepCurrent(t, ids) PROVE KeptInv'
    <2>1. PICK at \in Stamp :
            LET post == Kept(t, ids, at)
            IN  /\ known' = [known EXCEPT ![t] =
                               [a \in Area |-> IF a \in ids THEN post[a] ELSE @[a]]]
                /\ Offer(t, [pre |-> [a \in ids |-> storage[a]],
                             post |-> [a \in ids |-> post[a]]])
      BY <1>15 DEF KeepCurrent
    <2>2. ASSUME NEW a \in ids PROVE Kept(t, ids, at)[a] \in Saved
      BY DEF Kept, Saved
    <2>3. UnreadableBlocks'
      <3>1. ASSUME NEW u \in Tab, NEW a \in Area, phase'[u] # "closed", known'[u][a] = Unreadable
            PROVE  a \in blocked'[u]
        <4>1. phase[u] # "closed" /\ blocked' = [blocked EXCEPT ![t] = @ \ ids]
          BY <1>15, <3>1 DEF KeepCurrent
        <4>2. known[u][a] = Unreadable /\ (u = t => a \notin ids)
          BY <2>1, <2>2, <3>1
        <4> QED
          BY <4>1, <4>2
      <3> QED
        BY <3>1
    <2>4. CallIsReadable'
      <3>1. call' = call /\ call[t] = Idle
        BY <1>15 DEF KeepCurrent
      <3>2. \A u \in Tab \ {t} : known'[u] = known[u]
        BY <2>1
      <3> QED
        BY <3>1, <3>2
    <2>5. UndoIsOfSaved'
      <3>1. \A u \in Tab \ {t} : undo'[u] = undo[u]
        BY <2>1 DEF Offer
      <3>2. \/ undo'[t] = NoUndo
            \/ undo'[t] = [pre |-> [a \in ids |-> storage[a]],
                           post |-> [a \in ids |-> Kept(t, ids, at)[a]]]
        BY <2>1 DEF Offer
      <3>3. ASSUME undo'[t] # NoUndo, NEW a \in DOMAIN undo'[t].pre
            PROVE  undo'[t].post[a] \in Saved
        <4>1. a \in ids /\ undo'[t].post[a] = Kept(t, ids, at)[a]
          BY <3>2, <3>3
        <4> QED
          BY <2>2, <4>1
      <3>4. ASSUME NEW u \in Tab \ {t}, undo'[u] # NoUndo, NEW a \in DOMAIN undo'[u].pre
            PROVE  undo'[u].post[a] \in Saved
        BY <3>1, <3>4
      <3> QED
        BY <3>3, <3>4
    <2>6. UndoPerTab'
      BY <2>1 DEF Offer
    <2> QED
      BY <2>3, <2>4, <2>5, <2>6
  <1>16. ASSUME NEW t \in Tab, NEW ids \in SUBSET Area, KeepFails(t, ids) PROVE KeptInv'
    BY <1>16 DEF KeepFails, BatchFails
  <1>17. ASSUME NEW t \in Tab, UndoKeep(t) PROVE KeptInv'
    <2> DEFINE restored == [a \in Area |->
                 IF a \in DOMAIN undo[t].pre THEN undo[t].pre[a] ELSE storage[a]]
    <2>1. NewDocument(t, restored)
      BY <1>17 DEF UndoKeep
    <2>2. restored \in [Area -> RawOrNull]
      BY <1>17, UndoType DEF UndoKeep, MayUndo
    <2> QED
      BY <2>1, <2>2, NewDocumentKeeps
  <1>18. ASSUME NEW t \in Tab, UndoKeepFails(t) PROVE KeptInv'
    BY <1>18 DEF UndoKeepFails, BatchFails
  <1>21. ASSUME NEW t \in Tab, UndoGone(t) PROVE KeptInv'
    BY <1>21 DEF UndoGone
  <1>19. ASSUME NEW t \in Tab, NEW a \in Area, ConfirmClear(t, a) PROVE KeptInv'
    BY <1>19 DEF ConfirmClear
  <1>20. CASE UNCHANGED vars
    BY <1>20 DEF vars
  <1> QED
    BY <1>1, <1>2, <1>3, <1>4, <1>5, <1>6, <1>7, <1>8, <1>9, <1>10, <1>11, <1>12, <1>13, <1>14,
       <1>15, <1>16, <1>17, <1>18, <1>19, <1>20, <1>21
    DEF Next, User, Resolve, Effect

(* Whatever step replaces an unreadable value is a clear of it.            *)
LEMMA OnlyClearsReplace ==
  ASSUME IInv, KeptInv, [Next]_vars, NEW a \in Area,
         storage[a] = Unreadable, storage'[a] # Unreadable
  PROVE  storage'[a] = NoRaw /\ \E t \in Tab : ConfirmClear(t, a)
  <1> USE CrossTabAssumption, UnreadableIsNotSaved DEF IInv, TypeOK
  <1>1. ASSUME NEW t \in Tab, NEW b \in Area, Save(t, b) PROVE storage'[a] = Unreadable
    <2>1. storage[b] # Unreadable
      <3>1. call[t] # Idle /\ call[t].area = b
        BY <1>1 DEF Save, Access
      <3> QED
        BY <3>1 DEF CallIsFresh, KeptInv, CallIsReadable
    <2> QED
      BY <1>1, <2>1 DEF Save
  <1>2. ASSUME NEW t \in Tab, NEW ids \in SUBSET Area, KeepCurrent(t, ids)
        PROVE  storage'[a] = Unreadable
    BY <1>2 DEF KeepCurrent, Kept, ReviewReady
  <1>3. ASSUME NEW t \in Tab, NEW ids \in SUBSET Area, KeepFails(t, ids)
        PROVE  storage'[a] = Unreadable
    <2>1. PICK at \in Stamp : BatchFails(t, [b \in ids |-> Kept(t, ids, at)[b]])
      BY <1>3 DEF KeepFails
    <2>2. a \notin ids
      BY <1>3 DEF KeepFails, ReviewReady
    <2> QED
      BY <2>1, <2>2 DEF BatchFails
  <1>4. ASSUME NEW t \in Tab, UndoKeep(t) \/ UndoKeepFails(t) PROVE storage'[a] = Unreadable
    <2>1. MayUndo(t)
      BY <1>4 DEF UndoKeep, UndoKeepFails
    <2>2. a \notin DOMAIN undo[t].pre
      BY <2>1, UndoType DEF MayUndo, KeptInv, UndoIsOfSaved
    <2>3. CASE UndoKeep(t)
      BY <2>2, <2>3 DEF UndoKeep
    <2>4. CASE UndoKeepFails(t)
      BY <2>2, <2>4 DEF UndoKeepFails, BatchFails
    <2> QED
      BY <1>4, <2>3, <2>4
  <1>5. ASSUME NEW t \in Tab, NEW b \in Area, ConfirmClear(t, b)
        PROVE  storage'[a] = Unreadable \/ (b = a /\ storage'[a] = NoRaw)
    BY <1>5 DEF ConfirmClear
  <1>6. ASSUME NEW b \in Area, ForeignWrite(b) PROVE storage'[a] = Unreadable
    BY <1>6 DEF ForeignWrite
  <1>7. ASSUME NEW t \in Tab,
               \/ Open(t) \/ Close(t) \/ UndoGone(t) \/ BootstrapReady(t) \/ PersistThrows(t)
               \/ \E ids \in SUBSET Area : RefreshReview(t, ids) \/ UseSavedData(t, ids)
        PROVE  storage'[a] = Unreadable
    BY <1>7 DEF Open, Close, UndoGone, BootstrapReady, PersistThrows, RefreshReview,
       UseSavedData
  <1>8. ASSUME NEW t \in Tab, NEW b \in Area,
               \/ EffectReturns(t, b) \/ CheckFreshness(t, b) \/ LoadForCompare(t, b)
               \/ AdoptCurrentRaw(t, b) \/ \E v \in Value : Edit(t, b, v)
               \/ \E raw \in RawOrNull : HandleStorageChange(t, b, raw)
        PROVE  storage'[a] = Unreadable
    BY <1>8 DEF EffectReturns, CheckFreshness, LoadForCompare, AdoptCurrentRaw, Edit,
       HandleStorageChange
  <1>9. CASE UNCHANGED vars
    BY <1>9 DEF vars
  <1> QED
    BY <1>1, <1>2, <1>3, <1>4, <1>5, <1>6, <1>7, <1>8, <1>9 DEF Next, User, Resolve, Effect

(* A stored value this version cannot read is removed by an explicit clear *)
(* only, for every number of tabs, areas, values and Undos.                *)
THEOREM UnreadableStays ==
  ASSUME Exclusive, QuietBoot
  PROVE  Spec => UnreadableIsKept
  <1>1. Init => KeptInv
    BY CrossTabAssumption
    DEF Init, KeptInv, UndoPerTab, UnreadableBlocks, CallIsReadable, UndoIsOfSaved
  <1>2. IInv /\ KeptInv /\ [Next]_vars => KeptInv'
    BY KeptStep
  <1>3. IInv /\ KeptInv /\ [Next]_vars =>
          [\A a \in Area :
             storage[a] = Unreadable /\ storage'[a] # Unreadable
               => storage'[a] = NoRaw /\ \E t \in Tab : ConfirmClear(t, a)]_vars
    BY OnlyClearsReplace
  <1> QED
    BY <1>1, <1>2, <1>3, Inductive, PTL DEF Spec, UnreadableIsKept
=============================================================================
