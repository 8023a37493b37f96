------------------------- MODULE SetupChangesProofs -------------------------
(***************************************************************************)
(* Proofs about SetupChanges for every set of collections.  The three      *)
(* properties are about steps; what makes them true is what the state      *)
(* remembers: that the button is for the last change, that a value this    *)
(* tab does not know still keeps the autosave away, and that a skip token  *)
(* is used up by the effect that is due.                                   *)
(***************************************************************************)
EXTENDS SetupChanges, TLAPS

RequestsChange == request # NoRequest => request.current # request.next

RecordsChange ==
  record # NoRecord =>
    record.prior # record.next /\ (record.mode = "durable" => record.after \in Value)

(* An Undo on offer is the one of the last change of the collection.       *)
ButtonIsForLast ==
  button.does \in {"undo", "offer"} =>
    record # NoRecord /\ last = [kind |-> "change", from |-> record.prior]

(* What no save, merge or Undo finds fresh.                                *)
UnknownHolds ==
  foreign /\ ~released =>
    conflict \/ storage # baseline \/ (blocked /\ storage = Unreadable)

SkipIsForDue ==
  skip /\ token # NoRaw /\ ~Suspended =>
    due /\ (live = token \/ baseline = live \/ last.kind = "import")

IInv ==
  /\ TypeOK /\ RequestsChange /\ RecordsChange
  /\ ButtonIsForLast /\ UnknownHolds /\ SkipIsForDue

-----------------------------------------------------------------------------
LEMMA InitInv == ASSUME SetupAssumption, Init PROVE IInv
<1> USE DEF Init, SetupAssumption
<1>1. storage \in RawOrNull /\ live \in Value /\ button \in Button
  BY DEF RawOrNull, Loaded, NoButton, Button
<1>2. last \in [kind : {"load", "edit", "import", "change", "undone"}, from : Value]
  BY <1>1
<1>3. TypeOK
  BY <1>1, <1>2 DEF TypeOK
<1>4. RequestsChange /\ RecordsChange /\ ButtonIsForLast /\ SkipIsForDue
  BY DEF RequestsChange, RecordsChange, ButtonIsForLast, SkipIsForDue, NoButton
<1>5. UnknownHolds
  BY DEF UnknownHolds
<1> QED BY <1>3, <1>4, <1>5 DEF IInv

(* What a handler may leave: the parts of the state that it changes keep   *)
(* their types.                                                            *)
LEMMA TypesOfParts ==
  ASSUME TypeOK,
         storage' \in RawOrNull, baseline' \in RawOrNull, events' \subseteq RawOrNull,
         live' \in Value, token' \in Value \cup {NoRaw},
         due' \in BOOLEAN, conflict' \in BOOLEAN, blocked' \in BOOLEAN, skip' \in BOOLEAN,
         foreign' \in BOOLEAN, released' \in BOOLEAN,
         request' \in Request \cup {NoRequest}, record' \in Record \cup {NoRecord},
         button' \in Button,
         last' \in [kind : {"load", "edit", "import", "change", "undone"}, from : Value]
  PROVE  TypeOK'
BY DEF TypeOK

(* The types one by one, for the provers.                                  *)
LEMMA Types ==
  ASSUME TypeOK
  PROVE  /\ storage \in RawOrNull /\ baseline \in RawOrNull /\ events \subseteq RawOrNull
         /\ live \in Value /\ token \in Value \cup {NoRaw}
         /\ due \in BOOLEAN /\ conflict \in BOOLEAN /\ blocked \in BOOLEAN
         /\ skip \in BOOLEAN /\ foreign \in BOOLEAN /\ released \in BOOLEAN
         /\ request \in Request \cup {NoRequest} /\ record \in Record \cup {NoRecord}
         /\ button \in Button
         /\ last \in [kind : {"load", "edit", "import", "change", "undone"}, from : Value]
BY DEF TypeOK

LEMMA AutosaveReturnsInv ==
  ASSUME SetupAssumption, IInv, AutosaveReturns PROVE IInv'
<1> USE DEF IInv, AutosaveReturns, SkipLeft, area, undoing, seen
<1>1. TypeOK'
  BY Types, TypesOfParts DEF Suspended
<1>2. RequestsChange' /\ RecordsChange' /\ ButtonIsForLast' /\ UnknownHolds'
  BY DEF RequestsChange, RecordsChange, ButtonIsForLast, UnknownHolds
<1>3. SkipIsForDue'
  BY DEF SkipIsForDue, Suspended
<1> QED BY <1>1, <1>2, <1>3

LEMMA AutosaveInv ==
  ASSUME SetupAssumption, IInv, Autosave PROVE IInv'
<1> USE DEF IInv, Autosave, undoing
<1>1. /\ baseline' \in RawOrNull /\ storage' \in RawOrNull /\ conflict' \in BOOLEAN
      /\ foreign' \in BOOLEAN /\ released' \in BOOLEAN /\ due' \in BOOLEAN
  BY Types DEF Persist, Writes, WritesNothing, KeepsReleased, EffectDue, RawOrNull
<1>2. TypeOK'
  BY <1>1, Types, TypesOfParts
<1>3. RequestsChange' /\ RecordsChange' /\ ButtonIsForLast' /\ SkipIsForDue'
  BY DEF RequestsChange, RecordsChange, ButtonIsForLast, SkipIsForDue
<1>4. UnknownHolds'
  BY DEF UnknownHolds, Persist, Writes, WritesNothing, KeepsReleased, Fresh, Suspended
<1> QED BY <1>2, <1>3, <1>4

LEMMA ReloadInv ==
  ASSUME SetupAssumption, IInv, Reload PROVE IInv'
<1> USE DEF IInv, Reload
<1>1. TypeOK'
  <2>1. /\ live' \in Value /\ storage' \in RawOrNull /\ button' \in Button
    BY Types DEF SetupAssumption, Loaded, RawOrNull, NoButton, Button
  <2> QED BY <2>1, Types, TypesOfParts
<1>2. RequestsChange' /\ RecordsChange'
  BY DEF RequestsChange, RecordsChange
<1>3. ButtonIsForLast'
  BY DEF ButtonIsForLast, NoButton
<1>4. UnknownHolds'
  BY DEF UnknownHolds
<1>5. SkipIsForDue'
  BY DEF SkipIsForDue
<1> QED BY <1>1, <1>2, <1>3, <1>4, <1>5

LEMMA OtherTabWritesInv ==
  ASSUME SetupAssumption, IInv, NEW raw \in RawOrNull, OtherTabWrites(raw) PROVE IInv'
<1> USE DEF IInv, OtherTabWrites, area, undoing
<1>1. TypeOK'
  BY Types, TypesOfParts
<1>2. RequestsChange' /\ RecordsChange'
  BY DEF RequestsChange, RecordsChange
<1>3. ButtonIsForLast'
  BY DEF ButtonIsForLast
<1>4. UnknownHolds'
  BY DEF UnknownHolds
<1>5. SkipIsForDue'
  BY DEF SkipIsForDue, Suspended
<1> QED BY <1>1, <1>2, <1>3, <1>4, <1>5

LEMMA EventArrivesInv ==
  ASSUME SetupAssumption, IInv, NEW raw \in RawOrNull, EventArrives(raw) PROVE IInv'
<1> USE DEF IInv, EventArrives, undoing, seen
<1>1. TypeOK'
  <2>1. /\ due' \in BOOLEAN /\ conflict' \in BOOLEAN /\ events' \subseteq RawOrNull
    BY Types DEF EffectDue
  <2> QED BY <2>1, Types, TypesOfParts
<1>2. RequestsChange' /\ RecordsChange'
  BY DEF RequestsChange, RecordsChange
<1>3. ButtonIsForLast'
  BY DEF ButtonIsForLast
<1>4. UnknownHolds'
  BY DEF UnknownHolds
<1>5. SkipIsForDue'
  BY DEF SkipIsForDue, Suspended, Handles
<1> QED BY <1>1, <1>2, <1>3, <1>4, <1>5

LEMMA KeepCurrentInv ==
  ASSUME SetupAssumption, IInv, KeepCurrent PROVE IInv'
<1> USE DEF IInv, KeepCurrent
<1>1. TypeOK'
  <2>1. /\ storage' \in RawOrNull /\ baseline' \in RawOrNull
        /\ foreign' = FALSE /\ released' = FALSE
        /\ due' \in BOOLEAN /\ button' \in Button
    BY Types DEF Writes, KeepsReleased, EffectDue, RawOrNull, NoButton, Button, SetupAssumption
  <2> QED BY <2>1, Types, TypesOfParts
<1>2. RequestsChange' /\ RecordsChange'
  BY DEF RequestsChange, RecordsChange
<1>3. ButtonIsForLast'
  BY DEF ButtonIsForLast, NoButton
<1>4. UnknownHolds'
  BY DEF UnknownHolds, Writes
<1>5. SkipIsForDue'
  BY DEF SkipIsForDue, Suspended, EffectDue
<1> QED BY <1>1, <1>2, <1>3, <1>4, <1>5

LEMMA ConfirmClearInv ==
  ASSUME SetupAssumption, IInv, ConfirmClear PROVE IInv'
<1> USE DEF IInv, ConfirmClear, undoing
<1>1. TypeOK'
  <2>1. /\ storage' \in RawOrNull /\ baseline' \in RawOrNull
        /\ foreign' = FALSE /\ released' = FALSE
        /\ due' \in BOOLEAN
    BY Types DEF Writes, KeepsReleased, EffectDue, RawOrNull
  <2> QED BY <2>1, Types, TypesOfParts
<1>2. RequestsChange' /\ RecordsChange'
  BY DEF RequestsChange, RecordsChange
<1>3. ButtonIsForLast'
  BY DEF ButtonIsForLast
<1>4. UnknownHolds'
  BY DEF UnknownHolds, Writes
<1>5. SkipIsForDue'
  BY DEF SkipIsForDue
<1> QED BY <1>1, <1>2, <1>3, <1>4, <1>5

LEMMA ButtonTakenInv ==
  ASSUME SetupAssumption, IInv, ButtonTaken PROVE IInv'
<1> USE DEF IInv, ButtonTaken, area, seen
<1>1. TypeOK'
  <2>1. button' \in Button
    BY Types DEF NoButton, Button, SetupAssumption
  <2> QED BY <2>1, Types, TypesOfParts
<1>2. RequestsChange' /\ RecordsChange'
  BY DEF RequestsChange, RecordsChange
<1>3. ButtonIsForLast'
  BY DEF ButtonIsForLast, NoButton
<1>4. UnknownHolds'
  BY DEF UnknownHolds
<1>5. SkipIsForDue'
  BY DEF SkipIsForDue, Suspended
<1> QED BY <1>1, <1>2, <1>3, <1>4, <1>5

LEMMA DropRequestInv ==
  ASSUME SetupAssumption, IInv, DropRequest PROVE IInv'
<1> USE DEF IInv, DropRequest, area, seen
<1>1. TypeOK'
  BY Types, TypesOfParts
<1>2. RequestsChange' /\ RecordsChange'
  BY DEF RequestsChange, RecordsChange
<1>3. ButtonIsForLast'
  BY DEF ButtonIsForLast
<1>4. UnknownHolds'
  BY DEF UnknownHolds
<1>5. SkipIsForDue'
  BY DEF SkipIsForDue, Suspended
<1> QED BY <1>1, <1>2, <1>3, <1>4, <1>5

LEMMA SaveSetupInv ==
  ASSUME SetupAssumption, IInv, NEW v \in Value, SaveSetup(v) PROVE IInv'
<1> USE DEF IInv, SaveSetup, Edits, InvalidateSavedSetupUndo, NoUndoOrRequest, area, seen
<1>1. TypeOK'
  <2>1. /\ due' \in BOOLEAN /\ button' \in Button
        /\ request' = NoRequest /\ record' = NoRecord
        /\ last' \in [kind : {"load", "edit", "import", "change", "undone"}, from : Value]
    BY Types DEF NoButton, Button, SetupAssumption, EffectDue
  <2> QED BY <2>1, Types, TypesOfParts
<1>2. RequestsChange' /\ RecordsChange'
  BY DEF RequestsChange, RecordsChange
<1>3. ButtonIsForLast'
  BY DEF ButtonIsForLast, NoButton
<1>4. UnknownHolds'
  BY DEF UnknownHolds
<1>5. SkipIsForDue'
  BY DEF SkipIsForDue, Suspended, Handles
<1> QED BY <1>1, <1>2, <1>3, <1>4, <1>5

LEMMA DeleteSetupInv ==
  ASSUME SetupAssumption, IInv, NEW v \in Value, DeleteSetup(v) PROVE IInv'
<1> USE DEF IInv, DeleteSetup, Edits, NoUndoOrRequest, area, seen
<1>1. TypeOK'
  <2>1. /\ due' \in BOOLEAN /\ button' \in Button
        /\ request' = NoRequest /\ record' = NoRecord
        /\ last' \in [kind : {"load", "edit", "import", "change", "undone"}, from : Value]
    BY Types DEF Button, EffectDue
  <2> QED BY <2>1, Types, TypesOfParts
<1>2. RequestsChange' /\ RecordsChange'
  BY DEF RequestsChange, RecordsChange
<1>3. ButtonIsForLast'
  BY DEF ButtonIsForLast
<1>4. UnknownHolds'
  BY DEF UnknownHolds
<1>5. SkipIsForDue'
  BY DEF SkipIsForDue, Suspended, Handles
<1> QED BY <1>1, <1>2, <1>3, <1>4, <1>5

LEMMA UndoDeleteInv ==
  ASSUME SetupAssumption, IInv, UndoDelete PROVE IInv'
<1> USE DEF IInv, UndoDelete, Edits, area, seen
<1>1. TypeOK'
  <2>1. /\ live' \in Value /\ due' \in BOOLEAN /\ button' \in Button
        /\ last' \in [kind : {"load", "edit", "import", "change", "undone"}, from : Value]
    BY Types DEF NoButton, Button, SetupAssumption, EffectDue
  <2> QED BY <2>1, Types, TypesOfParts
<1>2. RequestsChange' /\ RecordsChange'
  BY DEF RequestsChange, RecordsChange
<1>3. ButtonIsForLast'
  BY DEF ButtonIsForLast, NoButton
<1>4. UnknownHolds'
  BY DEF UnknownHolds
<1>5. SkipIsForDue'
  BY DEF SkipIsForDue, Suspended, Handles
<1> QED BY <1>1, <1>2, <1>3, <1>4, <1>5

LEMMA LegacyMigrationInv ==
  ASSUME SetupAssumption, IInv, NEW v \in Value, LegacyMigration(v) PROVE IInv'
<1> USE DEF IInv, LegacyMigration, Edits, InvalidateSavedSetupUndo, NoUndoOrRequest
<1>1. TypeOK'
  <2>1. /\ due' \in BOOLEAN /\ button' \in Button
        /\ request' = NoRequest /\ record' = NoRecord
        /\ last' \in [kind : {"load", "edit", "import", "change", "undone"}, from : Value]
        /\ storage' \in RawOrNull /\ baseline' \in RawOrNull /\ conflict' \in BOOLEAN
        /\ foreign' \in BOOLEAN /\ released' \in BOOLEAN
    BY Types DEF Persist, Writes, WritesNothing, ReleasesStored, Suspended, NoButton, Button,
           SetupAssumption, RawOrNull, EffectDue
  <2> QED BY <2>1, Types, TypesOfParts
<1>2. RequestsChange' /\ RecordsChange'
  BY DEF RequestsChange, RecordsChange
<1>3. ButtonIsForLast'
  BY DEF ButtonIsForLast, NoButton
<1>4. UnknownHolds'
  BY DEF UnknownHolds, ReleasesStored, Suspended
<1>5. SkipIsForDue'
  BY DEF SkipIsForDue, Suspended, Handles, EffectDue
<1> QED BY <1>1, <1>2, <1>3, <1>4, <1>5

LEMMA ApplyDurableInv ==
  ASSUME SetupAssumption, IInv, NEW v \in Value, ApplyDurable(v) PROVE IInv'
<1> USE DEF IInv, ApplyDurable, BecomesLive, SkipsOnce, Registers
<1>1. TypeOK'
  <2>1. /\ due' \in BOOLEAN /\ button' \in Button /\ record' \in Record
        /\ storage' \in RawOrNull /\ baseline' \in RawOrNull
        /\ foreign' \in BOOLEAN /\ released' \in BOOLEAN
        /\ last' \in [kind : {"load", "edit", "import", "change", "undone"}, from : Value]
    BY Types DEF Writes, KeepsReleased, Button, Record, SetupAssumption, RawOrNull, EffectDue
  <2> QED BY <2>1, Types, TypesOfParts
<1>2. RequestsChange' /\ RecordsChange'
  BY DEF RequestsChange, RecordsChange
<1>3. ButtonIsForLast'
  <2>1. record' \in Record
    BY Types DEF Record, RawOrNull, SetupAssumption
  <2> QED BY <2>1 DEF ButtonIsForLast, SetupAssumption
<1>4. UnknownHolds'
  BY DEF UnknownHolds, Writes
<1>5. SkipIsForDue'
  BY DEF SkipIsForDue, EffectDue
<1> QED BY <1>1, <1>2, <1>3, <1>4, <1>5

LEMMA ApplyRefusedInv ==
  ASSUME SetupAssumption, IInv, NEW v \in Value, ApplyRefused(v) PROVE IInv'
<1> USE DEF IInv, ApplyRefused, seen
<1>1. TypeOK'
  <2>1. /\ due' \in BOOLEAN /\ conflict' \in BOOLEAN /\ request' \in Request
        /\ skip' \in BOOLEAN
    BY Types DEF Request, EffectDue, WriteTakenBack
  <2> QED BY <2>1, Types, TypesOfParts
<1>2. RequestsChange' /\ RecordsChange'
  BY Types DEF RequestsChange, RecordsChange, Request
<1>3. ButtonIsForLast'
  BY DEF ButtonIsForLast
<1>4. UnknownHolds'
  BY DEF UnknownHolds
<1>5. SkipIsForDue'
  BY DEF SkipIsForDue, Suspended, Handles, WriteTakenBack
<1> QED BY <1>1, <1>2, <1>3, <1>4, <1>5

LEMMA ApplyTornInv ==
  ASSUME SetupAssumption, IInv, NEW v \in Value, ApplyTorn(v) PROVE IInv'
<1> USE DEF IInv, ApplyTorn, Torn
<1>1. TypeOK'
  <2>1. /\ due' \in BOOLEAN /\ storage' \in RawOrNull
        /\ foreign' \in BOOLEAN /\ released' \in BOOLEAN
    BY Types DEF WritesNothing, KeepsReleased, RawOrNull, EffectDue
  <2> QED BY <2>1, Types, TypesOfParts
<1>2. RequestsChange' /\ RecordsChange'
  BY DEF RequestsChange, RecordsChange
<1>3. ButtonIsForLast'
  BY DEF ButtonIsForLast
<1>4. UnknownHolds'
  BY DEF UnknownHolds, WritesNothing, KeepsReleased
<1>5. SkipIsForDue'
  BY DEF SkipIsForDue
<1> QED BY <1>1, <1>2, <1>3, <1>4, <1>5

LEMMA ApplyForSessionInv ==
  ASSUME SetupAssumption, IInv, ApplyForSession PROVE IInv'
<1> USE DEF IInv, ApplyForSession, BecomesLive, SkipsOnce, Registers
<1>1. TypeOK'
  <2>1. /\ due' \in BOOLEAN /\ button' \in Button /\ record' \in Record
        /\ live' \in Value /\ token' \in Value /\ released' \in BOOLEAN
        /\ last' \in [kind : {"load", "edit", "import", "change", "undone"}, from : Value]
    BY Types DEF Button, Request, Record, RawOrNull, SetupAssumption, ReleasesStored, Suspended, EffectDue
  <2> QED BY <2>1, Types, TypesOfParts
<1>2. RequestsChange' /\ RecordsChange'
  BY Types DEF RequestsChange, RecordsChange, Request, Record
<1>3. ButtonIsForLast'
  <2>1. record' \in Record
    BY Types DEF Request, Record, RawOrNull, SetupAssumption
  <2> QED BY <2>1 DEF ButtonIsForLast, SetupAssumption
<1>4. UnknownHolds'
  BY DEF UnknownHolds, ReleasesStored, Suspended
<1>5. SkipIsForDue'
  BY DEF SkipIsForDue, EffectDue, RequestsChange
<1> QED BY <1>1, <1>2, <1>3, <1>4, <1>5

LEMMA UndoStaleInv ==
  ASSUME SetupAssumption, IInv, UndoStale PROVE IInv'
<1> USE DEF IInv, UndoStale, Undoes, area, seen
<1>1. TypeOK'
  <2>1. button' \in Button
    BY Types DEF NoButton, Button, SetupAssumption
  <2> QED BY <2>1, Types, TypesOfParts
<1>2. RequestsChange' /\ RecordsChange'
  BY DEF RequestsChange, RecordsChange
<1>3. ButtonIsForLast'
  BY DEF ButtonIsForLast, NoButton
<1>4. UnknownHolds'
  BY DEF UnknownHolds
<1>5. SkipIsForDue'
  BY DEF SkipIsForDue, Suspended, Handles
<1> QED BY <1>1, <1>2, <1>3, <1>4, <1>5

LEMMA UndoRefusedInv ==
  ASSUME SetupAssumption, IInv, UndoRefused PROVE IInv'
<1> USE DEF IInv, UndoRefused, Undoes, seen
<1>1. TypeOK'
  <2>1. /\ due' \in BOOLEAN /\ conflict' \in BOOLEAN /\ skip' \in BOOLEAN
        /\ button' \in Button /\ record' \in Record
    BY Types DEF ButtonIsForLast, EffectDue, Button, Record, WriteTakenBack
  <2> QED BY <2>1, Types, TypesOfParts
<1>2. RequestsChange' /\ RecordsChange'
  BY Types DEF RequestsChange, RecordsChange, ButtonIsForLast, Record, SetupAssumption
<1>3. ButtonIsForLast'
  BY Types DEF ButtonIsForLast, RecordsChange, Record, SetupAssumption, Button
<1>4. UnknownHolds'
  BY DEF UnknownHolds
<1>5. SkipIsForDue'
  BY DEF SkipIsForDue, Suspended, Handles, WriteTakenBack
<1> QED BY <1>1, <1>2, <1>3, <1>4, <1>5

LEMMA UndoTornInv ==
  ASSUME SetupAssumption, IInv, UndoTorn PROVE IInv'
<1> USE DEF IInv, UndoTorn, Undoes, Torn
<1>1. TypeOK'
  <2>1. /\ due' \in BOOLEAN /\ storage' \in RawOrNull /\ button' \in Button
        /\ foreign' \in BOOLEAN /\ released' \in BOOLEAN
    BY Types DEF ButtonIsForLast, Record, NoButton, Button, SetupAssumption, WritesNothing,
           KeepsReleased, EffectDue
  <2> QED BY <2>1, Types, TypesOfParts
<1>2. RequestsChange' /\ RecordsChange'
  BY DEF RequestsChange, RecordsChange
<1>3. ButtonIsForLast'
  BY DEF ButtonIsForLast, NoButton
<1>4. UnknownHolds'
  BY DEF UnknownHolds, WritesNothing, KeepsReleased
<1>5. SkipIsForDue'
  BY DEF SkipIsForDue
<1> QED BY <1>1, <1>2, <1>3, <1>4, <1>5

LEMMA UndoDurableInv ==
  ASSUME SetupAssumption, IInv, UndoDurable PROVE IInv'
<1> USE DEF IInv, UndoDurable, Undoes, BecomesLive, SkipsOnce, CompletesUndo
<1>1. TypeOK'
  <2>1. /\ due' \in BOOLEAN /\ button' \in Button /\ record' = NoRecord
        /\ storage' \in RawOrNull /\ baseline' \in RawOrNull /\ blocked' \in BOOLEAN
        /\ live' \in Value /\ token' \in Value
        /\ foreign' \in BOOLEAN /\ released' \in BOOLEAN
        /\ last' \in [kind : {"load", "edit", "import", "change", "undone"}, from : Value]
    BY Types DEF ButtonIsForLast, Record, NoButton, Button, SetupAssumption, KeepsReleased,
           EffectDue
  <2> QED BY <2>1, Types, TypesOfParts
<1>2. RequestsChange' /\ RecordsChange'
  BY DEF RequestsChange, RecordsChange
<1>3. ButtonIsForLast'
  BY DEF ButtonIsForLast, NoButton
<1>4. UnknownHolds'
  BY DEF UnknownHolds
<1>5. SkipIsForDue'
  BY Types DEF SkipIsForDue, EffectDue, ButtonIsForLast, RecordsChange
<1> QED BY <1>1, <1>2, <1>3, <1>4, <1>5

LEMMA UndoForSessionInv ==
  ASSUME SetupAssumption, IInv, UndoForSession PROVE IInv'
<1> USE DEF IInv, UndoForSession, Undoes, BecomesLive, SkipsOnce, CompletesUndo
<1>1. TypeOK'
  <2>1. /\ due' \in BOOLEAN /\ button' \in Button /\ record' = NoRecord
        /\ storage' \in RawOrNull /\ baseline' \in RawOrNull /\ blocked' \in BOOLEAN
        /\ live' \in Value /\ token' \in Value
        /\ foreign' \in BOOLEAN /\ released' \in BOOLEAN
        /\ last' \in [kind : {"load", "edit", "import", "change", "undone"}, from : Value]
    BY Types DEF ButtonIsForLast, Record, NoButton, Button, SetupAssumption, ReleasesStored,
           Suspended, EffectDue
  <2> QED BY <2>1, Types, TypesOfParts
<1>2. RequestsChange' /\ RecordsChange'
  BY DEF RequestsChange, RecordsChange
<1>3. ButtonIsForLast'
  BY DEF ButtonIsForLast, NoButton
<1>4. UnknownHolds'
  BY DEF UnknownHolds, ReleasesStored, Suspended
<1>5. SkipIsForDue'
  BY Types DEF SkipIsForDue, EffectDue, ButtonIsForLast, RecordsChange
<1> QED BY <1>1, <1>2, <1>3, <1>4, <1>5

LEMMA StepInv == ASSUME SetupAssumption, IInv, [Next]_vars PROVE IInv'
<1>1. CASE UNCHANGED vars
  BY <1>1 DEF vars, area, undoing, seen, IInv, TypeOK, RequestsChange, RecordsChange,
              ButtonIsForLast, UnknownHolds, SkipIsForDue, Suspended
<1>2. CASE AutosaveReturns \/ Autosave \/ Reload
  BY <1>2, AutosaveReturnsInv, AutosaveInv, ReloadInv
<1>3. ASSUME NEW raw \in RawOrNull, OtherTabWrites(raw) \/ EventArrives(raw) PROVE IInv'
  BY <1>3, OtherTabWritesInv, EventArrivesInv
<1>4. CASE KeepCurrent \/ ConfirmClear \/ ButtonTaken \/ DropRequest
  BY <1>4, KeepCurrentInv, ConfirmClearInv, ButtonTakenInv, DropRequestInv
<1>5. ASSUME NEW v \in Value, SaveSetup(v) \/ DeleteSetup(v) \/ LegacyMigration(v)
      PROVE  IInv'
  BY <1>5, SaveSetupInv, DeleteSetupInv, LegacyMigrationInv
<1>6. ASSUME NEW v \in Value, ApplyDurable(v) \/ ApplyRefused(v) \/ ApplyTorn(v)
      PROVE  IInv'
  BY <1>6, ApplyDurableInv, ApplyRefusedInv, ApplyTornInv
<1>7. CASE UndoDelete \/ ApplyForSession
  BY <1>7, UndoDeleteInv, ApplyForSessionInv
<1>8. CASE UndoStale \/ UndoRefused \/ UndoTorn \/ UndoDurable \/ UndoForSession
  BY <1>8, UndoStaleInv, UndoRefusedInv, UndoTornInv, UndoDurableInv, UndoForSessionInv
<1> QED BY <1>1, <1>2, <1>3, <1>4, <1>5, <1>6, <1>7, <1>8 DEF Next

(* The strengthening holds in every reachable state.                       *)
THEOREM Inductive == ASSUME SetupAssumption PROVE Spec => []IInv
<1>1. Init => IInv BY InitInv
<1>2. IInv /\ [Next]_vars => IInv' BY StepInv
<1> QED BY <1>1, <1>2, PTL DEF Spec

-----------------------------------------------------------------------------
(* The state of the saved-setup changes keeps its types (TypeOK).          *)
THEOREM TypeCorrect == ASSUME SetupAssumption PROVE Spec => []TypeOK
<1>1. IInv => TypeOK BY DEF IInv
<1> QED BY <1>1, Inductive, PTL

(* An Undo of a merge or a rename takes back the last change of the        *)
(* collection and nothing else (UndoIsOfLastChange): a later save, delete  *)
(* or import makes the offered Undo go away before it could drop it.       *)
THEOREM UndoTakesBackLastChange == ASSUME SetupAssumption PROVE Spec => UndoIsOfLastChange
<1>1. ASSUME IInv, Next, last'.kind = "undone", last' # last
      PROVE  last = [kind |-> "change", from |-> live']
  <2>1. CASE UndoDurable \/ UndoForSession
    BY <1>1, <2>1 DEF UndoDurable, UndoForSession, Undoes, BecomesLive, IInv, ButtonIsForLast
  <2>2. CASE ~(UndoDurable \/ UndoForSession)
    BY <1>1, <2>2 DEF Next, AutosaveReturns, Autosave, Reload, OtherTabWrites, EventArrives,
                      KeepCurrent, ConfirmClear, ButtonTaken, DropRequest, SaveSetup,
                      DeleteSetup, LegacyMigration, Edits, ApplyDurable, ApplyRefused,
                      ApplyTorn, Torn, UndoDelete, ApplyForSession, BecomesLive, UndoStale,
                      UndoRefused, UndoTorn
  <2> QED BY <2>1, <2>2
<1>2. IInv /\ [Next]_vars
      => [last'.kind = "undone" /\ last' # last => last = [kind |-> "change", from |-> live']]_vars
  BY <1>1
<1> QED BY <1>2, Inductive, PTL DEF Spec, UndoIsOfLastChange

(* What is stored and was neither loaded nor written by this tab is        *)
(* replaced only by another tab or by a decision about it, unless a change *)
(* for this session or a failed migration released it (UnknownIsKept):     *)
(* every save, merge and Undo looks at the key first, and finds it in      *)
(* conflict or not fresh.                                                  *)
THEOREM UnknownStaysStored == ASSUME SetupAssumption PROVE Spec => UnknownIsKept
<1> DEFINE Decided == \/ KeepCurrent \/ ConfirmClear
                      \/ \E v \in Value : LegacyMigration(v)
                      \/ \E raw \in RawOrNull : OtherTabWrites(raw)
<1>1. ASSUME IInv, Next, foreign, ~released, storage' # storage, ~Decided PROVE FALSE
  <2>1. conflict \/ storage # baseline \/ (blocked /\ storage = Unreadable)
    BY <1>1 DEF IInv, UnknownHolds
  <2>2. CASE \/ Autosave
             \/ \E v \in Value : ApplyDurable(v) \/ ApplyTorn(v)
    BY <1>1, <2>1, <2>2 DEF Autosave, ApplyDurable, ApplyTorn, Suspended, Fresh, Persist,
                            WritesNothing
  <2>3. CASE UndoDurable \/ UndoTorn
    <3>1. record \in Record /\ record.mode = "durable" /\ Fresh /\ storage = record.after
      BY <1>1, <2>3 DEF UndoDurable, UndoTorn, Undoes, IInv, TypeOK, ButtonIsForLast
    <3>2. storage \in Value
      BY <1>1, <3>1 DEF IInv, RecordsChange, SetupAssumption
    <3> QED BY <2>1, <3>1, <3>2 DEF Fresh, SetupAssumption
  <2>4. CASE ~(\/ Autosave \/ UndoDurable \/ UndoTorn
               \/ \E v \in Value : ApplyDurable(v) \/ ApplyTorn(v))
    <3>1. \/ AutosaveReturns \/ Reload \/ ButtonTaken \/ DropRequest \/ UndoDelete
          \/ ApplyForSession \/ UndoStale \/ UndoRefused \/ UndoForSession
          \/ \E raw \in RawOrNull : EventArrives(raw)
          \/ \E v \in Value : SaveSetup(v) \/ DeleteSetup(v) \/ ApplyRefused(v)
      BY <1>1, <2>4, Zenon DEF Next
    <3>2. storage' = storage
      BY <3>1 DEF AutosaveReturns, Reload, EventArrives, ButtonTaken, DropRequest, SaveSetup,
                  DeleteSetup, ApplyRefused, UndoDelete, ApplyForSession, UndoStale,
                  UndoRefused, UndoForSession
    <3> QED BY <1>1, <3>2
  <2> QED BY <2>2, <2>3, <2>4
<1>2. IInv /\ [Next]_vars => [foreign /\ ~released /\ storage' # storage => Decided]_vars
  BY <1>1
<1> QED BY <1>2, Inductive, PTL DEF Spec, UnknownIsKept

(* The skip token of an applied change is used up by the save effect of    *)
(* that change (SkipIsForItsChange), also when the area is suspended in    *)
(* between and the effect comes late.                                      *)
THEOREM SkipIsUsedUp == ASSUME SetupAssumption PROVE Spec => SkipIsForItsChange
<1>1. IInv /\ [Next]_vars
      => [AutosaveReturns /\ skip /\ ~Suspended /\ token # NoRaw =>
            live = token \/ baseline = live \/ last.kind = "import"]_vars
  BY DEF IInv, SkipIsForDue
<1> QED BY <1>1, Inductive, PTL DEF Spec, SkipIsForItsChange
=============================================================================
