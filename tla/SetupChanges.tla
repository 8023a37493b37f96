---------------------------- MODULE SetupChanges ----------------------------
(***************************************************************************)
(* Changes of the saved-setup collection in one tab: the transaction of    *)
(* saved-setup-changes.ts that merges an import or renames a setup, the    *)
(* plain changes of App.tsx (save, delete, legacy migration), the one      *)
(* Undo button they share, and the autosave, recovery and cross-tab state  *)
(* of the one area "duel-snapshots" they meet in.  Other tabs write at     *)
(* any time; their storage events arrive late.  What a batch does inside   *)
(* is in LocalStateBatch, conflicts of many tabs in CrossTabConflicts.     *)
(***************************************************************************)
EXTENDS Naturals, FiniteSets

CONSTANTS
  Value,       \* collections, compared by fingerprint
  Default,     \* the collection of an area that is not stored
  NoRaw,       \* getItem's null
  Unreadable,  \* a raw string the loader rejects
  NoRequest, NoRecord,
  MaxEvents    \* bound on the storage events under way

VARIABLES
  storage, events,  \* the key, and the writes of other tabs not heard of yet
  live,             \* duelSnapshots, React state
  due,              \* the autosave effect has to run
  baseline, conflict, blocked, skip,  \* as in CrossTabConflicts
  request,          \* duelSessionOnlyRequest
  record,           \* undoRecord of the transaction
  button,           \* pendingUndo: what its restore does
  last,             \* history: the last change of the collection
  token,            \* history: the collection the skip token was made for, or
                    \* NoRaw when a clear made it
  foreign,          \* history: what is stored was neither loaded nor written here
  released          \* history: nothing keeps an autosave from it any more

area == <<baseline, conflict, blocked>>
undoing == <<request, record, button>>
seen == <<foreign, released>>
vars == <<storage, events, live, due, area, skip, undoing, last, token, seen>>

RawOrNull == Value \cup {NoRaw, Unreadable}
Request == [current : Value, next : Value]
Record == [mode : {"durable", "session"}, prior : Value, next : Value,
           before : RawOrNull, after : RawOrNull, offered : BOOLEAN]
(* Proofs assume it; TLC evaluates it where the module is instantiated.    *)
SetupAssumption ==
  /\ Default \in Value /\ NoRaw # Unreadable
  /\ {NoRaw, Unreadable} \cap Value = {}
  /\ NoRequest \notin Request /\ NoRecord \notin Record

Button == [does : {"none", "undo", "offer", "delete"}, back : Value]

TypeOK ==
  /\ {storage, baseline} \subseteq RawOrNull /\ events \in SUBSET RawOrNull
  /\ live \in Value /\ token \in Value \cup {NoRaw}
  /\ {due, conflict, blocked, skip, foreign, released} \subseteq BOOLEAN
  /\ request \in Request \cup {NoRequest}
  /\ record \in Record \cup {NoRecord}
  /\ button \in Button
  /\ last \in [kind : {"load", "edit", "import", "change", "undone"}, from : Value]

Loaded(raw) == IF raw \in Value THEN raw ELSE Default
NoButton == [does |-> "none", back |-> Default]
Suspended == blocked \/ conflict

(* The tab has booted from what is stored.                                 *)
Init ==
  /\ storage \in RawOrNull /\ events = {}
  /\ live = Loaded(storage) /\ due = TRUE
  /\ baseline = storage /\ conflict = FALSE /\ blocked = (storage = Unreadable)
  /\ skip = FALSE /\ token = NoRaw
  /\ request = NoRequest /\ record = NoRecord /\ button = NoButton
  /\ last = [kind |-> "load", from |-> live]
  /\ foreign = (storage = Unreadable) /\ released = FALSE

(* A reload, and "Use saved data" of a conflict.                           *)
Reload ==
  /\ UNCHANGED storage /\ events' = {}
  /\ live' = Loaded(storage) /\ due' = TRUE
  /\ baseline' = storage /\ conflict' = FALSE /\ blocked' = (storage = Unreadable)
  /\ skip' = FALSE /\ token' = NoRaw
  /\ request' = NoRequest /\ record' = NoRecord /\ button' = NoButton
  /\ last' = [kind |-> "load", from |-> live']
  /\ foreign' = (storage = Unreadable) /\ released' = FALSE

-----------------------------------------------------------------------------
(* The effect depends on the collection and on whether it is suspended.    *)
EffectDue == due' = (live' # live \/ Suspended' # Suspended)

(* A handler runs after the effects of the commit before it.               *)
Handles == ~due

Writes(raw) == storage' = raw /\ foreign' = FALSE
WritesNothing == UNCHANGED <<storage, foreign>>

(* History: from now on nothing keeps an autosave from what is stored.     *)
ReleasesStored == released' = (foreign' /\ ~Suspended')
KeepsReleased == released' = (foreign' /\ released)

Fresh == ~conflict /\ storage = baseline

(* persist of the recovery controller, from its freshness check on.        *)
Persist(v) ==
  \/ ~Fresh /\ conflict' = TRUE /\ WritesNothing /\ UNCHANGED baseline
  \/ Fresh /\ Writes(v) /\ baseline' = v /\ UNCHANGED conflict
  \/ Fresh /\ WritesNothing /\ UNCHANGED <<baseline, conflict>>  \* storage fails

SkipStays == skip
SkipLeft == skip /\ Suspended

AutosaveReturns ==
  /\ due /\ due' = FALSE
  /\ Suspended \/ skip
  /\ skip' = SkipLeft
  /\ UNCHANGED <<storage, events, live, area, undoing, last, token, seen>>

Autosave ==
  /\ due
  /\ ~Suspended /\ ~skip
  /\ Persist(live)
  /\ UNCHANGED <<events, live, blocked, skip, undoing, last, token>>
  /\ KeepsReleased
  /\ EffectDue

-----------------------------------------------------------------------------
(* Another tab writes a raw this tab does not expect: a save carries its   *)
(* own savedAt (equal raws are a matter of CrossTabConflicts).             *)
OtherTabWrites(raw) ==
  /\ raw \notin {storage, baseline} /\ Cardinality(events) < MaxEvents
  /\ storage' = raw /\ events' = events \cup {raw}
  /\ foreign' = TRUE /\ released' = FALSE
  /\ UNCHANGED <<live, due, area, skip, undoing, last, token>>

EventArrives(raw) ==
  /\ Handles /\ raw \in events
  /\ events' = events \ {raw}
  /\ conflict' = (conflict \/ raw # baseline)
  /\ UNCHANGED <<storage, live, baseline, blocked, skip, undoing, last, token, seen>>
  /\ EffectDue

(* "Keep current": a reviewed overwrite; its own Undo takes the button.    *)
KeepCurrent ==
  /\ Handles
  /\ conflict /\ storage # Unreadable
  /\ Writes(live) /\ baseline' = live
  /\ conflict' = FALSE /\ blocked' = FALSE
  /\ button' = NoButton
  /\ UNCHANGED <<events, live, skip, request, record, last, token>>
  /\ KeepsReleased
  /\ EffectDue

(* The panel offers it for a value the last health report found invalid.   *)
(* The report may be old: what is stored by now, and removed, may be the   *)
(* repair of another tab (the model takes any value not of this tab).      *)
ConfirmClear ==
  /\ Handles
  /\ foreign /\ storage # NoRaw
  /\ Writes(NoRaw) /\ baseline' = NoRaw
  /\ conflict' = FALSE /\ blocked' = FALSE
  /\ skip' = TRUE /\ token' = NoRaw
  /\ UNCHANGED <<events, live, undoing, last>>
  /\ KeepsReleased
  /\ EffectDue

-----------------------------------------------------------------------------
(* Plain changes: they invalidate a pending Undo of a merge or a rename.   *)
Edits(v, kind) ==
  /\ Handles
  /\ live' = v /\ last' = [kind |-> kind, from |-> live]
  /\ UNCHANGED <<events, skip, token>>

NoUndoOrRequest == record' = NoRecord /\ request' = NoRequest

LeavesSavedSetupUndo == UNCHANGED undoing

InvalidateSavedSetupUndo ==
  /\ NoUndoOrRequest
  /\ button' = IF button.does \in {"undo", "offer"} THEN NoButton ELSE button

SaveSetup(v) ==
  /\ v # live
  /\ Edits(v, "edit")
  /\ InvalidateSavedSetupUndo
  /\ UNCHANGED <<storage, area, seen>>
  /\ EffectDue

(* The Undo of a delete has no scope: a later save does not invalidate it. *)
DeleteSetup(v) ==
  /\ v # live
  /\ Edits(v, "edit")
  /\ NoUndoOrRequest
  /\ button' = [does |-> "delete", back |-> live]
  /\ UNCHANGED <<storage, area, seen>>
  /\ EffectDue

UndoDelete ==
  /\ button.does = "delete"
  /\ Edits(button.back, "edit")
  /\ button' = NoButton
  /\ UNCHANGED <<storage, area, seen, request, record>>
  /\ EffectDue

(* The import of legacy data saves at once, over a blocked value as well.  *)
LegacyMigration(v) ==
  /\ Edits(v, "import")
  /\ InvalidateSavedSetupUndo
  /\ Persist(v)
  /\ blocked' = FALSE
  /\ ReleasesStored
  /\ EffectDue

(* setUndoableStatus of another action takes the button.                   *)
ButtonTaken ==
  /\ Handles
  /\ button.does # "none"
  /\ button' = NoButton
  /\ UNCHANGED <<storage, events, live, due, area, skip, request, record, last, token, seen>>

-----------------------------------------------------------------------------
(* Merge and rename.  The live setter of React does not throw, and the     *)
(* branches for one that does are left to LocalStateBatch.                 *)
SkipsOnce(v) == skip' = TRUE /\ token' = v

BecomesLive(v, kind) ==
  /\ live' = v /\ last' = [kind |-> kind, from |-> live]
  /\ SkipsOnce(v)

Registers(mode, v, raw) ==
  /\ record' = [mode |-> mode, prior |-> live, next |-> v,
                before |-> storage, after |-> raw, offered |-> FALSE]
  /\ button' = [does |-> "undo", back |-> Default]
  /\ request' = NoRequest

(* Torn: neither the write nor its rollback could be verified.             *)
Torn(raw) ==
  /\ \/ storage' = raw /\ foreign' = (raw = Unreadable)
     \/ WritesNothing
  /\ KeepsReleased
  /\ blocked' = TRUE /\ skip' = FALSE
  /\ UNCHANGED <<events, live, baseline, conflict, request, last, token>>

ApplyDurable(v) ==
  /\ Handles /\ v # live
  /\ ~Suspended /\ Fresh
  /\ BecomesLive(v, "change")
  /\ Registers("durable", v, v)
  /\ Writes(v) /\ baseline' = v
  /\ UNCHANGED <<events, conflict, blocked>>
  /\ KeepsReleased
  /\ EffectDue

(* A write that fails and is taken back; recordExternalApplyFailure drops  *)
(* the skip token with it.                                                 *)
WriteTakenBack == Fresh /\ skip' = FALSE

(* The area is blocked or in conflict, or storage fails: the change is     *)
(* offered for this session.                                               *)
ApplyRefused(v) ==
  /\ Handles /\ v # live
  /\ request' = [current |-> live, next |-> v]
  /\ conflict' = (conflict \/ (~blocked /\ storage # baseline))
  /\ UNCHANGED skip \/ (~Suspended /\ WriteTakenBack)
  /\ UNCHANGED <<storage, events, live, baseline, blocked, record, button, last, token, seen>>
  /\ EffectDue

ApplyTorn(v) ==
  /\ Handles /\ v # live
  /\ ~Suspended /\ Fresh
  /\ Torn(v)
  /\ UNCHANGED <<record, button>>
  /\ EffectDue

(* The request is dropped with the import review it belongs to.            *)
DropRequest ==
  /\ Handles /\ request # NoRequest
  /\ request' = NoRequest
  /\ UNCHANGED <<storage, events, live, due, area, skip, record, button, last, token, seen>>

(* completeExternalApply releases the area and takes what is stored for    *)
(* its baseline, although nothing was written.                             *)
ApplyForSession ==
  /\ Handles
  /\ request # NoRequest /\ request.current = live
  /\ BecomesLive(request.next, "change")
  /\ Registers("session", request.next, NoRaw)
  /\ baseline' = storage /\ blocked' = FALSE
  /\ UNCHANGED <<storage, events, conflict, foreign>>
  /\ ReleasesStored
  /\ EffectDue

-----------------------------------------------------------------------------
(* The Undo of a merge or a rename.                                        *)
Undoes(does) ==
  /\ Handles
  /\ button.does = does
  /\ UNCHANGED <<events, request>>

UndoStale ==
  /\ \/ Undoes("undo") /\ record.mode = "durable" /\ Fresh /\ storage # record.after
     \/ \E does \in {"undo", "offer"} : Undoes(does) /\ live # record.next
  /\ record' = NoRecord /\ button' = NoButton
  /\ UNCHANGED <<storage, live, due, area, skip, last, token, seen>>

UndoRefused ==
  /\ Undoes("undo")
  /\ record.mode = "durable" /\ live = record.next
  /\ conflict' = (conflict \/ storage # baseline)
  /\ record' = [record EXCEPT !.offered = TRUE]
  /\ button' = [button EXCEPT !.does = "offer"]
  /\ UNCHANGED skip \/ (storage = record.after /\ WriteTakenBack)
  /\ UNCHANGED <<storage, live, baseline, blocked, last, token, seen>>
  /\ EffectDue

UndoTorn ==
  /\ Undoes("undo")
  /\ record.mode = "durable" /\ live = record.next
  /\ Fresh /\ storage = record.after
  /\ Torn(record.before)
  /\ button' = NoButton /\ UNCHANGED record
  /\ EffectDue

(* completeExternalUndo: what is stored is the baseline, and blocks the    *)
(* area again when it needs attention.                                     *)
ReleasesAfterUndo == baseline' = storage' /\ blocked' = FALSE
CompletesUndo == baseline' = storage' /\ blocked' = (storage' = Unreadable)

UndoDurable ==
  /\ Undoes("undo")
  /\ record.mode = "durable" /\ live = record.next
  /\ Fresh /\ storage = record.after
  /\ BecomesLive(record.prior, "undone")
  /\ storage' = record.before
  /\ foreign' = (storage' = Unreadable)
  /\ CompletesUndo
  /\ record' = NoRecord /\ button' = NoButton
  /\ UNCHANGED conflict
  /\ KeepsReleased
  /\ EffectDue

UndoForSession ==
  /\ \/ Undoes("undo") /\ record.mode = "session"
     \/ Undoes("offer") /\ record.offered
  /\ live = record.next
  /\ BecomesLive(record.prior, "undone")
  /\ UNCHANGED <<storage, foreign, conflict>>
  /\ CompletesUndo
  /\ ReleasesStored
  /\ record' = NoRecord /\ button' = NoButton
  /\ EffectDue

-----------------------------------------------------------------------------
Next ==
  \/ AutosaveReturns \/ Autosave \/ Reload
  \/ \E raw \in RawOrNull : OtherTabWrites(raw) \/ EventArrives(raw)
  \/ KeepCurrent \/ ConfirmClear \/ ButtonTaken \/ DropRequest
  \/ \E v \in Value :
       \/ SaveSetup(v) \/ DeleteSetup(v) \/ LegacyMigration(v)
       \/ ApplyDurable(v) \/ ApplyRefused(v) \/ ApplyTorn(v)
  \/ UndoDelete \/ ApplyForSession
  \/ UndoStale \/ UndoRefused \/ UndoTorn \/ UndoDurable \/ UndoForSession

Spec == Init /\ [][Next]_vars

-----------------------------------------------------------------------------
(* The Undo of a merge or a rename takes back the last change of the       *)
(* collection and nothing else, also when it was first refused and then    *)
(* offered for this session: no later save, delete or import is dropped.   *)
UndoIsOfLastChange ==
  [][last'.kind = "undone" /\ last' # last => last = [kind |-> "change", from |-> live']]_vars

(* A stored value that this tab neither loaded nor wrote, another tab's or *)
(* one it cannot read, is replaced only when the user keeps the value on   *)
(* screen, clears it or imports legacy data, however merges, renames and   *)
(* their Undos are refused, fail or are stale before.  The exception is    *)
(* what the code does (released): a change or an Undo applied for this     *)
(* session takes the value for its baseline and releases it, and a legacy  *)
(* migration whose save failed releases a blocked one.                     *)
UnknownIsKept ==
  [][foreign /\ ~released /\ storage' # storage =>
       \/ KeepCurrent \/ ConfirmClear
       \/ \E v \in Value : LegacyMigration(v)
       \/ \E raw \in RawOrNull : OtherTabWrites(raw)]_vars

(* The one-shot token that keeps an applied change from being saved again  *)
(* is used up by that change: it never swallows the save of a later one    *)
(* (an import saves by itself; the token of a clear is the subject of      *)
(* ClearedStaysCleared in SessionDurability).                              *)
SkipIsForItsChange ==
  [][AutosaveReturns /\ skip /\ ~Suspended /\ token # NoRaw =>
       live = token \/ baseline = live \/ last.kind = "import"]_vars
=============================================================================
