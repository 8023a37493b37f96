# Verification of the index simulator

TLA+ models, TLC configurations and TLAPS proofs for `index-sim`: a single-page simulator that keeps everything the
user enters in `localStorage`, computes in one-shot Web Workers, and talks to a small Hiscores and market server. There
is no database and no account. The code that is hard to get right keeps local work safe from other tabs, failing
storage, restores and their Undo, and keeps asynchronous answers attached to the inputs they were computed for. That is
what is modelled: the storage side, the controllers that calculate, look up and import, and the limits the Hiscores
server keeps. Paths below are relative to `src/src/` unless they start with `docs/`.

## 1. Inventory

| Part | State | Operations | Correct when |
|---|---|---|---|
| Local state batch (`app/controllers/local-state-batch.ts`) | preimages, affected and failed operations of one call | `executeLocalStateBatch`, `restoreLocalStateBatch` | all keys or none, or the caller knows which |
| Cross-tab control (`cross-tab-conflicts.ts`, `cross-tab-persistence.ts`, `use-cross-tab-conflicts.ts`) | raw baselines, conflicts, Undo record of a Keep | freshness check, storage event, review, use saved, keep, undo | no tab silently overwrites another's value; each change under a tab surfaces |
| Recovery and autosave (`local-state-recovery.ts`, `app/state/local-state-health.ts`, effects of `App.tsx`) | blocked ids, context-invalid ids, skip tokens, storage failures | `persist`, clear an item, bookkeeping of applied and undone restores | rejected stored values stay until the user decides; a cleared key is not recreated |
| Exit guard (`session-only-exit-protection.ts`) | durable baseline, reasons, backup acknowledgement | record durable / non-durable, reconcile, acknowledge | a value that a reload would lose arms the leave warning |
| Workspace restore (`workspace-restore-executor.ts`, `workspace-file-transfer.ts`) | plan on offer, Undo record | apply durably, apply for this session, undo, undo for this session | storage, live values, recovery and guard agree after each outcome |
| Compare calculation (`use-compare-calculation.ts`, `calculation-worker-client.ts`) | debounced form, pending slot, last success and failure | edit, layout and passive effects, cancel, retry, answer, time-out | only answers for what is on screen are stored; always answered; no Worker left |
| Planner, Risk, Duel calculations (`use-planner-calculation.ts`, `use-risk-analysis.ts`, `use-duel-pane.ts`) | a pending slot each | Planner: recompute, retry, tab; Risk: run, cancel; Duel: build; effects, answers, time-outs | one Worker; only the answer for what the pane last looked at is kept; "building" has a task and ends |
| Runtime bootstrap (`runtime-bootstrap.ts`, `use-runtime-bootstrap.ts`) | loading / ready / failed | fetch, retry, abort | one result is applied, defaults never saved over rejected values |
| Saved-setup changes (`saved-setup-changes.ts`, `App.tsx`) | collection, session-only request, Undo record, the one Undo button | merge, rename, save, delete, import, Undo, each durable or for this session | Undo takes back the last change only; values this tab does not know stay stored; the next edit is saved |
| Monster-specific changes, active-setup reset | preview, Undo record | preview, commit, undo | the same, over several keys |
| Economy data Undo (`economy-data-undo.ts`, price history, overrides) | Undo records | clear, reset, undo | Undo never drops newer data |
| File transfers (`setup-file-transfer.ts`, `workspace-file-transfer.ts`, the Duel import of `App.tsx`, price sets) | attempt in progress, review, apply in progress | read, review, refresh, apply, dismiss, undo | the review is of the file chosen last; a file is applied once; its Undo is complete |
| Hiscores lookup (`hiscores-lookup.ts`) | player, response, request sequence, stored player | lookup, change player, preview, apply | only the latest answer, only for the player on screen, is shown and saved |
| Hiscores server (`server/hiscores-core.ts`, `hiscores-global-rate-limit.ts`) | limiter windows, durable budget | check, consume, time-out | never more than the limit in a window |
| Market server and writer, market adapter | none that outlives a request | fetch, normalise | mostly data conversion |
| Game calculations (`domain/`) | none | pure functions | values; mostly floating point |
| Legacy migration, view models, panes, generators | none of its own | pure mapping, presentation | - |

**Interaction.** A React setter changes a live value; after the commit the area's persistence effect calls
`LocalStateRecoveryControllerCore.persist`, which asks the cross-tab controller for freshness, writes, records the new
raw baseline and tells the exit guard. Storage events of other tabs reach the cross-tab controller. Every change of
several areas at once (Keep, restore, Undo, resets) goes through the batch and then through the recovery controller's
`prepareExternalApply`, `completeExternalApply`, `completeExternalUndo` or `recordExternalApplyFailure`.

**What is hard.** `localStorage` has no lock and no transaction; every access may throw; events arrive late; a tab
boots asynchronously; React separates a handler from its effects, and a commit from its passive effects; a Worker
answers at any time; there are several copies of "what is stored" (raw string, baseline, live value, guard's durable
fingerprint) that each path has to keep consistent. `PROJECT.json` lists the hazards line by line.

## 2. Modules

| Module | Models | Checked with |
|---|---|---|
| `AtomicBatch` | abstract: a batch commits, aborts naming what it could not restore, or dies | - |
| `LocalStateBatch` | one step per storage access of a batch and its rollback; implements `AtomicBatch` | `MCLocalStateBatch` |
| `CrossTabConflicts` | several tabs, one storage, late events, autosave split at its three storage accesses | `MCCrossTabConflicts` |
| `SessionDurability` | one tab: autosave, recovery, restore executor and exit guard together, with every failure outcome | `MCSessionDurability` |
| `CalculationInputs` | what the calculation modules are parameterised by: identities of inputs and tasks | - |
| `CompareCalculation` | the hook, its refs and states, effects in React's order, and the Worker tasks | `MCControllers` |
| `LatestAnswer` | abstract: a pane keeps only the answer for the question it last looked at | - |
| `CalculationSlots` | the pending slots of Planner, Risk and Duel; implements `LatestAnswer` | `MCControllers` |
| `FileImports` | attempts, reviews, asynchronous applies and Undo of setup, saved-setup and workspace imports | `MCControllers`, itself |
| `SetupChanges` | merges, renames, plain changes and Undos of the saved setups over autosave, recovery and other tabs | `MCControllers` |
| `HiscoresLookup` | the page's lookup controller and the server's answers in any order | `MCHiscores` |
| `HiscoresLimiter` | the per-client limiter of one isolate of the Hiscores worker | `MCHiscores` |
| `HiscoresServer` | lookups of all isolates, their time-outs, and the Durable Object that counts the provider's budget | `MCHiscores` |
| `LocalStateBatchProofs`, `CrossTabProofs`, `SessionDurabilityProofs` | theorems about the storage side | TLAPS |
| `CalculationSlotsProofs`, `SetupChangesProofs` | theorems about a pane and about the saved setups by themselves | TLAPS |
| `ControllersProofs` | theorems about all parts of `MCControllers`, with the proofs of Compare and the imports | TLAPS |
| `HiscoresLimiterProofs` | theorems about the limiter by itself | TLAPS |
| `HiscoresProofs` | theorems about all parts of `MCHiscores`, with the proofs of the server and the page | TLAPS |

`SessionDurability` composes recovery, guard and executor in one module because each transition of the code updates all
three in a fixed order. It and `CrossTabConflicts` use a batch as one atomic action with the outcomes that
`LocalStateBatch` produces (not started, rolled back, torn, written); the refinement of `AtomicBatch` justifies that: a
batch is synchronous, so no other code of the tab sees its interior. What they abstract differs:

- `CrossTabConflicts` keeps raw strings apart by value *and* `savedAt` (`Stamp`), because freshness compares raw strings,
  and cuts `persist` into `CheckFreshness`, `LoadForCompare`, then `AdoptCurrentRaw` or `Save`, because another tab may
  write between any two. `known` is a history variable: the raw string a tab's live value was loaded from or saved as;
  `torn` is another: what a failed Undo of a Keep left in storage. A Keep and its Undo end in one of the outcomes of the
  batch (`BatchFails` is the failing one, also with a rollback that fails). Of the explicit replacements this module has
  Keep, its Undo and the clear. A restore and its Undo are in `SessionDurability`, merges and the legacy import of saved
  setups in `SetupChanges`; received and legacy setups, which go through `persist` like an edit, are in neither.
- `SessionDurability` identifies a stored value with its semantic value, runs `persist` as one step, and has the guard
  and the executor. `origin` and `displaced` are history variables that say what a live value comes from and whether
  the stored value changed after the guard took its durable baseline. `pending` is the guard's `pendingDurableIds`:
  areas recorded as durable whose live value is read by `reconcileCurrent` after the commit.
- `CompareCalculation` has identities of forms and other inputs, because the hook compares objects by identity. `Commit`
  is a React commit with its layout effect; `PassiveEffects` is the flush that follows it, cleanup before set-up, and
  Workers may answer and timers may fire in between. A setter of the form produces a fresh object (`Referenced` lists
  the objects still reachable); only the Undo of a setup change brings an earlier form object back, and it always
  brings other input objects with it (`ReplaceSetup`).
- `CalculationSlots` is about one pane per behaviour (`pane`), because the three hooks share their shape and no state.
  What differs is kept: the Planner starts by itself in a passive effect and is suspended by its tab; Risk runs on
  demand and lets go of an obsolete run in its layout effect; the Duel does so in a passive effect (`due`), so its answer
  may come in between, and its store checks the slot only (`Owns`). A source is the identity of all inputs of a pane.
  `seen` is what the pane last looked at: the ref `currentRequestRef` of the Planner and `currentSourceRef` of Risk; the
  Duel has no such ref, there it is a history variable. `LatestAnswer` is told `seen`, not `source`: between a commit and
  its passive effects the pane has not looked yet, and that is what the Duel code really promises.
- `FileImports` is about one kind of import per behaviour. `reading` and `applying` hold what a handler captured before
  its await; `file` in a review is history (a refreshed Duel review takes a new attempt id, a workspace plan keeps its
  own), `chosen`, `applied` and `replaced` are history as well. What a batch does when the restore is applied is in
  `SessionDurability`, what a merge of setups does in `SetupChanges`.
- `SetupChanges` has one tab with everything its area `duel-snapshots` meets: the autosave effect (`due`, `skip`), the
  baseline, conflict and block of cross-tab control and recovery, and the Undo button that all actions share. The other
  tabs are their writes and late events. `last`, `token`, `foreign` and `released` are history variables: the last
  change, what the skip token was made for, whether what is stored was neither loaded nor written here, and whether a
  change for this session has gone over it. Collections are compared by fingerprint, as the code does; each save is
  taken to differ from what another tab wrote (its `savedAt`), equal raws being a matter of `CrossTabConflicts`.
- `HiscoresLookup`: nothing cancels a request, so `waiting` may hold several; `Latest` is the comparison with
  `requestSequence`. Names are taken modulo normalization. `replaced` is history.
- `MCControllers` and `MCHiscores` instantiate components that share no state: `part` chooses the one a behaviour is
  about while the others rest in an initial state. The instance is the sum of the parts, not their product, and each
  property is about the part it names.
- `HiscoresLimiter` has one action per outcome of `check`, which runs without a pause and is therefore atomic; it is a
  module of its own because it shares no state with anything else. `windows` is the Map in insertion order, `Purged` the
  loop at its front. `admitted` (per client, real time of the admissions of the last window) and `waitUntil` (the end of
  a client's Retry-After, forgotten when any lookup is admitted) are history variables.
- `HiscoresServer`: a lookup is one that its isolate's limiter admitted. `phase` is where the handler waits, `ask` the
  message to the Durable Object and its reply; the ask outlives a handler that timed out or lost its isolate. The Durable
  Object reads its clock (`ReadClock`) before `storage.transaction`, and transactions run one at a time in any order, so
  the reading may be late. `granted` is a history variable with the units of the current budget window and those read
  less than a window before it. The clock may be set back and never jumps ahead.

In each module a definition that no action uses, standing just before one that is used, is a plausible bug of the
latter. `PROJECT.json` pairs each with the property it must break.

## 3. Runs

| Run | Question | Bounds |
|---|---|---|
| `batch` | all or nothing, for the caller and after a crash; termination; refinement | 3 keys, 2 of them in the batch, 2 raw values and null |
| `cross_tab_exclusive` | no silent overwrite, unreadable values kept, baselines right | 2 tabs, 1 area that another version also writes and the game data may reject, 2 values, first save skipped when there is something stored; 1 event per tab and area queued, no Undo of a Keep |
| `cross_tab_delivery` | every change under a tab ends in a conflict (liveness), whatever the order of its events; no silent overwrite after a Keep whose Undo succeeds or fails half way | the same area not written by another version and always usable, 2 events per tab and area queued, 1 of the tabs uses its Undo |
| `cross_tab_startup` | violation: a save by another tab while this one boots | `QuietBoot = FALSE` |
| `cross_tab_interleaved` | violation: a write between two reads of `persist` | `Exclusive = FALSE` |
| `durability` | edits protected, rejected and cleared values left alone | 1 area that may be rejected, 2 values, all external raws |
| `durability_session`, `durability_undo`, `durability_unusable` | violations, see below | the same |
| `controllers`, Compare | current answers only, one Worker, honest "building", always answered (liveness) | 3 forms, 2 other inputs, 2 tasks |
| `controllers`, other panes | refinement of `LatestAnswer`, honest "building", "building" ends (liveness) | 3 sources, 2 tasks |
| `controllers`, setups | Undo of the last change only, unknown values kept, the next edit saved | 2 collections, no value, an unreadable one; 1 event under way |
| `controllers`, imports | the last file is reviewed, applied once | 3 kinds, 3 values, 2 attempts, 2 applies in progress |
| `hiscores`, page | busy, shown and saved answers are those of the last lookup | 2 players, 3 lookups |
| `hiscores`, limiter | two windows' worth of lookups a client in any minute, denials with a reason, honest Retry-After | 3 clients, Map of 1 or 2, limit 2, window of 4 half seconds, 5 ticks, set back by 1 |
| `hiscores`, server | budget kept, calls paid for, every lookup answered (liveness) | 2 lookups at once, allowances 1 and 2, window of 2 ticks, 5 ticks, set back once |
| `workspace_restore` | violation, see below | 3 values, 1 attempt, 1 apply |

**Why these bounds are enough.** A batch misbehaves between a first and a second operation and beside a key it does not
own. Two tabs are the fewest that conflict; areas are independent except for multi-area actions, whose per-area effect
(selected or not, tried or not, restored or not) is already a choice with one area. For that reason one area also
suffices in `SessionDurability`: a failure of a batch at a key of another area is `RolledBack` with an empty set and
`Torn` with nothing left. Two values distinguish default and non-default; the default is one of them because clears and
rejections bring it back. Three forms are the one on screen, the one in the debounce and the one a task computes; two
tasks are the one in the slot and its successor. Three sources are the one on screen, the one of the slot and the one of
the last answer. Two attempts and two applies let an old read or apply meet a new one (an apply whose busy state a new
file has ended is overtaken by the apply of that file); three values are the one captured, the edit made meanwhile and
the imported one. Two collections are one and its change: more only repeat them, because every guard compares for
equality, and the proof is for any number. Three lookups are an old one, a newer one and the one that overtakes both. In
the limiter part of `hiscores` the Map holds fewer and as many entries as there are clients besides the one checked, a
window outlasts two admissions, a second has two ticks so that rounding shows, and time runs past the end of a window.
`BudgetBounded` needs the end of one window and the start of the next: two windows of two ticks. Symmetry is used in
`cross_tab_exclusive` (tabs), where no liveness is checked. Two events queued for one area are the
fewest that can arrive in the wrong order; the raw strings of the area are three, so at most one more could be queued.
One tab with an Undo suffices, because the tab under it may be either the one that has the Undo or the other.
`MaxEvents`, `Undoer`, `MaxLookups`, `MaxAttempts`,
`MaxApplies`, `MaxTime`, `MaxClock` and `MaxSetback` are bounds of the checking, not of the code; the proofs hold for
any. `CrossTabConflicts` runs with one `savedAt`; that a re-save of an equal value with another stamp is also protected
is covered by the proof, which is for every `Stamp`.

**Deadlock** is checked everywhere but in `batch`, whose call returns.

**Fairness.** `LocalStateBatch`: weak fairness of the synchronous call, which runs on unless the tab dies (`Crash` stays
possible). `CrossTabConflicts`: React runs scheduled effects and the browser delivers events to open documents.
`CompareCalculation`: React commits state that a timer set, flushes passive effects, timers fire, and each Worker
answers or is timed out after 30 seconds (`calculation-worker-client.ts`); `CalculationSlots` assumes the same of React
and the Workers, and nothing of the user who runs an analysis. `HiscoresLookup`: the browser settles every request.
Users, other programs, closing and crashing are never fair. `HiscoresServer`: the timers of `withTimeout` fire; the
Durable Object and the provider never have to answer, and time does not have to pass for them. `SessionDurability`,
`SetupChanges`, `FileImports` and `HiscoresLimiter` have safety properties only and state no fairness.

**Assumptions about the environment.** `Exclusive`: storage accesses of different tabs do not interleave *inside* one
handler. Browsers usually run same-origin tabs so, the standard does not promise it; `cross_tab_interleaved` shows what
depends on it. `QuietBoot`: no tab writes while another is between its first render and the end of its bootstrap;
`cross_tab_startup` shows what depends on it. Effects of a commit run before the next event handler of the same tab.
Both Hiscores modules let a clock be set back and assume that it never jumps ahead of real time; a jump ahead ends
windows early in the code as it would in any implementation that reads the wall clock. `HiscoresServer` assumes that
the Durable Object's transactions are serial and durable.

### What the violations show

1. `cross_tab_startup`: live values are read when `App` is constructed, baselines only after the bootstrap, so a value
   another tab saves in between is taken for this tab's own and overwritten by the first save.
2. `cross_tab_interleaved`: when nothing changed, `persist` reads the raw string once more and adopts it as baseline; a
   write since the freshness check never becomes a conflict.
3. `durability_session`: a restore "for this session" records no reason with the guard: no leave warning.
4. `durability_undo`: the Undo of a durable restore declares the restored live values durable although the raw strings
   put back may hold older ones.
5. `durability_unusable`: that Undo also forgets that a stored setup was unusable with this game data and releases its
   area; the next autosave replaces the setup.
6. `workspace_restore`: `applyRestore` loads its executor asynchronously and then applies with the inputs it captured
   before the load. An edit made meanwhile is replaced, and Undo brings back the value from before the edit.

Two more gaps of the same kind are modelled and *excluded* from `EditsAreProtected`, which would not hold with them:
edits of an area that is blocked for recovery (`origin = "held"`; the save effect returns before it can tell the guard)
and edits back to the guard's durable value after that value was cleared, put back or torn in storage (`displaced`).

`ExternalChangeSurfaces` has an exception for what the code does: the Undo of a Keep is a batch, and when that batch
fails and a rollback fails as well, a raw string this tab does not expect stays in storage. `undoKeep` then returns
(`cross-tab-conflicts.ts:376-380`) without moving a baseline; nothing reloads, the tab gets no storage event for its own
write, and only the status line tells the user. `torn` marks exactly this raw string until the tab has a conflict on the
area. The tab finds it at its next save, whose freshness check still compares with the old baseline: that is
`NoSilentOverwrite`, checked in `cross_tab_delivery` with such Undos. No document speaks about a torn Undo, so it is no
finding.

`HiscoresLimiter` shows a quirk that no document speaks about and that is therefore no finding: after the clock was set
back, an expired entry may stand behind a live one. The purge stops before it, it takes room, and when the Map is full
the client it belongs to is refused, with a Retry-After that may exceed a window. `DenialIsDue` and `RetryAfterSuffices`
are about a clock that was not set back; `ClientRateBounded` holds in any case.

`UnknownIsKept` has an exception for what the code does: a change, or an Undo, applied "for this session" calls
`completeExternalApply` or `completeExternalUndo`, which release a blocked area and take whatever is stored for this
tab's baseline although nothing was written. The next edit's autosave then replaces the value that was rejected, or
that another tab wrote. The import of legacy data is the third way: it releases a blocked area although its own save
may have failed (`LegacyMigration`). `released` marks exactly these states, and the property says that nothing else
leads there. `ConfirmClear` may work from an old health report, so it may also remove a repair that another tab has
stored meanwhile; the model lets it remove any value that is not this tab's. Two more things `SetupChanges` has
because the code does and no property forbids: the Undo of a delete has no scope, so it also drops a setup saved after
the delete (`UndoDelete`); and the token of a clear may swallow the next edit's save (`token = NoRaw`), which is the
subject of `ClearedStaysCleared`.

## 4. Proofs

Every safety property that a passing run checks, and both refinements, are also theorems: checked by TLAPS for arbitrary
finite or infinite sets of tabs, areas, values, keys, forms, tasks and clients, from nothing but the assumptions the
modules state (distinct sentinels, one key per operation, bounds that are natural numbers), which each run evaluates. The
theorems about tabs that assume `Exclusive` and `QuietBoot` say so.

- `LocalStateBatchProofs`. `RolledBackExactly` is not inductive: the loop positions matter. The invariant adds that
  preimages read so far equal the storage before the call (`Captured`, `Reading`), keys outside the batch are untouched
  (`Outside`), the operations before the position hold their targets while going forward (`Forward`), and the ones behind
  it are restored or named while going back (`Backward`). Theorems: `TypeOK`, `WrittenHoldsTargets`,
  `RolledBackExactly`, `OldOrNew`, and `ImplementsAtomicBatch` by a step-by-step simulation.
- `CrossTabProofs`. Under `Exclusive` and `QuietBoot`, `BaselineIsKnown` needs that a loading tab's `known` is what is
  stored (`LoadedIsStored`) and that between the check and the save of `persist` the storage is still what the tab knows
  (`CallIsFresh`). Then no save replaces anything else: `NoSilentOverwrite`. `TypeOK` needs neither assumption.
  `UnreadableIsKept` needs more: a tab that knows a value it cannot read has the area blocked (`UnreadableBlocks`), so
  no persist under way was started over one (`CallIsReadable`), a Keep needs a ready review, and its Undo, whether it
  succeeds or fails half way, starts only over the values the Keep saved, which are readable (`UndoIsOfSaved`).
- `SessionDurabilityProofs`. `EditsAreProtected` is about settled states only and says nothing of how they come about. The
  invariant speaks of every state, area by area. The guard's durable value is the one a reload would bring back,
  unless other tabs or a displacement are in between (`DurableIsStored`); between a durable Apply and `reconcileCurrent`
  it is the value of before the Apply, and then the live value is the stored one and the skip marker keeps every effect
  from taking the area off the pending list. An edit whose effect has run unsaved is counted (`EditsAreCounted`), which
  needs that its effect is neither suspended nor skipped (`EditsReachEffect`), which in turn needs that a marker left
  over belongs to a displaced or suspended area (`MarkerHasReason`). `UnreadableIsBlocked` and `ClearIsMarked` give
  `UnreadableIsKept` and `ClearedStaysCleared`: a save needs an expected value, no block and no marker. That the two
  maps of an Undo record have the same areas (`UndoIsWhole`) turned out to be needed for the pending list.
- `ControllersProofs`, Compare. `BuildingHasTask` rests on: the slot belongs to the last task effect (`SlotIsOwned`), the
  pending state mirrors it (`PendingIsSlot`), a slot is for the inputs of the last commit up to the form
  (`SlotIsRecent`), a slot whose task has settled is for another form (`DeadSlotIsObsolete`), and whatever the debounce
  has caught up with is running, answered or about to start (`NothingForgotten`). `StoredIsCurrent` is a property of each
  step alone.
- `ControllersProofs`, imports. An attempt id is never used again, so what is being read is neither on screen nor applied
  (`ReadingIsNew`), a review on screen is of a file not applied yet (`ReviewIsNew`), and no later id is
  applied (`LaterIsNew`). An apply that comes back from loading its tools needs the review it started from.
- `CalculationSlotsProofs`. Only the task in the slot runs (`OnlySlotRuns`); slot, pending state and what the pane looked
  at agree (`SlotIsSeen`); that and the source on screen differ only in the Duel, while its effects are due
  (`SeenUnlessDue`); a Planner without a slot and without a result for its source has its task effect due
  (`PlannerTaskIsDue`). `SlotBuildingHasTask` follows, and each step maps to a step or a stutter of `LatestAnswer`
  (`SlotsImplementLatestAnswer`): a commit or an effect to `Look` or `Forget`, a start to `Start`, a task that settles
  with the slot to `Answer` or `Fail`, Cancel to `Stop`. Fairness plays no role: the theorems are about `Steps`.
- `SetupChangesProofs`. The three properties are about steps; the invariant is what the state remembers. An Undo on offer
  belongs to the last change (`ButtonIsForLast`); an unknown value is in conflict, differs from the baseline or blocks
  its area until released (`UnknownHolds`); a skip token is used by the effect that is due, for the value it was made for
  (`SkipIsForDue`); and a record changes something (`RecordsChange`), without which a due effect would not be certain.
- `HiscoresProofs`, page. `BusyIsLatest` and `ShownIsCurrent` are inductive together with the types; `NoOldAnswer` is
  a property of each step.
- `HiscoresProofs`, server. `BudgetBounded` counts grants, so the invariant numbers them: a unit's number is at most the
  largest allowance and its reading lies in its window (`UnitsBelong`), no window grants a number twice
  (`UnitsGrantedOnce`), two windows are a window's length apart (`WindowsApart`), and the stored window is the last and
  has counted its units (`StoredIsLast`). A stretch of one window's length then meets at most two windows, and its
  grants map one to one into twice the allowance. `CallsArePaidFor` follows from the handler's guards.
- `HiscoresLimiterProofs`. An entry counts the last admissions of its client, and the earlier ones, one window's at most,
  were made before its window began (`EntriesCount`); a client without an entry has one window's at most
  (`OthersAreFew`). This holds however the clock is set back, and gives `ClientRateBounded`. The other two properties
  need that a clock that was not set back orders the Map by age (`OldestFirst`), so the purge that stops at the first
  live entry misses no expired one, and that a Retry-After ends after the client's own window and after some entry of
  a full Map (`WaitOutlasts`).

**The composed instances.** The runs `controllers` and `hiscores` check parts that share no state, one moving while the
others rest. `PartsInductive` of `ControllersProofs` and of `HiscoresProofs` shows that a behaviour of the whole is, in the
variables of each part, a behaviour of that part; the parts' theorems then carry over by instantiation, to the very
properties the runs check. Fairness of an instance cannot be carried over (it contains ENABLED), which is why the
parts' theorems do not assume any.

Each inductive invariant was first checked by TLC. Only model-checked: the liveness properties (`Returns`,
`ExternalChangeSurfaces`, `CurrentInputsAreAnswered`, `BuildingEnds`, `EveryLookupIsAnswered`), which need fairness and
ENABLED and are beyond the prover, and the six violations, which are about particular behaviours.

## 5. Not modelled, and why

- Contents and formats: parsing of envelopes, backups and prices. A stored string is readable, unreadable, or readable and
  unusable with the game data.
- The guard's whole-session reason when storage is unavailable from the start, and the `beforeunload` listener itself.
- In `SessionDurability`: reloads (the guard starts anew), "Keep" reviews that refresh, and other tabs' controllers
  (`CrossTabConflicts` has them). External writes are only noted as unseen until their event. Nor the explicit
  replacements that release an area whether or not their save succeeded: `persistAndApplyRewriteSetup`
  (`App.tsx:2217-2223`), `importLegacySetup` (`App.tsx:2748-2781`) and `loadReceivedShareableSetup`
  (`App.tsx:3954-3963`). They are allowed to (`docs/technical/local-state-recovery-controller-spec.md:73-75`): after them
  a rejected stored value is the user's to lose, so `UnreadableIsKept` does not speak of them. `SetupChanges` has the
  one of them that concerns saved setups (`LegacyMigration`).
- In `CompareCalculation`: unmounting (the pane's hook lives as long as `App`), the measured Worker variant, and the
  contents of a result. A form object that came back without any other input changing within the debounce would leave
  "building" without a task; no caller in `App.tsx` does that, which is the assumption behind `ReplaceSetup`.
- In `CalculationSlots`: unmounting, what is only shown (filters, sorting, the view mode), and why a source changes: the
  reconciliation of the Planner's draft with live levels is one more change of its source.
- In `SetupChanges`: a live setter that throws (React's does not; `LocalStateBatch` has the case), the review a merge
  comes from (`FileImports` has it), the areas of other keys. The monster-specific transaction and the active-setup
  reset have the same shape over several keys; a model of their own would repeat `LocalStateBatch` and `SetupChanges`.
- In `FileImports`: parsing, the plan of what a restore selects, exports. Price-set files: their hazard, a price history
  captured before the read (`App.tsx:2524`), is listed and not modelled, nor is the economy data Undo, whose values are
  prices.
- The runtime bootstrap's fetches and retries; its order against the first paint and other tabs is in `CrossTabConflicts`.
- In the Hiscores modules: the gate in mode `off` (which allows everything), the status route, validation of requests and
  responses, the provider's own errors, and a stored budget of another format (the transaction throws, as in
  `RefuseClock`). The Durable Object's Retry-After is not modelled; the limiter's is.
- Floating-point game calculations, view models, generated data.

## 6. Plan

Done: the batch and its abstraction, cross-tab control, session durability, the four calculating panes and their
abstraction, saved-setup changes, file imports, the Hiscores lookup and the Hiscores server's limits, and the proofs
above. What would add most from here:

1. `EconomyDataUndo`: clear, reset and Undo of price history and overrides (`economy-data-undo.ts:95` compares neither the
   live value nor the raw string as strictly as the saved setups do) together with the price-set import that captures a
   history before its file is read.
2. Proofs: that `SessionDurability` keeps more than edits outside the paths the violations show (for example
   `UndoIsProtected` while live and stored values agreed before the restore), and that the outcomes its batches choose
   from are those of `AtomicBatch`.
3. Runtime bootstrap: attempts, aborts and retries of `runtime-bootstrap.ts`.
4. Pure algorithms over small integers: price-history merge, saved-setup merge, planner search order.
