-------------------------- MODULE LocalStateBatch --------------------------
(***************************************************************************)
(* executeLocalStateBatch and restoreLocalStateBatch of                    *)
(* src/app/controllers/local-state-batch.ts, one step per localStorage     *)
(* call.  localStorage is external: a read may throw, a write may take     *)
(* effect, throw, or be dropped without an error, and the tab may die      *)
(* between two calls.  A definition that no action uses, just before one   *)
(* that is used, is a plausible bug of the latter: the mutants of          *)
(* PROJECT.json put it in its place and a property has to notice.          *)
(***************************************************************************)
EXTENDS Naturals, Sequences

CONSTANTS
  Key,    \* storage keys of the browser profile
  Raw,    \* raw strings the keys can hold
  NoRaw,  \* getItem's null: the key is absent
  Order   \* the keys of the batch, in the order of the operations array

(* Every caller builds at most one operation per area, and an area owns    *)
(* one key.                                                                *)
ASSUME BatchAssumption ==
  /\ NoRaw \notin Raw
  /\ Order \in Seq(Key)
  /\ \A i, j \in 1 .. Len(Order) : Order[i] = Order[j] => i = j

VARIABLES
  storage,         \* localStorage
  target,          \* targetRaw of the operation on each key
  preimages,       \* the preimages Map; get(key) ?? null of a missing entry is null
  pc,              \* where the synchronous call stands
  at,              \* index of the operation the loop is on
  affected,        \* affected.length: the operations the rollback covers
  rollbackFailed,  \* keys of rollbackFailedOperations
  refused,         \* the caller is undoing a written batch
  before           \* history: the storage when the call began

vars == <<storage, target, preimages, pc, at, affected, rollbackFailed, refused, before>>

RawOrNull == Raw \cup {NoRaw}
Position == 1 .. Len(Order)
Selected == {Order[i] : i \in Position}
Returned == {"written", "unavailable", "failed"}
Phase == {"read", "write", "verify", "restore", "confirm", "crashed"} \cup Returned

TypeOK ==
  /\ storage \in [Key -> RawOrNull]
  /\ target \in [Key -> RawOrNull]
  /\ preimages \in [Key -> RawOrNull]
  /\ before \in [Key -> RawOrNull]
  /\ pc \in Phase
  /\ at \in 0 .. Len(Order) + 1
  /\ affected \in 0 .. Len(Order)
  /\ rollbackFailed \in SUBSET Selected
  /\ refused \in BOOLEAN

Init ==
  /\ storage \in [Key -> RawOrNull]
  /\ target \in [Key -> RawOrNull]
  /\ preimages = [k \in Key |-> NoRaw]
  /\ before = storage
  /\ pc = "read"
  /\ at = 1
  /\ affected = 0
  /\ rollbackFailed = {}
  /\ refused = FALSE

-----------------------------------------------------------------------------
(* localStorage.  A put of raw into k takes effect or is dropped.          *)
Put(k, raw) ==
  \/ storage' = [storage EXCEPT ![k] = raw]
  \/ UNCHANGED storage

(* What the read-back after every write compares.                          *)
ReadsBackAny(k, raw) == TRUE
ReadsBack(k, raw) == storage[k] = raw

-----------------------------------------------------------------------------
(* The first loop captures what every key holds; nothing is written until  *)
(* all of them could be read.                                              *)
ReadPreimage ==
  /\ pc = "read"
  /\ at \in Position
  /\ preimages' = [preimages EXCEPT ![Order[at]] = storage[Order[at]]]
  /\ at' = at + 1
  /\ UNCHANGED <<storage, target, pc, affected, rollbackFailed, refused, before>>

ReadThrows ==
  /\ pc = "read"
  /\ at \in Position
  /\ pc' = "unavailable"
  /\ UNCHANGED <<storage, target, preimages, at, affected, rollbackFailed, refused, before>>

StopsOneReadEarly ==
  /\ pc = "read"
  /\ at = Len(Order)
  /\ pc' = "write"
  /\ at' = 1
  /\ UNCHANGED <<storage, target, preimages, affected, rollbackFailed, refused, before>>

ReadsDone ==
  /\ pc = "read"
  /\ at = Len(Order) + 1
  /\ pc' = "write"
  /\ at' = 1
  /\ UNCHANGED <<storage, target, preimages, affected, rollbackFailed, refused, before>>

(* The operation joins affected before its write is tried: affected.push.  *)
JoinsTooLate == affected' = at - 1
JoinsTwice == affected' = affected + 2
Joins == affected' = at

WriteTarget ==
  /\ pc = "write"
  /\ at \in Position
  /\ Joins
  /\ Put(Order[at], target[Order[at]])
  /\ pc' = "verify"
  /\ UNCHANGED <<target, preimages, at, rollbackFailed, refused, before>>

(* What the catch clause does: roll back, from the last affected one.      *)
BeginRollback ==
  /\ pc' = "restore"
  /\ at' = affected'

WriteThrows ==
  /\ pc = "write"
  /\ at \in Position
  /\ Joins
  /\ BeginRollback
  /\ UNCHANGED <<storage, target, preimages, rollbackFailed, refused, before>>

VerifyTarget ==
  /\ pc = "verify"
  /\ ReadsBack(Order[at], target[Order[at]])
  /\ pc' = "write"
  /\ at' = at + 1
  /\ UNCHANGED <<storage, target, preimages, affected, rollbackFailed, refused, before>>

(* The read-back threw, or it differs from the target. *)
VerifyFails ==
  /\ pc = "verify"
  /\ UNCHANGED affected
  /\ BeginRollback
  /\ UNCHANGED <<storage, target, preimages, rollbackFailed, refused, before>>

WritesDone ==
  /\ pc = "write"
  /\ at = Len(Order) + 1
  /\ pc' = "written"
  /\ UNCHANGED <<storage, target, preimages, at, affected, rollbackFailed, refused, before>>

-----------------------------------------------------------------------------
(* restoreLocalStateBatch walks the affected operations backwards and      *)
(* keeps going past the ones it cannot restore.                            *)
RestorePreimage ==
  /\ pc = "restore"
  /\ at \in Position
  /\ Put(Order[at], preimages[Order[at]])
  /\ pc' = "confirm"
  /\ UNCHANGED <<target, preimages, at, affected, rollbackFailed, refused, before>>

RetriesRestore ==
  /\ pc \in {"restore", "confirm"}
  /\ at \in Position
  /\ rollbackFailed' = rollbackFailed \cup {Order[at]}
  /\ pc' = "restore"
  /\ UNCHANGED <<storage, target, preimages, at, affected, refused, before>>

ForgetsFailedRestore ==
  /\ pc \in {"restore", "confirm"}
  /\ at \in Position
  /\ pc' = "restore"
  /\ at' = at - 1
  /\ UNCHANGED <<storage, target, preimages, affected, rollbackFailed, refused, before>>

RestoreFails ==
  /\ pc \in {"restore", "confirm"}
  /\ at \in Position
  /\ rollbackFailed' = rollbackFailed \cup {Order[at]}
  /\ pc' = "restore"
  /\ at' = at - 1
  /\ UNCHANGED <<storage, target, preimages, affected, refused, before>>

ConfirmPreimage ==
  /\ pc = "confirm"
  /\ ReadsBack(Order[at], preimages[Order[at]])
  /\ pc' = "restore"
  /\ at' = at - 1
  /\ UNCHANGED <<storage, target, preimages, affected, rollbackFailed, refused, before>>

RestoreDone ==
  /\ pc = "restore"
  /\ at = 0
  /\ pc' = "failed"
  /\ UNCHANGED <<storage, target, preimages, at, affected, rollbackFailed, refused, before>>

-----------------------------------------------------------------------------
(* A transaction whose live setter throws after a written batch hands all  *)
(* its operations and the preimages to restoreLocalStateBatch.             *)
LiveApplyThrows ==
  /\ pc = "written"
  /\ affected' = Len(Order)
  /\ BeginRollback
  /\ refused' = TRUE
  /\ UNCHANGED <<storage, target, preimages, rollbackFailed, before>>

(* The tab is killed between two storage calls; nothing runs afterwards.   *)
Crash ==
  /\ pc \notin {"unavailable", "failed", "crashed"}
  /\ pc' = "crashed"
  /\ UNCHANGED <<storage, target, preimages, at, affected, rollbackFailed, refused, before>>

Step ==
  \/ ReadPreimage \/ ReadThrows \/ ReadsDone
  \/ WriteTarget \/ WriteThrows \/ VerifyTarget \/ VerifyFails \/ WritesDone
  \/ RestorePreimage \/ RestoreFails \/ ConfirmPreimage \/ RestoreDone

Next == Step \/ LiveApplyThrows \/ Crash

(* The call is synchronous: once entered it runs on unless the tab dies.   *)
Spec == Init /\ [][Next]_vars /\ WF_vars(Step)

-----------------------------------------------------------------------------
(* A batch reported as written has every selected key at its target: no    *)
(* operation after the first undid or skipped an earlier one.              *)
WrittenHoldsTargets ==
  pc = "written" => \A k \in Selected : storage[k] = target[k]

(* A batch that is reported as not carried out left every key at the raw   *)
(* value it had before, except the keys it names in                        *)
(* rollbackFailedOperations; "unavailable" names none.  This is what the   *)
(* callers' message "Storage was rolled back exactly" relies on.           *)
RolledBackExactly ==
  pc \in {"unavailable", "failed"} =>
    \A k \in Key \ rollbackFailed : storage[k] = before[k]

(* At every moment, a crash included, a key holds its old raw value or its *)
(* target: a rollback never writes the null default of a preimage that was *)
(* not captured.                                                           *)
OldOrNew ==
  \A k \in Key : storage[k] = before[k] \/ (k \in Selected /\ storage[k] = target[k])

(* The call returns or the tab dies. *)
Returns == <>(pc \in Returned \cup {"crashed"})

-----------------------------------------------------------------------------
(* What a caller can tell: it runs between two of the call's storage       *)
(* accesses only if the tab dies there.                                    *)
Outcome ==
  IF pc \in Returned \cup {"crashed"} THEN pc
  ELSE IF refused THEN "written" ELSE "running"

SettledStorage ==
  CASE pc \in Returned \cup {"crashed"} -> storage
    [] OTHER -> [k \in Key |-> IF refused /\ k \in Selected THEN target[k] ELSE before[k]]

Unsafe == IF pc = "failed" THEN rollbackFailed ELSE {}

(* The interleaving of reads, writes, read-backs and restores implements   *)
(* the all-or-nothing batch: no caller can observe a half-written one that *)
(* was not reported.                                                       *)
Abstract == INSTANCE AtomicBatch WITH
  storage <- SettledStorage, outcome <- Outcome, unsafe <- Unsafe

ImplementsAtomicBatch == Abstract!Spec
=============================================================================
