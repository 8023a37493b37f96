----------------------- MODULE LocalStateBatchProofs -----------------------
(***************************************************************************)
(* What TLAPS proves of LocalStateBatch, for every set of keys and raw     *)
(* values and every batch without a repeated key.                          *)
(***************************************************************************)
EXTENDS LocalStateBatch, TLAPS

(* The preimages captured so far; all of them once the reads are over.     *)
Captured ==
  /\ pc = "read" => \A i \in 1 .. at - 1 : preimages[Order[i]] = before[Order[i]]
  /\ pc \in {"write", "verify", "written", "restore", "confirm", "failed"} =>
       \A k \in Selected : preimages[k] = before[k]

(* Nothing is written before the reads are over, and never outside the     *)
(* batch.                                                                  *)
Reading == pc \in {"read", "unavailable"} => storage = before

Outside == \A k \in Key \ Selected : storage[k] = before[k]

(* In the forward loop the operations behind the cursor hold their targets *)
(* and those ahead of it are untouched.                                    *)
Forward ==
  pc \in {"write", "verify", "written"} =>
    /\ \A i \in Position : i < at => storage[Order[i]] = target[Order[i]]
    /\ \A i \in Position : i > affected => storage[Order[i]] = before[Order[i]]
    /\ pc = "write" => at >= 1 /\ affected = at - 1
    /\ pc = "verify" => at \in Position /\ affected = at
    /\ pc = "written" => at = Len(Order) + 1 /\ affected = Len(Order)

(* In the rollback the operations the cursor has passed, and those the     *)
(* batch never reached, hold their preimages unless they were reported.    *)
Backward ==
  pc \in {"restore", "confirm", "failed"} =>
    /\ \A i \in Position :
         i > at /\ Order[i] \notin rollbackFailed => storage[Order[i]] = before[Order[i]]
    /\ at <= affected
    /\ pc = "confirm" => at \in Position
    /\ pc = "failed" => at = 0

Bookkeeping ==
  /\ pc \notin {"restore", "confirm", "failed", "crashed"} => rollbackFailed = {} /\ ~refused
  /\ pc = "read" => at >= 1 /\ affected = 0

IInv ==
  /\ TypeOK
  /\ Captured
  /\ Reading
  /\ Outside
  /\ Forward
  /\ Backward
  /\ Bookkeeping
  /\ OldOrNew

-----------------------------------------------------------------------------
(* Positions and keys of the batch determine each other. *)
LEMMA Positions ==
  /\ Len(Order) \in Nat
  /\ \A i \in Position : Order[i] \in Key /\ Order[i] \in Selected
  /\ \A i, j \in Position : Order[i] = Order[j] => i = j
  /\ \A k \in Selected : k \in Key /\ \E i \in Position : Order[i] = k
<1>1. Order \in Seq(Key)
  BY BatchAssumption
<1>2. Len(Order) \in Nat /\ \A i \in Position : Order[i] \in Key
  BY <1>1 DEF Position
<1>3. QED
  BY <1>2, BatchAssumption DEF Position, Selected

LEMMA InitInvariant == Init => IInv
<1> SUFFICES ASSUME Init PROVE IInv
  OBVIOUS
<1>1. TypeOK
  <2>1. preimages \in [Key -> RawOrNull]
    BY DEF Init, RawOrNull
  <2>2. at \in 0 .. Len(Order) + 1 /\ affected \in 0 .. Len(Order)
    BY Positions DEF Init
  <2>3. QED
    BY <2>1, <2>2 DEF Init, TypeOK, Phase, Returned
<1>2. Captured
  BY DEF Init, Captured
<1>3. QED
  BY <1>1, <1>2 DEF Init, IInv, Reading, Outside, Forward, Backward, Bookkeeping, OldOrNew

(* The loop that reads the preimages. *)
LEMMA ReadInvariant ==
  ASSUME IInv, ReadPreimage \/ ReadThrows \/ ReadsDone
  PROVE  IInv'
<1> USE Positions DEF IInv, Phase, Returned
<1>1. CASE ReadPreimage
  <2>1. TypeOK'
    BY <1>1 DEF ReadPreimage, TypeOK, Position, RawOrNull
  <2>2. Captured'
    <3>1. storage[Order[at]] = before[Order[at]]
      BY <1>1 DEF ReadPreimage, Reading
    <3>2. QED
      BY <1>1, <3>1 DEF ReadPreimage, Captured, TypeOK, Position, Bookkeeping
  <2>3. QED
    BY <1>1, <2>1, <2>2 DEF ReadPreimage, Reading, Outside, Forward, Backward,
      Bookkeeping, OldOrNew, Position, TypeOK
<1>2. CASE ReadThrows
  BY <1>2 DEF ReadThrows, TypeOK, Captured, Reading, Outside, Forward, Backward,
    Bookkeeping, OldOrNew
<1>3. CASE ReadsDone
  <2>1. Captured'
    BY <1>3 DEF ReadsDone, Captured, Position
  <2>2. QED
    BY <1>3, <2>1 DEF ReadsDone, TypeOK, Reading, Outside, Forward, Backward,
      Bookkeeping, OldOrNew, Position
<1>4. QED
  BY <1>1, <1>2, <1>3

(* The loop that writes and verifies the targets. *)
LEMMA WriteInvariant ==
  ASSUME IInv,
         WriteTarget \/ WriteThrows \/ VerifyTarget \/ VerifyFails \/ WritesDone
  PROVE  IInv'
<1> USE Positions DEF IInv, Phase, Returned
<1>1. CASE WriteTarget
  <2>1. TypeOK'
    BY <1>1 DEF WriteTarget, Joins, Put, TypeOK, Position, RawOrNull
  <2>2. Outside' /\ OldOrNew'
    BY <1>1 DEF WriteTarget, Joins, Put, TypeOK, Outside, OldOrNew
  <2>3. Forward'
    BY <1>1 DEF WriteTarget, Joins, Put, TypeOK, Forward, Position
  <2>4. QED
    BY <1>1, <2>1, <2>2, <2>3 DEF WriteTarget, Joins, Captured, Reading, Backward, Bookkeeping
<1>2. CASE WriteThrows
  <2>1. Backward'
    BY <1>2 DEF WriteThrows, Joins, BeginRollback, Forward, Backward, Bookkeeping, TypeOK, Position
  <2>2. QED
    BY <1>2, <2>1 DEF WriteThrows, Joins, BeginRollback, TypeOK, Captured, Reading, Outside, Forward,
      Bookkeeping, OldOrNew, Position
<1>3. CASE VerifyTarget
  <2>1. Forward'
    BY <1>3 DEF VerifyTarget, ReadsBack, Forward, TypeOK, Position
  <2>2. QED
    BY <1>3, <2>1 DEF VerifyTarget, ReadsBack, TypeOK, Captured, Reading, Outside, Forward, Backward,
      Bookkeeping, OldOrNew, Position
<1>4. CASE VerifyFails
  <2>1. Backward'
    BY <1>4 DEF VerifyFails, BeginRollback, Forward, Backward, Bookkeeping, TypeOK, Position
  <2>2. QED
    BY <1>4, <2>1 DEF VerifyFails, BeginRollback, TypeOK, Captured, Reading, Outside, Forward,
      Bookkeeping, OldOrNew, Position
<1>5. CASE WritesDone
  <2>1. Forward'
    BY <1>5 DEF WritesDone, Forward, TypeOK, Position
  <2>2. QED
    BY <1>5, <2>1 DEF WritesDone, TypeOK, Captured, Reading, Outside, Backward,
      Bookkeeping, OldOrNew
<1>6. QED
  BY <1>1, <1>2, <1>3, <1>4, <1>5

(* The loop that puts the preimages back, entered from the catch clause or *)
(* by a caller whose live state refused the batch.                         *)
LEMMA RestoreInvariant ==
  ASSUME IInv,
         \/ RestorePreimage \/ RestoreFails \/ ConfirmPreimage \/ RestoreDone
         \/ LiveApplyThrows
  PROVE  IInv'
<1> USE Positions DEF IInv, Phase, Returned
<1>1. CASE RestorePreimage
  <2>1. preimages[Order[at]] = before[Order[at]] /\ at \in Position
    BY <1>1 DEF RestorePreimage, Captured
  <2>2. TypeOK'
    BY <1>1 DEF RestorePreimage, Put, TypeOK, Position, RawOrNull
  <2>3. Outside' /\ OldOrNew'
    BY <1>1, <2>1 DEF RestorePreimage, Put, TypeOK, Outside, OldOrNew
  <2>4. Backward'
    BY <1>1, <2>1 DEF RestorePreimage, Put, TypeOK, Backward, Position
  <2>5. QED
    BY <1>1, <2>2, <2>3, <2>4 DEF RestorePreimage, Captured, Reading, Forward, Bookkeeping
<1>2. CASE RestoreFails
  <2>1. TypeOK'
    BY <1>2 DEF RestoreFails, TypeOK, Position
  <2>2. Backward'
    BY <1>2 DEF RestoreFails, TypeOK, Backward, Position
  <2>3. QED
    BY <1>2, <2>1, <2>2 DEF RestoreFails, Captured, Reading, Outside, Forward,
      Bookkeeping, OldOrNew
<1>3. CASE ConfirmPreimage
  <2>1. preimages[Order[at]] = before[Order[at]] /\ at \in Position
    BY <1>3 DEF ConfirmPreimage, ReadsBack, Captured, Backward
  <2>2. Backward'
    BY <1>3, <2>1 DEF ConfirmPreimage, ReadsBack, TypeOK, Backward, Position
  <2>3. QED
    BY <1>3, <2>1, <2>2 DEF ConfirmPreimage, ReadsBack, TypeOK, Captured, Reading, Outside, Forward,
      Bookkeeping, OldOrNew, Position
<1>4. CASE RestoreDone
  BY <1>4 DEF RestoreDone, TypeOK, Captured, Reading, Outside, Forward, Backward,
    Bookkeeping, OldOrNew
<1>5. CASE LiveApplyThrows
  <2>1. Backward'
    BY <1>5 DEF LiveApplyThrows, BeginRollback, Backward, Bookkeeping, TypeOK, Position
  <2>2. QED
    BY <1>5, <2>1 DEF LiveApplyThrows, BeginRollback, TypeOK, Captured, Reading, Outside,
      Forward, Bookkeeping, OldOrNew, Position
<1>6. QED
  BY <1>1, <1>2, <1>3, <1>4, <1>5

LEMMA NextInvariant == IInv /\ [Next]_vars => IInv'
<1> SUFFICES ASSUME IInv, [Next]_vars PROVE IInv'
  OBVIOUS
<1>1. CASE Crash
  BY <1>1 DEF Crash, IInv, TypeOK, Captured, Reading, Outside, Forward, Backward, Bookkeeping,
    OldOrNew, Phase, Returned
<1>2. CASE UNCHANGED vars
  BY <1>2 DEF vars, IInv, TypeOK, Captured, Reading, Outside, Forward, Backward, Bookkeeping,
    OldOrNew
<1>3. QED
  BY <1>1, <1>2, ReadInvariant, WriteInvariant, RestoreInvariant DEF Next, Step

(* The inductive invariant holds in every reachable state. *)
THEOREM Inductive == Spec => []IInv
BY InitInvariant, NextInvariant, PTL DEF Spec

(* The cursor stays within the batch and every key holds a raw value or    *)
(* null, whatever localStorage does.                                       *)
THEOREM TypeCorrect == Spec => []TypeOK
BY Inductive, PTL DEF IInv

(* "written" means that all of the batch is in storage. *)
THEOREM WrittenIsComplete == Spec => []WrittenHoldsTargets
<1>1. IInv => WrittenHoldsTargets
  BY Positions DEF IInv, Forward, WrittenHoldsTargets, Position
<1>2. QED
  BY <1>1, Inductive, PTL

(* Not written means that every key but the reported ones is as it was. *)
THEOREM NotWrittenIsRestored == Spec => []RolledBackExactly
<1>1. IInv /\ pc = "unavailable" => RolledBackExactly
  BY DEF IInv, Reading, RolledBackExactly
<1>2. IInv /\ pc = "failed" => RolledBackExactly
  <2> SUFFICES ASSUME IInv, pc = "failed", NEW k \in Key \ rollbackFailed
               PROVE  storage[k] = before[k]
    BY DEF RolledBackExactly
  <2>1. CASE k \in Selected
    <3>1. PICK i \in Position : Order[i] = k
      BY <2>1, Positions
    <3>2. i > at
      BY Positions DEF IInv, Backward, Position
    <3>3. QED
      BY <3>1, <3>2 DEF IInv, Backward
  <2>2. CASE k \notin Selected
    BY <2>2 DEF IInv, Outside
  <2>3. QED
    BY <2>1, <2>2
<1>3. IInv => RolledBackExactly
  BY <1>1, <1>2 DEF RolledBackExactly
<1>4. QED
  BY <1>3, Inductive, PTL

(* No key ever holds a third value. *)
THEOREM NoThirdValue == Spec => []OldOrNew
BY Inductive, PTL DEF IInv

-----------------------------------------------------------------------------
(* Every step of the call is a step of the all-or-nothing batch or none. *)
LEMMA StepRefines == IInv /\ [Next]_vars => [Abstract!Next]_(Abstract!vars)
<1> SUFFICES ASSUME IInv, [Next]_vars
             PROVE  [Abstract!Next]_(Abstract!vars)
  OBVIOUS
<1> USE Positions DEF IInv, Returned
<1>1. CASE WritesDone
  <2>1. /\ Outcome = "running" /\ Outcome' = "written" /\ Unsafe' = Unsafe
    BY <1>1 DEF WritesDone, Outcome, Unsafe, Bookkeeping
  <2>2. /\ SettledStorage = before
        /\ SettledStorage' = storage
    BY <1>1 DEF WritesDone, SettledStorage, Bookkeeping, TypeOK
  <2>3. storage = [k \in Key |-> IF k \in Selected THEN target[k] ELSE before[k]]
    BY <1>1 DEF WritesDone, Forward, Outside, TypeOK, Position
  <2>4. Abstract!Commit
    BY <1>1, <2>1, <2>2, <2>3 DEF Abstract!Commit, WritesDone
  <2>5. QED
    BY <2>4 DEF Abstract!Next
<1>2. CASE ReadThrows
  <2>1. /\ Outcome = "running" /\ Outcome' = "unavailable" /\ Unsafe' = {}
    BY <1>2 DEF ReadThrows, Outcome, Unsafe, Bookkeeping
  <2>2. SettledStorage' = before
    BY <1>2 DEF ReadThrows, SettledStorage, Reading
  <2>3. Abstract!Abort("unavailable")
    BY <1>2, <2>1, <2>2 DEF Abstract!Abort, Abstract!RawOrNull, ReadThrows, TypeOK, RawOrNull
  <2>4. QED
    BY <2>3 DEF Abstract!Next
<1>3. CASE RestoreDone
  <2>1. /\ Outcome \in {"running", "written"} /\ Outcome' = "failed"
        /\ Unsafe' = rollbackFailed
    BY <1>3 DEF RestoreDone, Outcome, Unsafe
  <2>2. SettledStorage' = storage
    BY <1>3 DEF RestoreDone, SettledStorage
  <2>3. /\ rollbackFailed \in SUBSET Selected
        /\ \A k \in rollbackFailed : storage[k] \in {before[k], target[k]}
        /\ \A k \in Key \ rollbackFailed : storage[k] = before[k]
    BY <1>3 DEF RestoreDone, TypeOK, OldOrNew, Outside, Backward, Position
  <2>4. Abstract!Abort("failed")
    BY <1>3, <2>1, <2>2, <2>3 DEF Abstract!Abort, Abstract!RawOrNull, RestoreDone, TypeOK, RawOrNull
  <2>5. QED
    BY <2>4 DEF Abstract!Next
<1>4. CASE Crash
  <2>1. /\ Outcome \in {"running", "written"} /\ Outcome' = "crashed"
        /\ Unsafe' = {} /\ Unsafe = {}
    BY <1>4 DEF Crash, Outcome, Unsafe, TypeOK, Phase
  <2>2. SettledStorage' = storage
    BY <1>4 DEF Crash, SettledStorage
  <2>3. Abstract!Die
    BY <1>4, <2>1, <2>2 DEF Abstract!Die, Abstract!RawOrNull, Abstract!Unselected, Crash, TypeOK,
      OldOrNew, Outside, RawOrNull
  <2>4. QED
    BY <2>3 DEF Abstract!Next
<1>5. CASE LiveApplyThrows
  <2>1. Outcome' = Outcome /\ Unsafe' = Unsafe
    BY <1>5 DEF LiveApplyThrows, BeginRollback, Outcome, Unsafe
  <2>2. storage = [k \in Key |-> IF k \in Selected THEN target[k] ELSE before[k]]
    BY <1>5 DEF LiveApplyThrows, Forward, Outside, TypeOK, Position
  <2>3. SettledStorage' = SettledStorage
    BY <1>5, <2>2 DEF LiveApplyThrows, BeginRollback, SettledStorage
  <2>4. QED
    BY <1>5, <2>1, <2>3 DEF Abstract!vars, LiveApplyThrows
<1>6. CASE UNCHANGED vars
  BY <1>6 DEF vars, Abstract!vars, Outcome, Unsafe, SettledStorage
<1>7. CASE \/ ReadPreimage \/ ReadsDone \/ WriteTarget \/ WriteThrows \/ VerifyTarget
           \/ VerifyFails \/ RestorePreimage \/ RestoreFails \/ ConfirmPreimage
  <2>1. /\ UNCHANGED <<target, before, refused>>
        /\ pc \notin Returned \cup {"crashed"}
        /\ pc' \notin Returned \cup {"crashed"}
    BY <1>7 DEF ReadPreimage, ReadsDone, WriteTarget, Joins, WriteThrows, VerifyTarget, ReadsBack, VerifyFails,
      RestorePreimage, RestoreFails, ConfirmPreimage, BeginRollback
  <2>2. QED
    BY <2>1 DEF Abstract!vars, Outcome, Unsafe, SettledStorage
<1>8. QED
  BY <1>1, <1>2, <1>3, <1>4, <1>5, <1>6, <1>7 DEF Next, Step

(* executeLocalStateBatch, with any interleaving of storage failures and a *)
(* caller's refusal, implements the all-or-nothing batch.                  *)
THEOREM Refinement == Spec => ImplementsAtomicBatch
<1>1. Init => Abstract!Init
  BY DEF Init, Abstract!Init, Abstract!RawOrNull, SettledStorage, Outcome, Unsafe, Returned, RawOrNull
<1>2. QED
  BY <1>1, StepRefines, Inductive, PTL DEF Spec, ImplementsAtomicBatch, Abstract!Spec
=============================================================================
