---------------------------- MODULE AtomicBatch ----------------------------
(***************************************************************************)
(* What a caller of executeLocalStateBatch is promised, with none of its   *)
(* intermediate storage states.  A batch gives the keys of Keys the raw    *)
(* values of target all at once, or changes nothing, or reports the keys   *)
(* it could not put back; a committed batch can be taken back once (the    *)
(* caller's live state refused it); a browser that dies in the middle may  *)
(* leave a mixture of old and new values, and never anything else.         *)
(***************************************************************************)
CONSTANTS
  Key,      \* storage keys of the browser profile
  Raw,      \* raw strings
  NoRaw,    \* getItem's null: the key is absent
  Selected  \* the keys the batch writes

VARIABLES
  storage,  \* what the browser holds, as far as a caller can tell
  target,   \* the values the batch was asked to write
  before,   \* the storage when the batch started
  outcome,  \* what the caller knows
  unsafe    \* keys reported as not restored

vars == <<storage, target, before, outcome, unsafe>>

RawOrNull == Raw \cup {NoRaw}

Init ==
  /\ storage \in [Key -> RawOrNull]
  /\ target \in [Key -> RawOrNull]
  /\ before = storage
  /\ outcome = "running"
  /\ unsafe = {}

Unselected(map) == \A k \in Key \ Selected : map[k] = before[k]

(* Every selected key takes its target in one step. *)
Commit ==
  /\ outcome = "running"
  /\ storage' = [k \in Key |-> IF k \in Selected THEN target[k] ELSE storage[k]]
  /\ outcome' = "written"
  /\ UNCHANGED <<target, before, unsafe>>

(* The batch could not be carried out, or its caller took it back. *)
Abort(status) ==
  /\ \/ outcome = "running" /\ status \in {"unavailable", "failed"}
     \/ outcome = "written" /\ status = "failed"
  /\ outcome' = status
  /\ \E left \in SUBSET Selected :
       /\ unsafe' = left
       /\ \A k \in left : storage'[k] \in {before[k], target[k]}
       /\ \A k \in Key \ left : storage'[k] = before[k]
       /\ status = "unavailable" => left = {}
  /\ storage' \in [Key -> RawOrNull]
  /\ UNCHANGED <<target, before>>

(* The process dies: nobody is told anything. *)
Die ==
  /\ outcome \in {"running", "written"}
  /\ outcome' = "crashed"
  /\ storage' \in [Key -> RawOrNull]
  /\ \A k \in Selected : storage'[k] \in {before[k], target[k]}
  /\ Unselected(storage')
  /\ UNCHANGED <<target, before, unsafe>>

Next == Commit \/ Abort("unavailable") \/ Abort("failed") \/ Die

Spec == Init /\ [][Next]_vars
=============================================================================
