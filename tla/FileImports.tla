----------------------------- MODULE FileImports -----------------------------
(***************************************************************************)
(* The reviewed file imports: a setup (setup-file-transfer.ts), saved      *)
(* setups (the Duel import of App.tsx) and a whole workspace               *)
(* (workspace-file-transfer.ts).  The file is read, and for a workspace    *)
(* the restore tools are loaded, while the user goes on working: each      *)
(* continues with the inputs it captured when it started.  One behaviour   *)
(* is about one kind of import.                                            *)
(***************************************************************************)
EXTENDS Naturals

CONSTANTS
  Kinds,        \* of "setup", "duel" and "workspace"
  Value,        \* what an import replaces, compared by content
  MaxAttempts,  \* bound on the attempt ids
  MaxApplies,   \* bound on the applies in progress
  NoReview, NothingToUndo

VARIABLES
  kind,
  live,       \* the value on screen
  attempts,   \* latestAttemptId
  reading,    \* attempts whose file is being read, with what they captured
  review,     \* the review on screen
  busy,       \* restoreBusy
  offered,    \* sessionOnlyAvailable names the review on screen
  applying,   \* applies waiting for the restore tools, with what they captured
  undo,       \* what the pending Undo brings back
  chosen,     \* history: the attempt of the last file chosen
  applied,    \* history: how often each file was applied
  replaced    \* history: what the last import replaced

vars == <<kind, live, attempts, reading, review, busy, offered, applying, undo,
          chosen, applied, replaced>>

(* Proofs assume it; TLC evaluates it where the module is instantiated.    *)
ImportAssumption ==
  /\ MaxAttempts \in Nat /\ MaxApplies \in Nat
  /\ NoReview \notin [id : 1..MaxAttempts, file : 1..MaxAttempts, base : Value, stale : BOOLEAN]

Ids == 1..MaxAttempts
Review == [id : Ids, file : Ids, base : Value, stale : BOOLEAN]
Captured == [id : Ids, seen : Value]

TypeOK ==
  /\ kind \in Kinds /\ live \in Value
  /\ attempts \in 0..MaxAttempts /\ chosen \in 0..attempts
  /\ reading \in SUBSET Captured /\ applying \in [1..MaxApplies -> SUBSET Captured]
  /\ review \in Review \cup {NoReview}
  /\ busy \in BOOLEAN /\ offered \in BOOLEAN
  /\ undo \in Value \cup {NothingToUndo} /\ replaced \in Value \cup {NothingToUndo}
  /\ applied \in [Ids -> Nat]

Init ==
  /\ kind \in Kinds
  /\ live \in Value
  /\ attempts = 0 /\ reading = {}
  /\ review = NoReview
  /\ busy = FALSE /\ offered = FALSE
  /\ applying = [n \in 1..MaxApplies |-> {}]
  /\ undo = NothingToUndo
  /\ chosen = 0 /\ applied = [i \in Ids |-> 0] /\ replaced = NothingToUndo

-----------------------------------------------------------------------------
(* prepareImport up to its first await, and after it.                      *)
ChooseFile ==
  /\ attempts < MaxAttempts
  /\ attempts' = attempts + 1 /\ chosen' = attempts'
  /\ reading' = reading \cup {[id |-> attempts', seen |-> live]}
  /\ review' = NoReview
  /\ busy' = FALSE
  /\ offered' = (kind = "duel" /\ offered)
  /\ UNCHANGED <<kind, live, applying, undo, applied, replaced>>

AnyIsLatest(id) == id \in Ids
IsLatest(id) == id = attempts

FileIsRead(r) ==
  /\ r \in reading
  /\ reading' = reading \ {r}
  /\ \/ /\ IsLatest(r.id)
        /\ review' = [id |-> r.id, file |-> r.id, base |-> r.seen, stale |-> FALSE]
        /\ offered' = FALSE
     \/ UNCHANGED <<review, offered>>    \* rejected, or not the latest any more
  /\ UNCHANGED <<kind, live, attempts, busy, applying, undo, chosen, applied, replaced>>

-----------------------------------------------------------------------------
Edit(v) ==
  /\ v # live
  /\ live' = v
  /\ UNCHANGED <<kind, attempts, reading, review, busy, offered, applying, undo, chosen,
                 applied, replaced>>

OnReview ==
  /\ review # NoReview
  /\ UNCHANGED <<kind, reading, undo, chosen, applied, replaced>>

DismissReview ==
  /\ OnReview
  /\ review' = NoReview /\ offered' = FALSE
  /\ busy' = FALSE
  /\ UNCHANGED <<live, attempts, applying>>

(* The effect of App.tsx over checkReviewFreshness.                        *)
ReviewGoesStale ==
  /\ OnReview
  /\ kind = "setup" /\ review.base # live /\ ~review.stale
  /\ review' = [review EXCEPT !.stale = TRUE]
  /\ UNCHANGED <<live, attempts, busy, offered, applying>>

(* Compares the same file with what is on screen now; a refreshed Duel     *)
(* review takes a new attempt id, a changed workspace plan keeps its own.  *)
RefreshReview ==
  /\ OnReview
  /\ kind = "duel" => attempts < MaxAttempts
  /\ attempts' = IF kind = "duel" THEN attempts + 1 ELSE attempts
  /\ review' = [review EXCEPT !.id = IF kind = "duel" THEN attempts' ELSE @,
                              !.base = live, !.stale = FALSE]
  /\ offered' = (kind # "duel" /\ offered)
  /\ UNCHANGED <<live, busy, applying>>

-----------------------------------------------------------------------------
Replace(v, prior) ==
  /\ live' = v
  /\ undo' = prior
  /\ replaced' = live
  /\ applied' = [applied EXCEPT ![review.file] = @ + 1]

(* consumeReview and the apply, or the merge of saved setups (its outcomes *)
(* are in SetupChanges): in one turn, for a review that is not stale.      *)
ApplyReview(v) ==
  /\ kind # "workspace" /\ review # NoReview
  /\ ~review.stale /\ review.base = live
  /\ v # live
  /\ Replace(v, live)
  /\ review' = NoReview /\ offered' = FALSE
  /\ UNCHANGED <<kind, attempts, reading, busy, applying, chosen>>

(* applyRestore and applyRestoreForSession of a workspace, up to the await *)
(* of the restore tools.                                                   *)
StartRestore(n, session) ==
  /\ OnReview
  /\ kind = "workspace" /\ ~busy /\ (session => offered)
  /\ applying[n] = {}
  /\ review' = [review EXCEPT !.base = live]
  /\ busy' = TRUE
  /\ applying' = [applying EXCEPT ![n] = {[id |-> review.id, seen |-> live]}]
  /\ UNCHANGED <<live, attempts, offered>>

(* The tools are there, or could not be loaded: the plan is made again     *)
(* with the inputs captured before the load.                               *)
RestoreEndsInReview(n, v) ==
  \E a \in applying[n] :
    /\ applying' = [applying EXCEPT ![n] = {}]
    /\ busy' = FALSE
    /\ review # NoReview /\ review.id = a.id
    /\ Replace(v, a.seen)
    /\ UNCHANGED <<kind, attempts, reading, chosen, review, offered>>

RestoreApplies(n, v) ==
  \E a \in applying[n] :
    /\ applying' = [applying EXCEPT ![n] = {}]
    /\ busy' = FALSE
    /\ review # NoReview /\ review.id = a.id
    /\ Replace(v, a.seen)
    /\ review' = NoReview /\ offered' = FALSE
    /\ UNCHANGED <<kind, attempts, reading, chosen>>

RestoreRefused(n) ==
  \E a \in applying[n] :
    /\ applying' = [applying EXCEPT ![n] = {}]
    /\ busy' = FALSE
    /\ \/ /\ review # NoReview /\ review.id = a.id
          /\ review' = [review EXCEPT !.base = a.seen]
          /\ offered' \in BOOLEAN
       \/ UNCHANGED review /\ offered' \in {offered, FALSE}
    /\ UNCHANGED <<kind, live, attempts, reading, undo, chosen, applied, replaced>>

UndoImport ==
  /\ undo # NothingToUndo
  /\ live' = undo
  /\ undo' = NothingToUndo
  /\ UNCHANGED <<kind, attempts, reading, review, busy, offered, applying, chosen, applied,
                 replaced>>

Next ==
  \/ ChooseFile \/ DismissReview \/ ReviewGoesStale \/ RefreshReview \/ UndoImport
  \/ \E r \in reading : FileIsRead(r)
  \/ \E v \in Value : Edit(v) \/ ApplyReview(v)
  \/ \E n \in 1..MaxApplies :
       \/ \E session \in BOOLEAN : StartRestore(n, session)
       \/ \E v \in Value : RestoreApplies(n, v)
       \/ RestoreRefused(n)

Spec == Init /\ [][Next]_vars

-----------------------------------------------------------------------------
(* The review on screen is of the file that was chosen last: a file whose  *)
(* reading takes longer does not replace the review of a later one.        *)
LatestReview == review # NoReview => review.file = chosen

(* One choice of a file is applied once at most, also when its apply is    *)
(* still loading the tools while another file is chosen, which ends the    *)
(* busy state, and applied as well.                                        *)
AppliedOnce == \A i \in Ids : applied[i] <= 1

(* The Undo of a workspace restore brings back what the restore replaced.  *)
WorkspaceUndoIsComplete ==
  kind = "workspace" /\ undo # NothingToUndo => undo = replaced
=============================================================================
