--------------------------- MODULE HiscoresLookup ---------------------------
(***************************************************************************)
(* HiscoresLookupControllerCore of src/app/controllers/hiscores-lookup.ts  *)
(* and the effect of use-hiscores-lookup.ts that loads the status.  A      *)
(* lookup captures the player, waits for the server and looks at the       *)
(* controller again when the answer is there; nothing cancels it.  Names   *)
(* are taken modulo normalization.                                         *)
(***************************************************************************)
EXTENDS Naturals

CONSTANTS
  Players,      \* normalized player names
  NoPlayer,     \* an empty field, no stored name, no response
  MaxLookups    \* bound on requestSequence

VARIABLES
  status,      \* the Hiscores service: "checking" until its answer is there
  player,      \* the field
  response,    \* the player of the response on display
  busy, previewOpen,
  notice,
  sequence,    \* requestSequence
  asked,       \* the player of each lookup
  waiting,     \* lookups whose answer is not there yet
  stored,      \* hiscores-last-player in storage
  replaced     \* history: the field was replaced under a response

(* Proofs assume it; TLC evaluates it where the module is instantiated.    *)
LookupAssumption == MaxLookups \in Nat

display == <<response, previewOpen, notice>>
lookups == <<sequence, asked>>
vars == <<status, player, display, busy, lookups, waiting, stored, replaced>>

Ids == 1..MaxLookups
MaybePlayer == Players \cup {NoPlayer}
Notices == {"none", "unavailable", "invalid", "looking", "changed", "ready", "failed",
            "stale", "same"}

TypeOK ==
  /\ status \in {"checking", "available", "unavailable"}
  /\ {player, response, stored} \subseteq MaybePlayer
  /\ busy \in BOOLEAN /\ previewOpen \in BOOLEAN /\ replaced \in BOOLEAN
  /\ notice \in Notices
  /\ sequence \in 0..MaxLookups
  /\ asked \in [Ids -> MaybePlayer]
  /\ waiting \in SUBSET (1..sequence)

Init ==
  /\ status = "checking"
  /\ stored \in MaybePlayer /\ player = stored
  /\ response = NoPlayer /\ previewOpen = FALSE /\ notice = "none"
  /\ busy = FALSE
  /\ sequence = 0 /\ asked = [i \in Ids |-> NoPlayer]
  /\ waiting = {}
  /\ replaced = FALSE

-----------------------------------------------------------------------------
PreviewCurrent(p) == p # NoPlayer /\ p = response

StatusArrives(available) ==
  /\ status = "checking"
  /\ status' = IF available THEN "available" ELSE "unavailable"
  /\ notice' = IF available THEN "none" ELSE "unavailable"
  /\ UNCHANGED <<player, response, previewOpen, busy, lookups, waiting, stored, replaced>>

(* persistPlayer: another tab's value is in the way, or the save goes      *)
(* through, or it throws.                                                  *)
Persist(p) == stored' = p \/ UNCHANGED stored

ChangeKeepsResponse(p) ==
  /\ p # player
  /\ player' = p
  /\ UNCHANGED <<status, display, busy, lookups, waiting, stored, replaced>>

ChangePlayer(p) ==
  /\ p # player
  /\ player' = p
  /\ IF response # NoPlayer /\ p # response
       THEN /\ response' = NoPlayer /\ previewOpen' = FALSE
            /\ notice' = IF notice = "ready" THEN "none" ELSE notice
       ELSE UNCHANGED display
  /\ UNCHANGED <<status, busy, lookups, waiting, stored, replaced>>

(* The legacy migration saves and shows its player; a response on display  *)
(* stays, and Apply finds it stale.                                        *)
ReplacePersistedPlayer(p) ==
  /\ Persist(p)
  /\ player' = p
  /\ replaced' = (response \notin {NoPlayer, p})
  /\ UNCHANGED <<status, display, busy, lookups, waiting>>

-----------------------------------------------------------------------------
LookupRefused ==
  /\ player = NoPlayer \/ status # "available"
  /\ notice' = IF player = NoPlayer THEN "invalid" ELSE "unavailable"
  /\ UNCHANGED <<status, player, response, previewOpen, busy, lookups, waiting, stored, replaced>>

Lookup ==
  /\ player # NoPlayer /\ status = "available"
  /\ sequence < MaxLookups
  /\ sequence' = sequence + 1
  /\ asked' = [asked EXCEPT ![sequence'] = player]
  /\ waiting' = waiting \cup {sequence'}
  /\ busy' = TRUE /\ notice' = "looking"
  /\ UNCHANGED <<status, player, response, previewOpen, stored, replaced>>

AnyIsLatest(i) == i \in waiting
Latest(i) == i = sequence

(* The answer is for the player that was asked for.                        *)
Answered(i) ==
  IF Latest(i) /\ asked[i] = player
    THEN /\ response' = asked[i] /\ previewOpen' = TRUE /\ notice' = "ready"
         /\ replaced' = FALSE
         /\ Persist(asked[i])
    ELSE /\ IF Latest(i)
              THEN response' = NoPlayer /\ notice' = "changed" /\ replaced' = FALSE
              ELSE UNCHANGED <<response, notice, replaced>>
         /\ UNCHANGED <<previewOpen, stored>>

Failed(i) ==
  /\ IF Latest(i) /\ asked[i] = player
       THEN /\ response' = NoPlayer /\ previewOpen' = FALSE /\ notice' = "failed"
            /\ replaced' = FALSE
       ELSE UNCHANGED <<display, replaced>>
  /\ UNCHANGED stored

BusyEnds(i) == FALSE
BusyAfter(i) == busy /\ ~Latest(i)

Settle(i) ==
  /\ i \in waiting
  /\ waiting' = waiting \ {i}
  /\ busy' = BusyAfter(i)
  /\ Answered(i) \/ Failed(i)
  /\ UNCHANGED <<status, player, lookups>>

-----------------------------------------------------------------------------
SetPreviewOpen(open) ==
  /\ open # previewOpen
  /\ previewOpen' = open
  /\ UNCHANGED <<status, player, response, busy, notice, lookups, waiting, stored, replaced>>

(* prepareApply, and recordNoChanges when nothing differs.                 *)
ApplyStale ==
  /\ ~PreviewCurrent(player)
  /\ response' = NoPlayer /\ notice' = "stale" /\ replaced' = FALSE
  /\ UNCHANGED <<status, player, previewOpen, busy, lookups, waiting, stored>>

ApplyNothing ==
  /\ PreviewCurrent(player)
  /\ notice' = "same"
  /\ UNCHANGED <<status, player, response, previewOpen, busy, lookups, waiting, stored, replaced>>

Next ==
  \/ \E available \in BOOLEAN : StatusArrives(available)
  \/ \E p \in MaybePlayer : ChangePlayer(p)
  \/ \E p \in Players : ReplacePersistedPlayer(p)
  \/ LookupRefused \/ Lookup
  \/ \E i \in Ids : Settle(i)
  \/ \E open \in BOOLEAN : SetPreviewOpen(open)
  \/ ApplyStale \/ ApplyNothing

(* The browser settles every request; the server answers each in time      *)
(* (HiscoresServer).                                                       *)
Fairness == \A i \in Ids : WF_vars(Settle(i))

Spec == Init /\ [][Next]_vars /\ Fairness

-----------------------------------------------------------------------------
(* "busy" is shown exactly while the last lookup is not answered: an older *)
(* answer does not end it.                                                 *)
BusyIsLatest == busy <=> sequence \in waiting

(* A response on display is for the player in the field, also after any    *)
(* number of edits and overlapping lookups; only the legacy migration puts *)
(* another name in the field under it, and Apply then finds it stale.      *)
ShownIsCurrent == response \in {NoPlayer, player} \/ replaced

(* A player is saved, and a response put on display, only by the answer to *)
(* the last lookup, for the player that is in the field when it arrives,   *)
(* or by the legacy migration.                                             *)
NoOldAnswer ==
  [][stored' # stored \/ response' \notin {response, NoPlayer}
       => \/ sequence \in waiting \ waiting' /\ response' = player
               /\ stored' \in {stored, player}
          \/ stored' = player' /\ UNCHANGED response]_vars
=============================================================================
