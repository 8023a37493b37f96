--------------------------- MODULE HiscoresLimiter ---------------------------
(***************************************************************************)
(* The per-client rate limiter that one isolate of the Hiscores worker     *)
(* keeps in memory (createMemoryHiscoresRateLimiter in                     *)
(* server/hiscores-core.ts): a Map from client to fixed window, in         *)
(* insertion order, purged from its front and bounded in size.             *)
(*                                                                         *)
(* Time is counted in ticks, a whole number of them a second.  The clock   *)
(* the limiter reads is the wall clock: it may be set back, and then lags  *)
(* behind the time that really passed; it never jumps ahead of it.         *)
(***************************************************************************)
EXTENDS Integers, Sequences, FiniteSets, FiniteSetsExt

CONSTANTS
    Clients,      \* the keys: client addresses
    TicksPerSecond,
    Window,       \* the length of a window, in ticks (60 seconds)
    Limit,        \* lookups of one client in one window (30)
    Capacities,   \* values of the option maxEntries (10,000)
    MaxTime,      \* bound on the time that passes
    MaxSetback    \* bound on how far the clock is set back

(* Proofs assume it; TLC evaluates it where the module is instantiated.    *)
LimiterAssumption ==
    /\ {TicksPerSecond, Window, Limit} \subseteq Nat \ {0}
    /\ Capacities \subseteq Nat \ {0}
    /\ MaxTime \in Nat /\ MaxSetback \in Nat

VARIABLES
    maxEntries, \* the option this limiter is made with
    elapsed,    \* the time that has passed
    setback,    \* how far the clock has been set back
    windows,    \* the Map, in insertion order
    admitted,   \* per client, when it was admitted in the last Window
    waitUntil   \* per client turned away since the last admission, the clock
                \* at the end of its Retry-After; 0 for the others

vars == <<maxEntries, elapsed, setback, windows, admitted, waitUntil>>

Wall == MaxSetback + elapsed - setback

Init ==
    /\ maxEntries \in Capacities
    /\ elapsed = 0
    /\ setback = 0
    /\ windows = <<>>
    /\ admitted = [c \in Clients |-> <<>>]
    /\ waitUntil = [c \in Clients |-> 0]

-----------------------------------------------------------------------------
(* A check.  It runs without a pause, and purges the expired entries at    *)
(* the front of the Map before it looks at its client's entry.             *)

Live(entry) == Wall - entry.startedAt < Window

\* What is left of a sequence from the first of the kept positions on.
From(seq, kept) == IF kept = {} THEN <<>> ELSE SubSeq(seq, Min(kept), Len(seq))

\* Mutants: a purge that keeps an entry of exactly a Window's age, and one that
\* makes room by dropping the oldest entry.
PurgedLate ==
    From(windows, {k \in DOMAIN windows : Wall - windows[k].startedAt <= Window})

EvictsOldest == IF Len(windows) >= maxEntries THEN Tail(windows) ELSE windows

Purged == From(windows, {k \in DOMAIN windows : Live(windows[k])})

Positions(c) == {k \in DOMAIN Purged : Purged[k].client = c}

\* Mutant: a capacity check off by one.
FullLate == Len(Purged) > maxEntries

Full == Len(Purged) >= maxEntries

HasWindow(c) == \E k \in Positions(c) : Live(Purged[k])

OverLimit(c) ==
    \E k \in Positions(c) : Live(Purged[k]) /\ Purged[k].count >= Limit

\* A new window needs room, also when it would take the place of an expired
\* entry of the same client.
Denied(c) == OverLimit(c) \/ (~HasWindow(c) /\ Full)

\* Setting a key that is in the Map leaves it at its place.
Counted(c) ==
    LET fresh == [client |-> c, startedAt |-> Wall, count |-> 1]
        renewed(entry) ==
            IF Live(entry) THEN [entry EXCEPT !.count = @ + 1] ELSE fresh
    IN  IF Positions(c) = {}
        THEN Append(Purged, fresh)
        ELSE [k \in DOMAIN Purged |->
                IF k \in Positions(c) THEN renewed(Purged[k]) ELSE Purged[k]]

Admit(c) ==
    /\ ~Denied(c)
    /\ windows' = Counted(c)
    /\ admitted' = [admitted EXCEPT ![c] = Append(@, elapsed)]
    /\ waitUntil' = [d \in Clients |-> 0]
    /\ UNCHANGED <<maxEntries, elapsed, setback>>

\* What is left of the client's own window or, for want of room, of the oldest
\* one.
Remaining(c) ==
    LET k == IF OverLimit(c) THEN CHOOSE p \in Positions(c) : TRUE ELSE 1
    IN  Window - (Wall - Purged[k].startedAt)

\* Mutant: the seconds are rounded down.
RetryAfterFloor(c) == Max({1, Remaining(c) \div TicksPerSecond})

RetryAfter(c) ==
    Max({1, (Remaining(c) + TicksPerSecond - 1) \div TicksPerSecond})

Deny(c) ==
    /\ Denied(c)
    /\ windows' = Purged
    /\ waitUntil' =
         [waitUntil EXCEPT ![c] = Wall + TicksPerSecond * RetryAfter(c)]
    /\ UNCHANGED <<maxEntries, elapsed, setback, admitted>>

-----------------------------------------------------------------------------

\* The isolate is evicted with its limiter, and another one starts.
IsolateGone ==
    /\ windows' = <<>>
    /\ admitted' = [c \in Clients |-> <<>>]
    /\ waitUntil' = [c \in Clients |-> 0]
    /\ UNCHANGED <<maxEntries, elapsed, setback>>

Tick ==
    /\ elapsed < MaxTime
    /\ elapsed' = elapsed + 1
    /\ LET recent(c) == {k \in DOMAIN admitted[c] : admitted[c][k] > elapsed' - Window}
       IN  admitted' = [c \in Clients |-> From(admitted[c], recent(c))]
    /\ UNCHANGED <<maxEntries, setback, windows, waitUntil>>

SetBack ==
    /\ setback < MaxSetback
    /\ setback' = setback + 1
    /\ UNCHANGED <<maxEntries, elapsed, windows, admitted, waitUntil>>

Next ==
    \/ \E c \in Clients : Admit(c) \/ Deny(c)
    \/ IsolateGone \/ Tick \/ SetBack

Spec == Init /\ [][Next]_vars

-----------------------------------------------------------------------------
(* Properties.                                                             *)

Entries == [client : Clients, startedAt : Nat, count : 1 .. Limit]

\* The variables have their types; the Map holds one entry a client, at most
\* maxEntries of them, and none counts past the limit.
TypeOK ==
    /\ maxEntries \in Capacities
    /\ elapsed \in 0 .. MaxTime /\ setback \in 0 .. MaxSetback
    /\ windows \in Seq(Entries) /\ Len(windows) <= maxEntries
    /\ \A j, k \in DOMAIN windows :
         windows[j].client = windows[k].client => j = k
    /\ admitted \in [Clients -> Seq(0 .. MaxTime)]
    /\ waitUntil \in [Clients -> Nat]

\* A client never gets more than two windows' worth of lookups admitted by one
\* isolate within any Window of real time, wherever that Window starts, however
\* many other clients press on the Map's capacity, and however the clock is set
\* back: no live entry is dropped to make room, and a replaced entry is old.
ClientRateBounded == \A c \in Clients : Len(admitted[c]) <= 2 * Limit

\* While the clock has not been set back, a lookup is turned away only for a
\* live window of its own client that is used up, or for as many live windows of
\* other clients as the Map holds: the purge that stops at the first live entry
\* misses no expired one.
DenialIsDue ==
    setback = 0 =>
      \A c \in Clients : Denied(c) =>
        \/ \E k \in DOMAIN windows :
             /\ windows[k].client = c /\ Live(windows[k])
             /\ windows[k].count = Limit
        \/ Cardinality({k \in DOMAIN windows :
             windows[k].client # c /\ Live(windows[k])}) = maxEntries

\* While the clock has not been set back, a client that was turned away, waited
\* as long as its Retry-After said, and saw no other lookup admitted meanwhile,
\* is not turned away again, for its own limit or for want of room.
RetryAfterSuffices ==
    setback = 0 =>
      \A c \in Clients :
        waitUntil[c] # 0 /\ Wall >= waitUntil[c] => ~Denied(c)

=============================================================================
