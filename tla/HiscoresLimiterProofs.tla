------------------------ MODULE HiscoresLimiterProofs ------------------------
(***************************************************************************)
(* Proofs about HiscoresLimiter for every set of clients, length of a      *)
(* window, limit and capacity, and every bound on time and on how far the  *)
(* clock is set back.                                                      *)
(*                                                                         *)
(* The rate is bounded because an entry knows how many of its client's     *)
(* admissions are of its own window, all others were made before that      *)
(* window began, and they are one window's at most (EntriesCount); a purge *)
(* or an expiry only takes an entry when nothing older is left to count    *)
(* (OthersAreFew).  A denial is due, and a Retry-After suffices, because a *)
(* clock that was not set back orders the Map by age (OldestFirst): the    *)
(* purge then stops at the first live entry without missing an expired one.*)
(***************************************************************************)
EXTENDS HiscoresLimiter, FiniteSetTheorems, WellFoundedInduction, SequenceTheorems, TLAPS

(* What Min is on a set of numbers: its definition only chooses.           *)
LEMMA MinIsLeast ==
  ASSUME NEW S \in SUBSET Nat, S # {}
  PROVE  Min(S) \in S /\ \A x \in S : Min(S) <= x
<1>1. PICK x \in S : \A y \in S : <<y, x>> \notin OpToRel(<, Nat)
  BY NatLessThanWellFounded, WFMin
<1>2. ASSUME NEW y \in S, y < x PROVE FALSE
  <2>1. <<y, x>> \in Nat \X Nat /\ <<y, x>>[1] < <<y, x>>[2] BY <1>2
  <2> QED BY <1>1, <2>1 DEF OpToRel
<1>3. \A y \in S : x <= y BY <1>2
<1> QED BY <1>3 DEF Min

(* What From leaves: a suffix that starts with a kept position, and with it *)
(* every kept position.                                                    *)
LEMMA FromIsSuffix ==
  ASSUME NEW T, NEW s \in Seq(T), NEW K \in SUBSET DOMAIN s
  PROVE  /\ From(s, K) \in Seq(T)
         /\ \E d \in 0 .. Len(s) :
              /\ Len(From(s, K)) = Len(s) - d
              /\ \A i \in 1 .. Len(s) - d : From(s, K)[i] = s[i + d]
              /\ \A k \in K : k > d
              /\ d < Len(s) => d + 1 \in K
<1>1. CASE K = {}
  <2> DEFINE d == Len(s)
  <2>1. d \in 0 .. Len(s) OBVIOUS
  <2>2. From(s, K) = <<>> BY <1>1 DEF From
  <2>3. Len(From(s, K)) = Len(s) - d BY <2>1, <2>2
  <2>4. \A i \in 1 .. Len(s) - d : From(s, K)[i] = s[i + d] BY <2>1
  <2>5. From(s, K) \in Seq(T) BY <2>2
  <2>6. \A k \in K : k > d BY <1>1
  <2>7. d < Len(s) => d + 1 \in K BY <2>1
  <2> HIDE DEF d
  <2> QED BY <2>1, <2>3, <2>4, <2>5, <2>6, <2>7
<1>2. CASE K # {}
  <2>1. K \subseteq Nat /\ Len(s) \in Nat OBVIOUS
  <2>2. Min(K) \in K /\ \A k \in K : Min(K) <= k BY <1>2, <2>1, MinIsLeast
  <2>3. Min(K) \in 1 .. Len(s) BY <2>2
  <2>4. From(s, K) = SubSeq(s, Min(K), Len(s)) BY <1>2 DEF From
  <2>5. \A i \in Min(K) .. Len(s) : s[i] \in T BY <2>3
  <2>6. /\ SubSeq(s, Min(K), Len(s)) \in Seq(T)
        /\ Len(SubSeq(s, Min(K), Len(s))) = Len(s) - Min(K) + 1
        /\ \A i \in 1 .. Len(s) - Min(K) + 1 : SubSeq(s, Min(K), Len(s))[i] = s[Min(K) + i - 1]
    BY <2>3, <2>5, SubSeqProperties
  <2> DEFINE d == Min(K) - 1
  <2>7. d \in 0 .. Len(s) /\ d < Len(s) /\ d + 1 \in K BY <2>2, <2>3
  <2>8. \A k \in K : k > d BY <2>1, <2>2, <2>3
  <2>9. /\ Len(From(s, K)) = Len(s) - d
        /\ \A i \in 1 .. Len(s) - d : From(s, K)[i] = s[i + d]
    BY <2>3, <2>4, <2>6
  <2> HIDE DEF d
  <2> QED BY <2>4, <2>6, <2>7, <2>8, <2>9
<1> QED BY <1>1, <1>2

(* A time rounded up to whole seconds is not shorter.                      *)
LEMMA RoundedUp ==
  ASSUME LimiterAssumption, NEW n \in Int
  PROVE  /\ (n + TicksPerSecond - 1) \div TicksPerSecond \in Int
         /\ TicksPerSecond * ((n + TicksPerSecond - 1) \div TicksPerSecond) >= n
BY DEF LimiterAssumption

-----------------------------------------------------------------------------
(* The admissions kept for a client are recent and in order.               *)
TimesAreRecent ==
  \A c \in Clients :
    /\ \A i \in 1 .. Len(admitted[c]) :
         elapsed - Window < admitted[c][i] /\ admitted[c][i] <= elapsed
    /\ \A i, j \in 1 .. Len(admitted[c]) : i <= j => admitted[c][i] <= admitted[c][j]

(* All but the last entry.count admissions were made before the entry's    *)
(* window began, and they are those of one window at most.                 *)
CountsAdmissions(entry, times) ==
  /\ Len(times) - entry.count <= Limit
  /\ \A i \in 1 .. Len(times) - entry.count :
       times[i] <= entry.startedAt - MaxSetback + setback

EntriesCount ==
  \A k \in DOMAIN windows : CountsAdmissions(windows[k], admitted[windows[k].client])

OthersAreFew ==
  \A c \in Clients :
    (\A k \in DOMAIN windows : windows[k].client # c) => Len(admitted[c]) <= Limit

(* A clock that was not set back orders the Map by the entries' age.       *)
OldestFirst ==
  setback = 0 =>
    /\ \A k \in DOMAIN windows : windows[k].startedAt <= Wall
    /\ \A j, k \in DOMAIN windows : j <= k => windows[j].startedAt <= windows[k].startedAt

(* When a Retry-After is over, the client's own window is as well, and     *)
(* there is room in the Map, or will be after a purge.                     *)
WaitOutlasts ==
  setback = 0 =>
    \A c \in Clients : waitUntil[c] # 0 =>
      /\ \A k \in DOMAIN windows :
           windows[k].client = c => windows[k].startedAt + Window <= waitUntil[c]
      /\ \/ Len(windows) < maxEntries
         \/ Len(windows) > 0 /\ windows[1].startedAt + Window <= waitUntil[c]

IInv ==
  /\ TypeOK /\ TimesAreRecent /\ EntriesCount /\ OthersAreFew
  /\ OldestFirst /\ WaitOutlasts

-----------------------------------------------------------------------------
(* What the types say of the numbers a step computes with.                 *)
LEMMA Numbers ==
  ASSUME LimiterAssumption, TypeOK
  PROVE  /\ Window \in Nat /\ Window > 0 /\ Limit \in Nat /\ Limit > 0
         /\ MaxSetback \in Nat /\ elapsed \in Nat /\ setback \in Nat
         /\ Wall \in Nat /\ Wall = MaxSetback + elapsed - setback
         /\ maxEntries \in Nat /\ maxEntries > 0
BY DEF LimiterAssumption, TypeOK, Wall

(* An entry of the Map and its fields have their types.                    *)
LEMMA EntryFields ==
  ASSUME NEW s \in Seq(Entries), NEW k \in DOMAIN s
  PROVE  /\ s[k] \in Entries
         /\ s[k].client \in Clients /\ s[k].startedAt \in Nat /\ s[k].count \in 1 .. Limit
<1>1. s[k] \in Entries OBVIOUS
<1> QED BY <1>1 DEF Entries

(* A purge drops a front of expired entries, and stops at a live one.      *)
LEMMA PurgeDropsExpired ==
  ASSUME TypeOK
  PROVE  /\ Purged \in Seq(Entries)
         /\ \E d \in 0 .. Len(windows) :
              /\ Len(Purged) = Len(windows) - d
              /\ \A i \in 1 .. Len(windows) - d : Purged[i] = windows[i + d]
              /\ \A k \in 1 .. d : ~Live(windows[k])
              /\ d < Len(windows) => Live(windows[d + 1])
<1> DEFINE live == {k \in DOMAIN windows : Live(windows[k])}
<1>1. windows \in Seq(Entries) /\ DOMAIN windows = 1 .. Len(windows) BY DEF TypeOK
<1>2. live \in SUBSET DOMAIN windows OBVIOUS
<1>3. Purged = From(windows, live) BY DEF Purged
<1> HIDE DEF live
<1>4. PICK d \in 0 .. Len(windows) :
        /\ Len(Purged) = Len(windows) - d
        /\ \A i \in 1 .. Len(windows) - d : Purged[i] = windows[i + d]
        /\ \A k \in live : k > d
        /\ d < Len(windows) => d + 1 \in live
  BY <1>1, <1>2, <1>3, FromIsSuffix
<1>5. Purged \in Seq(Entries) BY <1>1, <1>2, <1>3, FromIsSuffix
<1>6. \A k \in 1 .. d : ~Live(windows[k]) BY <1>1, <1>4 DEF live
<1>7. d < Len(windows) => Live(windows[d + 1]) BY <1>1, <1>4 DEF live
<1> QED BY <1>4, <1>5, <1>6, <1>7

(* The admissions of a client whose window is over are those of that       *)
(* window.                                                                 *)
LEMMA ExpiredHasFew ==
  ASSUME LimiterAssumption, IInv, NEW e \in Entries, ~Live(e),
         CountsAdmissions(e, admitted[e.client])
  PROVE  Len(admitted[e.client]) <= e.count /\ Len(admitted[e.client]) <= Limit
<1> DEFINE A == admitted[e.client]
           begun == e.startedAt
<1>1. A \in Seq(0 .. MaxTime) /\ begun \in Nat /\ e.count \in 1 .. Limit /\ e.client \in Clients
  BY DEF IInv, TypeOK, Entries
<1>2. /\ {Window, Limit, elapsed, setback, MaxSetback, Wall} \subseteq Nat
      /\ Wall = MaxSetback + elapsed - setback
  BY Numbers DEF IInv
<1>3. Wall - begun >= Window BY <1>1, <1>2 DEF Live
<1>4. SUFFICES ASSUME Len(A) > e.count PROVE FALSE
  BY <1>1, <1>2
<1>5. 1 \in 1 .. Len(A) - e.count /\ 1 \in 1 .. Len(A)
  BY <1>1, <1>4
<1>6. A[1] <= begun - MaxSetback + setback
  BY <1>5 DEF CountsAdmissions
<1>7. elapsed - Window < A[1] BY <1>1, <1>5 DEF IInv, TimesAreRecent
<1>8. A[1] \in Int BY <1>1, <1>5 DEF LimiterAssumption
<1> HIDE DEF A, begun
<1> QED BY <1>1, <1>2, <1>3, <1>6, <1>7, <1>8

(* An empty Map and no admissions satisfy the invariant.                   *)
LEMMA InitInv == ASSUME LimiterAssumption, Init PROVE IInv
<1>1. TypeOK BY DEF Init, TypeOK, LimiterAssumption
<1>2. TimesAreRecent /\ EntriesCount /\ OthersAreFew
  BY DEF Init, TimesAreRecent, EntriesCount, OthersAreFew, LimiterAssumption
<1>3. OldestFirst /\ WaitOutlasts BY DEF Init, OldestFirst, WaitOutlasts
<1> QED BY <1>1, <1>2, <1>3 DEF IInv

(* What a purge leaves of the Map has every property of the Map.           *)
LEMMA PurgedIsMap ==
  ASSUME LimiterAssumption, IInv
  PROVE  /\ Purged \in Seq(Entries) /\ Len(Purged) <= Len(windows)
         /\ DOMAIN Purged = 1 .. Len(Purged)
         /\ \A k \in DOMAIN Purged : \E j \in DOMAIN windows : Purged[k] = windows[j]
         /\ \A j, k \in DOMAIN Purged : Purged[j].client = Purged[k].client => j = k
         /\ \A k \in DOMAIN Purged : CountsAdmissions(Purged[k], admitted[Purged[k].client])
         /\ \A c \in Clients :
              (\A k \in DOMAIN Purged : Purged[k].client # c) => Len(admitted[c]) <= Limit
<1>1. PICK d \in 0 .. Len(windows) :
        /\ Len(Purged) = Len(windows) - d
        /\ \A i \in 1 .. Len(windows) - d : Purged[i] = windows[i + d]
        /\ \A k \in 1 .. d : ~Live(windows[k])
  BY PurgeDropsExpired DEF IInv
<1>2. Purged \in Seq(Entries) BY PurgeDropsExpired DEF IInv
<1>3. windows \in Seq(Entries) BY DEF IInv, TypeOK
<1>4. DOMAIN Purged = 1 .. Len(windows) - d /\ DOMAIN windows = 1 .. Len(windows)
  BY <1>1, <1>2, <1>3
<1>5. \A k \in DOMAIN Purged : k + d \in DOMAIN windows /\ Purged[k] = windows[k + d]
  BY <1>1, <1>3, <1>4
<1>6. ASSUME NEW j \in DOMAIN Purged, NEW k \in DOMAIN Purged,
             Purged[j].client = Purged[k].client
      PROVE  j = k
  <2>1. j + d = k + d BY <1>5, <1>6 DEF IInv, TypeOK
  <2> QED BY <1>4, <2>1
<1>7. \A k \in DOMAIN Purged : CountsAdmissions(Purged[k], admitted[Purged[k].client])
  BY <1>5 DEF IInv, EntriesCount
<1>8. ASSUME NEW c \in Clients, \A k \in DOMAIN Purged : Purged[k].client # c
      PROVE  Len(admitted[c]) <= Limit
  <2>1. CASE \E k \in DOMAIN windows : windows[k].client = c
    <3>1. PICK k \in DOMAIN windows : windows[k].client = c BY <2>1
    <3>2. k \in 1 .. d
      <4>1. SUFFICES ASSUME k > d PROVE FALSE BY <1>3, <1>4
      <4>2. k - d \in DOMAIN Purged /\ (k - d) + d = k BY <1>3, <1>4, <4>1
      <4> QED BY <1>5, <1>8, <3>1, <4>2
    <3>3. windows[k] \in Entries /\ CountsAdmissions(windows[k], admitted[windows[k].client])
      BY <1>3 DEF IInv, EntriesCount
    <3> QED BY <1>1, <3>1, <3>2, <3>3, ExpiredHasFew
  <2>2. CASE \A k \in DOMAIN windows : windows[k].client # c
    BY <2>2 DEF IInv, OthersAreFew
  <2> QED BY <2>1, <2>2
<1> QED BY <1>1, <1>2, <1>3, <1>4, <1>5, <1>6, <1>7, <1>8

(* As long as the clock was not set back, every entry it leaves is live.   *)
LEMMA PurgedIsLive ==
  ASSUME LimiterAssumption, IInv, setback = 0
  PROVE  /\ \A k \in DOMAIN Purged : Live(Purged[k]) /\ Purged[k].startedAt <= Wall
         /\ \A j, k \in DOMAIN Purged : j <= k => Purged[j].startedAt <= Purged[k].startedAt
         /\ \/ Purged = windows
            \/ Len(Purged) < Len(windows) /\ Len(windows) > 0 /\ ~Live(windows[1])
<1>1. PICK d \in 0 .. Len(windows) :
        /\ Len(Purged) = Len(windows) - d
        /\ \A i \in 1 .. Len(windows) - d : Purged[i] = windows[i + d]
        /\ \A k \in 1 .. d : ~Live(windows[k])
        /\ d < Len(windows) => Live(windows[d + 1])
  BY PurgeDropsExpired DEF IInv
<1>2. Purged \in Seq(Entries) BY PurgeDropsExpired DEF IInv
<1>3. windows \in Seq(Entries) BY DEF IInv, TypeOK
<1>4. DOMAIN Purged = 1 .. Len(windows) - d /\ DOMAIN windows = 1 .. Len(windows)
  BY <1>1, <1>2, <1>3
<1>5. \A k \in DOMAIN Purged : k + d \in DOMAIN windows /\ Purged[k] = windows[k + d]
  BY <1>1, <1>3, <1>4
<1>6. \A k \in DOMAIN Purged : Purged[k].startedAt <= Wall
  BY <1>5 DEF IInv, OldestFirst
<1>7. \A j, k \in DOMAIN Purged : j <= k => Purged[j].startedAt <= Purged[k].startedAt
  <2> SUFFICES ASSUME NEW j \in DOMAIN Purged, NEW k \in DOMAIN Purged, j <= k
               PROVE  Purged[j].startedAt <= Purged[k].startedAt
    OBVIOUS
  <2>1. j + d <= k + d BY <1>4
  <2> QED BY <1>5, <2>1 DEF IInv, OldestFirst
<1>8. ASSUME NEW k \in DOMAIN Purged PROVE Live(Purged[k])
  <2>1. 1 \in DOMAIN Purged /\ 1 <= k BY <1>3, <1>4
  <2>2. Live(Purged[1]) BY <1>1, <1>3, <1>4, <2>1
  <2>3. Purged[1].startedAt <= Purged[k].startedAt BY <1>7, <2>1
  <2>4. Purged[1] \in Entries /\ Purged[k] \in Entries BY <1>2, <2>1
  <2>5. Wall \in Nat /\ Window \in Nat BY Numbers DEF IInv
  <2> QED BY <2>2, <2>3, <2>4, <2>5 DEF Live, Entries
<1>9. \/ Purged = windows
      \/ Len(Purged) < Len(windows) /\ Len(windows) > 0 /\ ~Live(windows[1])
  <2>1. CASE d = 0
    <3>1. \A i \in 1 .. Len(windows) : Purged[i] = windows[i] BY <1>1, <1>3, <2>1
    <3>2. Len(Purged) = Len(windows) BY <1>1, <1>3, <2>1
    <3> QED BY <1>2, <1>3, <3>1, <3>2, SeqEqual
  <2>2. CASE d # 0 BY <1>1, <1>3, <2>2
  <2> QED BY <2>1, <2>2
<1> QED BY <1>6, <1>7, <1>8, <1>9

-----------------------------------------------------------------------------
Fresh(c) == [client |-> c, startedAt |-> Wall, count |-> 1]

(* m is the purged Map but for the client's entry at p, counted up or fresh. *)
Recounted(m, c, p) ==
  /\ DOMAIN m = DOMAIN Purged \cup {p}
  /\ \A k \in DOMAIN Purged : k # p => m[k] = Purged[k] /\ Purged[k].client # c
  /\ \/ /\ p \in DOMAIN Purged /\ Purged[p].client = c
        /\ m[p] = [Purged[p] EXCEPT !.count = @ + 1]
     \/ /\ m[p] = Fresh(c)
        /\ \/ p \in DOMAIN Purged /\ Purged[p].client = c /\ ~Live(Purged[p])
           \/ p = Len(Purged) + 1

(* What an admission leaves of the Map.                                    *)
LEMMA CountedIsMap ==
  ASSUME LimiterAssumption, IInv, NEW c \in Clients, ~Denied(c)
  PROVE  /\ Counted(c) \in Seq(Entries) /\ Len(Counted(c)) <= maxEntries
         /\ \E p \in DOMAIN Counted(c) : Recounted(Counted(c), c, p)
<1> DEFINE N == Counted(c)
<1>1. /\ Purged \in Seq(Entries) /\ DOMAIN Purged = 1 .. Len(Purged)
      /\ Len(Purged) \in Nat /\ Len(Purged) <= maxEntries /\ maxEntries \in Nat
      /\ \A j, k \in DOMAIN Purged : Purged[j].client = Purged[k].client => j = k
  BY PurgedIsMap, Numbers DEF IInv, TypeOK
<1>2. Fresh(c) \in Entries BY Numbers DEF Fresh, Entries, IInv
<1>3. CASE Positions(c) = {}
  <2>1. N = Append(Purged, Fresh(c)) BY <1>3 DEF Counted, Fresh
  <2>2. Len(Purged) < maxEntries BY <1>1, <1>3 DEF Denied, HasWindow, Full
  <2>3. /\ N \in Seq(Entries) /\ Len(N) = Len(Purged) + 1
        /\ \A i \in 1 .. Len(Purged) : N[i] = Purged[i]
        /\ N[Len(Purged) + 1] = Fresh(c)
    BY <1>1, <1>2, <2>1, AppendProperties
  <2>4. DOMAIN N = DOMAIN Purged \cup {Len(Purged) + 1} BY <1>1, <2>3
  <2>5. \A k \in DOMAIN Purged : Purged[k].client # c BY <1>3 DEF Positions
  <2>6. Recounted(N, c, Len(Purged) + 1) BY <1>1, <2>3, <2>4, <2>5 DEF Recounted
  <2>7. Len(N) <= maxEntries BY <1>1, <2>2, <2>3
  <2>8. Len(Purged) + 1 \in DOMAIN N BY <2>4
  <2> QED BY <2>3, <2>6, <2>7, <2>8
<1>4. CASE Positions(c) # {}
  <2>1. PICK p \in DOMAIN Purged : Purged[p].client = c BY <1>4 DEF Positions
  <2>2. Positions(c) = {p} BY <1>1, <2>1 DEF Positions
  <2> DEFINE e == IF Live(Purged[p]) THEN [Purged[p] EXCEPT !.count = @ + 1] ELSE Fresh(c)
  <2>3. N = [k \in DOMAIN Purged |-> IF k = p THEN e ELSE Purged[k]]
    BY <2>2 DEF Counted, Fresh
  <2>4. Purged[p] \in Entries BY <1>1, <2>1
  <2>5. Live(Purged[p]) => Purged[p].count < Limit
    BY <2>2, <2>4, Numbers DEF Denied, OverLimit, Entries, IInv
  <2>6. e \in Entries BY <1>2, <2>4, <2>5, Numbers DEF Entries, IInv
  <2> HIDE DEF e
  <2>7. N = [Purged EXCEPT ![p] = e] BY <2>3
  <2>8. N \in Seq(Entries) /\ Len(N) = Len(Purged)
    BY <1>1, <2>1, <2>6, <2>7, ExceptSeq
  <2>9. DOMAIN N = DOMAIN Purged \cup {p} /\ N[p] = e BY <2>1, <2>3
  <2>10. \A k \in DOMAIN Purged : k # p => N[k] = Purged[k] /\ Purged[k].client # c
    BY <1>1, <2>1, <2>3
  <2>11. Recounted(N, c, p) BY <2>1, <2>9, <2>10 DEF Recounted, e
  <2>12. p \in DOMAIN N /\ Len(N) <= maxEntries BY <1>1, <2>8, <2>9
  <2> QED BY <2>8, <2>11, <2>12
<1> QED BY <1>3, <1>4

(* An admission is the first of a fresh window, whose client had few, or   *)
(* one more of a live window.                                              *)
LEMMA AdmitStep ==
  ASSUME LimiterAssumption, IInv, NEW c \in Clients, Admit(c)
  PROVE  IInv'
<1> DEFINE N == Counted(c)
           A == admitted[c]
<1>1. /\ ~Denied(c) /\ windows' = N
      /\ admitted' = [admitted EXCEPT ![c] = Append(A, elapsed)]
      /\ waitUntil' = [d \in Clients |-> 0]
      /\ maxEntries' = maxEntries /\ elapsed' = elapsed /\ setback' = setback
  BY DEF Admit
<1>2. N \in Seq(Entries) /\ Len(N) <= maxEntries BY <1>1, CountedIsMap
<1>3. PICK p \in DOMAIN N : Recounted(N, c, p) BY <1>1, CountedIsMap
<1> HIDE DEF N
<1>4. /\ {Window, Limit, elapsed, setback, MaxSetback, Wall} \subseteq Nat
      /\ Wall = MaxSetback + elapsed - setback /\ Window > 0
  BY Numbers DEF IInv
<1>5. /\ Purged \in Seq(Entries) /\ DOMAIN Purged = 1 .. Len(Purged)
      /\ Len(Purged) \in Nat
      /\ \A k \in DOMAIN Purged : CountsAdmissions(Purged[k], admitted[Purged[k].client])
      /\ \A d \in Clients :
           (\A k \in DOMAIN Purged : Purged[k].client # d) => Len(admitted[d]) <= Limit
  BY PurgedIsMap
<1>6. TypeOK /\ A \in Seq(0 .. MaxTime) /\ Len(A) \in Nat /\ admitted \in [Clients -> Seq(0 .. MaxTime)]
  BY DEF IInv, TypeOK
<1>7. /\ Append(A, elapsed) \in Seq(0 .. MaxTime)
      /\ Len(Append(A, elapsed)) = Len(A) + 1
      /\ \A i \in 1 .. Len(A) : Append(A, elapsed)[i] = A[i]
      /\ Append(A, elapsed)[Len(A) + 1] = elapsed
  <2>1. elapsed \in 0 .. MaxTime BY <1>6 DEF TypeOK
  <2> QED BY <1>6, <2>1, AppendProperties
<1>8. /\ admitted'[c] = Append(A, elapsed)
      /\ \A d \in Clients : d # c => admitted'[d] = admitted[d]
      /\ admitted' \in [Clients -> Seq(0 .. MaxTime)]
  BY <1>1, <1>6, <1>7
<1> HIDE DEF A
<1>18. /\ Len(admitted'[c]) = Len(A) + 1 /\ admitted'[c][Len(A) + 1] = elapsed
       /\ \A i \in 1 .. Len(A) : admitted'[c][i] = A[i]
  BY <1>7, <1>8
<1>20. Len(admitted'[c]) = Len(A) + 1 BY <1>18
<1>19. Len(A) \in Nat /\ elapsed \in Nat /\ Window \in Nat /\ Window > 0 BY <1>4, <1>6
<1>9. \A k \in DOMAIN N : k # p =>
        k \in DOMAIN Purged /\ N[k] = Purged[k] /\ N[k].client # c
  BY <1>3 DEF Recounted
<1>10. N[p].client = c
  <2>1. CASE /\ p \in DOMAIN Purged /\ Purged[p].client = c
             /\ N[p] = [Purged[p] EXCEPT !.count = @ + 1]
    <3>1. Purged[p] \in Entries BY <1>5, <2>1
    <3> QED BY <2>1, <3>1 DEF Entries
  <2>2. CASE N[p] = Fresh(c) BY <2>2 DEF Fresh
  <2> QED BY <1>3, <2>1, <2>2 DEF Recounted
<1>11. TypeOK'
  <2>1. \A j, k \in DOMAIN N : N[j].client = N[k].client => j = k
    <3> SUFFICES ASSUME NEW j \in DOMAIN N, NEW k \in DOMAIN N, N[j].client = N[k].client,
                        j # p, k # p
                 PROVE  j = k
      BY <1>9, <1>10
    <3>1. Purged[j].client = Purged[k].client /\ j \in DOMAIN Purged /\ k \in DOMAIN Purged
      BY <1>9
    <3> QED BY <3>1, PurgedIsMap
  <2> QED BY <1>1, <1>2, <1>6, <1>8, <2>1 DEF TypeOK
<1>12. TimesAreRecent'
  <2>1. /\ \A i \in 1 .. Len(A) : elapsed - Window < A[i] /\ A[i] <= elapsed /\ A[i] \in Nat
        /\ \A i, j \in 1 .. Len(A) : i <= j => A[i] <= A[j]
    BY <1>6 DEF IInv, TimesAreRecent, A, LimiterAssumption
  <2>2. ASSUME NEW i \in 1 .. Len(A) + 1
        PROVE  /\ elapsed - Window < admitted'[c][i]
               /\ admitted'[c][i] <= elapsed /\ admitted'[c][i] \in Nat
    <3>1. CASE i = Len(A) + 1 BY <1>18, <1>19, <3>1
    <3>2. CASE i # Len(A) + 1
      <4>1. i \in 1 .. Len(A) BY <1>19, <3>2
      <4> QED BY <1>18, <2>1, <4>1
    <3> QED BY <3>1, <3>2
  <2>3. ASSUME NEW i \in 1 .. Len(A) + 1, NEW j \in 1 .. Len(A) + 1, i <= j
        PROVE  admitted'[c][i] <= admitted'[c][j]
    <3>1. CASE j = Len(A) + 1 BY <1>18, <2>2, <3>1
    <3>2. CASE j # Len(A) + 1
      <4>1. i \in 1 .. Len(A) /\ j \in 1 .. Len(A) BY <1>19, <2>3, <3>2
      <4> QED BY <1>18, <2>1, <2>3, <4>1
    <3> QED BY <3>1, <3>2
  <2>4. ASSUME NEW d \in Clients, d # c
        PROVE  /\ \A i \in 1 .. Len(admitted'[d]) :
                    elapsed - Window < admitted'[d][i] /\ admitted'[d][i] <= elapsed
               /\ \A i, j \in 1 .. Len(admitted'[d]) :
                    i <= j => admitted'[d][i] <= admitted'[d][j]
    BY <1>8, <2>4 DEF IInv, TimesAreRecent
  <2> QED BY <1>1, <1>7, <1>8, <2>2, <2>3, <2>4 DEF TimesAreRecent
<1>13. CountsAdmissions(N[p], admitted'[c])
  <2>1. CASE /\ p \in DOMAIN Purged /\ Purged[p].client = c
             /\ N[p] = [Purged[p] EXCEPT !.count = @ + 1]
    <3>1. Purged[p] \in Entries /\ CountsAdmissions(Purged[p], A) BY <1>5, <2>1 DEF A
    <3>2. N[p].count = Purged[p].count + 1 /\ N[p].startedAt = Purged[p].startedAt
          /\ Purged[p].count \in Nat /\ Purged[p].count > 0
      BY <1>4, <2>1, <3>1 DEF Entries
    <3>3. Len(admitted'[c]) - N[p].count = Len(A) - Purged[p].count
      BY <1>19, <1>20, <3>2
    <3>4. \A i \in 1 .. Len(A) - Purged[p].count : i \in 1 .. Len(A) /\ admitted'[c][i] = A[i]
      BY <1>18, <1>19, <3>2
    <3> QED BY <3>1, <3>2, <3>3, <3>4 DEF CountsAdmissions
  <2>2. CASE /\ N[p] = Fresh(c)
             /\ \/ p \in DOMAIN Purged /\ Purged[p].client = c /\ ~Live(Purged[p])
                \/ p = Len(Purged) + 1
    <3>1. Len(A) <= Limit
      <4>1. CASE p \in DOMAIN Purged /\ Purged[p].client = c /\ ~Live(Purged[p])
        <5>1. Purged[p] \in Entries /\ CountsAdmissions(Purged[p], admitted[Purged[p].client])
          BY <1>5, <4>1
        <5> QED BY <4>1, <5>1, ExpiredHasFew DEF A
      <4>2. CASE p = Len(Purged) + 1
        <5>1. \A k \in DOMAIN Purged : Purged[k].client # c
          BY <1>3, <1>5, <4>2 DEF Recounted
        <5> QED BY <1>5, <5>1 DEF A
      <4> QED BY <2>2, <4>1, <4>2
    <3>2. N[p].count = 1 /\ N[p].startedAt = Wall BY <2>2 DEF Fresh
    <3>3. Len(admitted'[c]) - N[p].count = Len(A) BY <1>6, <1>7, <1>8, <3>2
    <3>4. \A i \in 1 .. Len(A) : A[i] <= elapsed BY DEF IInv, TimesAreRecent, A
    <3>5. N[p].startedAt - MaxSetback + setback = elapsed BY <1>4, <3>2
    <3> QED BY <1>7, <1>8, <3>1, <3>3, <3>4, <3>5 DEF CountsAdmissions
  <2> QED BY <1>3, <2>1, <2>2 DEF Recounted
<1>14. EntriesCount'
  <2>1. ASSUME NEW k \in DOMAIN N PROVE CountsAdmissions(N[k], admitted'[N[k].client])
    <3>1. CASE k = p BY <1>10, <1>13, <3>1
    <3>2. CASE k # p
      <4>1. k \in DOMAIN Purged /\ N[k] = Purged[k] /\ N[k].client # c BY <1>9, <3>2
      <4>2. N[k].client \in Clients BY <1>5, <4>1, EntryFields
      <4> QED BY <1>5, <1>8, <4>1, <4>2
    <3> QED BY <3>1, <3>2
  <2> QED BY <1>1, <2>1 DEF EntriesCount, CountsAdmissions
<1>15. OthersAreFew'
  <2> SUFFICES ASSUME NEW d \in Clients, \A k \in DOMAIN N : N[k].client # d
               PROVE  Len(admitted'[d]) <= Limit
    BY <1>1 DEF OthersAreFew
  <2>1. d # c BY <1>10
  <2>2. ASSUME NEW k \in DOMAIN Purged PROVE Purged[k].client # d
    <3>1. CASE k = p BY <1>3, <1>5, <2>1, <3>1 DEF Recounted
    <3>2. CASE k # p BY <1>3, <3>2 DEF Recounted
    <3> QED BY <3>1, <3>2
  <2> QED BY <1>5, <1>8, <2>1, <2>2
<1>16. OldestFirst'
  <2> SUFFICES ASSUME setback = 0
               PROVE  /\ \A k \in DOMAIN N : N[k].startedAt <= Wall
                      /\ \A j, k \in DOMAIN N : j <= k => N[j].startedAt <= N[k].startedAt
    BY <1>1 DEF OldestFirst, Wall
  <2>1. /\ \A k \in DOMAIN Purged : Live(Purged[k]) /\ Purged[k].startedAt <= Wall
        /\ \A j, k \in DOMAIN Purged : j <= k => Purged[j].startedAt <= Purged[k].startedAt
    BY PurgedIsLive
  <2>2. CASE /\ p \in DOMAIN Purged /\ Purged[p].client = c
             /\ N[p] = [Purged[p] EXCEPT !.count = @ + 1]
    <3>1. Purged[p] \in Entries BY <1>5, <2>2
    <3>2. N[p].startedAt = Purged[p].startedAt BY <2>2, <3>1 DEF Entries
    <3>3. \A k \in DOMAIN N : k \in DOMAIN Purged /\ N[k].startedAt = Purged[k].startedAt
      BY <1>9, <2>2, <3>2
    <3> QED BY <2>1, <3>3
  <2>3. CASE N[p] = Fresh(c) /\ p = Len(Purged) + 1
    <3>1. N[p].startedAt = Wall BY <2>3 DEF Fresh
    <3>2. \A k \in DOMAIN N : k # p => k < p /\ N[k].startedAt <= Wall
      BY <1>5, <1>9, <2>1, <2>3
    <3>3. \A k \in DOMAIN N : N[k].startedAt <= Wall BY <1>4, <3>1, <3>2
    <3>4. ASSUME NEW j \in DOMAIN N, NEW k \in DOMAIN N, j <= k
          PROVE  N[j].startedAt <= N[k].startedAt
      <4>1. CASE k = p BY <3>1, <3>3, <4>1
      <4>2. CASE k # p /\ j # p BY <1>9, <2>1, <3>4, <4>2
      <4>3. CASE k # p /\ j = p
        <5>1. k \in Nat /\ p \in Nat BY <1>5, <1>9, <2>3, <4>3
        <5> QED BY <3>2, <3>4, <4>3, <5>1
      <4> QED BY <4>1, <4>2, <4>3
    <3> QED BY <3>3, <3>4
  <2> QED BY <1>3, <2>1, <2>2, <2>3 DEF Recounted
<1>17. WaitOutlasts' BY <1>1 DEF WaitOutlasts
<1> QED BY <1>11, <1>12, <1>14, <1>15, <1>16, <1>17 DEF IInv

-----------------------------------------------------------------------------
(* The Retry-After covers what is left of the window it is counted from.   *)
LEMMA RetryAfterCovers ==
  ASSUME LimiterAssumption, NEW c \in Clients, Remaining(c) \in Int
  PROVE  /\ TicksPerSecond * RetryAfter(c) \in Nat
         /\ TicksPerSecond * RetryAfter(c) >= Remaining(c)
<1> DEFINE x == (Remaining(c) + TicksPerSecond - 1) \div TicksPerSecond
<1>1. x \in Int /\ TicksPerSecond * x >= Remaining(c) BY RoundedUp
<1>2. TicksPerSecond \in Nat /\ TicksPerSecond > 0 BY DEF LimiterAssumption
<1>3. RetryAfter(c) = Max({1, x}) BY DEF RetryAfter
<1> HIDE DEF x
<1>4. \E m \in {1, x} : \A y \in {1, x} : m >= y BY <1>1
<1>5. RetryAfter(c) \in {1, x} /\ RetryAfter(c) >= 1 /\ RetryAfter(c) >= x
  BY <1>3, <1>4 DEF Max
<1>6. RetryAfter(c) \in Nat BY <1>1, <1>5
<1>7. TicksPerSecond * RetryAfter(c) >= TicksPerSecond * x
  BY <1>1, <1>2, <1>5, <1>6
<1>8. TicksPerSecond * RetryAfter(c) \in Nat /\ TicksPerSecond * x \in Int
  BY <1>1, <1>2, <1>6
<1> QED BY <1>1, <1>7, <1>8

(* The entry a Retry-After is counted from.                                *)
LEMMA DeniedFor ==
  ASSUME LimiterAssumption, IInv, NEW c \in Clients, Denied(c)
  PROVE  \E k \in DOMAIN Purged :
           /\ Remaining(c) = Window - (Wall - Purged[k].startedAt)
           /\ \/ Purged[k].client = c
              \/ k = 1 /\ \A j \in DOMAIN Purged : Live(Purged[j]) => Purged[j].client # c
<1>1. /\ DOMAIN Purged = 1 .. Len(Purged) /\ Len(Purged) \in Nat
      /\ maxEntries \in Nat /\ maxEntries > 0
  BY PurgedIsMap, Numbers DEF IInv
<1>2. CASE OverLimit(c)
  <2> DEFINE k == CHOOSE p \in Positions(c) : TRUE
  <2>1. k \in Positions(c) BY <1>2 DEF OverLimit
  <2>2. Remaining(c) = Window - (Wall - Purged[k].startedAt) BY <1>2 DEF Remaining
  <2> HIDE DEF k
  <2> QED BY <2>1, <2>2 DEF Positions
<1>3. CASE ~OverLimit(c)
  <2>1. Remaining(c) = Window - (Wall - Purged[1].startedAt) BY <1>3 DEF Remaining
  <2>2. 1 \in DOMAIN Purged BY <1>1, <1>3 DEF Denied, Full
  <2>3. \A j \in DOMAIN Purged : Live(Purged[j]) => Purged[j].client # c
    BY <1>3 DEF Denied, HasWindow, Positions
  <2> QED BY <2>1, <2>2, <2>3
<1> QED BY <1>2, <1>3

(* A denial leaves the purged Map, and the end of its Retry-After covers   *)
(* the entry it was counted from.                                          *)
LEMMA DenyStep ==
  ASSUME LimiterAssumption, IInv, NEW c \in Clients, Deny(c)
  PROVE  IInv'
<1> DEFINE until == Wall + TicksPerSecond * RetryAfter(c)
<1>1. /\ Denied(c) /\ windows' = Purged
      /\ waitUntil' = [waitUntil EXCEPT ![c] = until]
      /\ maxEntries' = maxEntries /\ elapsed' = elapsed /\ setback' = setback
      /\ admitted' = admitted
  BY DEF Deny
<1>2. /\ {Window, Limit, elapsed, setback, MaxSetback, Wall, maxEntries} \subseteq Nat
      /\ Wall = MaxSetback + elapsed - setback /\ Window > 0
  BY Numbers DEF IInv
<1>3. /\ Purged \in Seq(Entries) /\ DOMAIN Purged = 1 .. Len(Purged)
      /\ Len(Purged) \in Nat /\ Len(Purged) <= maxEntries
      /\ \A k \in DOMAIN Purged : Purged[k].startedAt \in Nat
  <2>1. Purged \in Seq(Entries) /\ Len(Purged) <= Len(windows) BY PurgedIsMap
  <2>2. windows \in Seq(Entries) /\ Len(windows) <= maxEntries BY DEF IInv, TypeOK
  <2>3. \A k \in DOMAIN Purged : Purged[k].startedAt \in Nat BY <2>1, EntryFields
  <2> QED BY <1>2, <2>1, <2>2, <2>3
<1>4. PICK k \in DOMAIN Purged :
        /\ Remaining(c) = Window - (Wall - Purged[k].startedAt)
        /\ \/ Purged[k].client = c
           \/ k = 1 /\ \A j \in DOMAIN Purged : Live(Purged[j]) => Purged[j].client # c
  BY <1>1, DeniedFor
<1>5. Remaining(c) \in Int BY <1>2, <1>3, <1>4
<1>6. until \in Nat /\ until >= Purged[k].startedAt + Window
  <2>1. TicksPerSecond * RetryAfter(c) \in Nat /\ TicksPerSecond * RetryAfter(c) >= Remaining(c)
    BY <1>5, RetryAfterCovers
  <2>2. Purged[k].startedAt \in Nat BY <1>3
  <2> QED BY <1>2, <1>4, <2>1, <2>2
<1> HIDE DEF until
<1>7. TypeOK'
  <2>1. \A i, j \in DOMAIN Purged : Purged[i].client = Purged[j].client => i = j
    BY PurgedIsMap
  <2> QED BY <1>1, <1>3, <1>6, <2>1 DEF IInv, TypeOK
<1>8. TimesAreRecent' BY <1>1 DEF IInv, TimesAreRecent
<1>9. EntriesCount'
  <2>1. \A i \in DOMAIN Purged : CountsAdmissions(Purged[i], admitted[Purged[i].client])
    BY PurgedIsMap
  <2> QED BY <1>1, <2>1 DEF EntriesCount, CountsAdmissions
<1>10. OthersAreFew'
  <2>1. \A d \in Clients :
          (\A i \in DOMAIN Purged : Purged[i].client # d) => Len(admitted[d]) <= Limit
    BY PurgedIsMap
  <2> QED BY <1>1, <2>1 DEF OthersAreFew
<1>11. OldestFirst'
  <2>1. setback = 0 =>
          /\ \A i \in DOMAIN Purged : Purged[i].startedAt <= Wall
          /\ \A i, j \in DOMAIN Purged : i <= j => Purged[i].startedAt <= Purged[j].startedAt
    BY PurgedIsLive
  <2> QED BY <1>1, <2>1 DEF OldestFirst, Wall
<1>12. WaitOutlasts'
  <2> SUFFICES ASSUME setback = 0, NEW d \in Clients, waitUntil'[d] # 0
               PROVE  /\ \A i \in DOMAIN Purged :
                           Purged[i].client = d => Purged[i].startedAt + Window <= waitUntil'[d]
                      /\ \/ Len(Purged) < maxEntries
                         \/ Len(Purged) > 0 /\ Purged[1].startedAt + Window <= waitUntil'[d]
    BY <1>1 DEF WaitOutlasts
  <2>1. waitUntil \in [Clients -> Nat] BY DEF IInv, TypeOK
  <2>2. CASE d = c
    <3>1. waitUntil'[d] = until BY <1>1, <2>1, <2>2
    <3>2. ASSUME NEW i \in DOMAIN Purged, Purged[i].client = c PROVE i = k
      <4>1. Live(Purged[i]) BY PurgedIsLive
      <4>2. Purged[k].client = c BY <1>4, <3>2, <4>1
      <4> QED BY <3>2, <4>2, PurgedIsMap
    <3>3. 1 \in DOMAIN Purged /\ 1 <= k BY <1>3
    <3>4. Purged[1].startedAt <= Purged[k].startedAt BY <3>3, PurgedIsLive
    <3>5. Purged[1].startedAt + Window <= until BY <1>2, <1>3, <1>6, <3>3, <3>4
    <3> QED BY <1>3, <1>6, <2>2, <3>1, <3>2, <3>3, <3>5
  <2>3. CASE d # c
    <3>1. waitUntil'[d] = waitUntil[d] BY <1>1, <2>1, <2>3
    <3>2. \A i \in DOMAIN Purged : \E j \in DOMAIN windows : Purged[i] = windows[j]
      BY PurgedIsMap
    <3>3. /\ \A i \in DOMAIN windows :
               windows[i].client = d => windows[i].startedAt + Window <= waitUntil[d]
          /\ \/ Len(windows) < maxEntries
             \/ Len(windows) > 0 /\ windows[1].startedAt + Window <= waitUntil[d]
      BY <3>1 DEF IInv, WaitOutlasts
    <3>4. \/ Purged = windows \/ Len(Purged) < Len(windows) BY PurgedIsLive
    <3>5. Len(windows) \in Nat /\ Len(windows) <= maxEntries BY DEF IInv, TypeOK
    <3> QED BY <1>2, <1>3, <3>1, <3>2, <3>3, <3>4, <3>5
  <2> QED BY <2>2, <2>3
<1> QED BY <1>7, <1>8, <1>9, <1>10, <1>11, <1>12 DEF IInv

(* A new isolate starts as the first did.                                  *)
LEMMA IsolateGoneStep == ASSUME LimiterAssumption, IInv, IsolateGone PROVE IInv'
<1>1. TypeOK' BY Numbers DEF IInv, TypeOK, IsolateGone
<1>2. TimesAreRecent' /\ EntriesCount' /\ OthersAreFew'
  BY Numbers DEF IInv, IsolateGone, TimesAreRecent, EntriesCount, OthersAreFew
<1>3. OldestFirst' /\ WaitOutlasts' BY DEF IsolateGone, OldestFirst, WaitOutlasts
<1> QED BY <1>1, <1>2, <1>3 DEF IInv

(* A tick forgets the admissions that are a Window old: a front of them.   *)
LEMMA TickStep == ASSUME LimiterAssumption, IInv, Tick PROVE IInv'
<1> DEFINE Kept(c) == {k \in DOMAIN admitted[c] : admitted[c][k] > elapsed' - Window}
<1>1. /\ elapsed < MaxTime /\ elapsed' = elapsed + 1
      /\ admitted' = [c \in Clients |-> From(admitted[c], Kept(c))]
      /\ maxEntries' = maxEntries /\ setback' = setback /\ windows' = windows
      /\ waitUntil' = waitUntil
  BY DEF Tick
<1>2. {Window, Limit, elapsed, setback, MaxSetback, Wall} \subseteq Nat
  BY Numbers DEF IInv
<1>10. elapsed' = elapsed + 1 /\ elapsed \in Int /\ Window \in Int BY <1>1, <1>2
<1>3. ASSUME NEW c \in Clients
      PROVE  /\ admitted[c] \in Seq(0 .. MaxTime) /\ admitted'[c] \in Seq(0 .. MaxTime)
             /\ \E d \in 0 .. Len(admitted[c]) :
                  /\ Len(admitted'[c]) = Len(admitted[c]) - d
                  /\ \A i \in 1 .. Len(admitted[c]) - d : admitted'[c][i] = admitted[c][i + d]
                  /\ d < Len(admitted[c]) => admitted[c][d + 1] > elapsed + 1 - Window
  <2>1. admitted[c] \in Seq(0 .. MaxTime) BY DEF IInv, TypeOK
  <2>2. Kept(c) \in SUBSET DOMAIN admitted[c] OBVIOUS
  <2>3. admitted'[c] = From(admitted[c], Kept(c)) BY <1>1
  <2>4. \A k \in Kept(c) : admitted[c][k] > elapsed + 1 - Window BY <1>10
  <2> HIDE DEF Kept
  <2>5. admitted'[c] \in Seq(0 .. MaxTime) BY <2>1, <2>2, <2>3, FromIsSuffix
  <2>6. \E d \in 0 .. Len(admitted[c]) :
          /\ Len(From(admitted[c], Kept(c))) = Len(admitted[c]) - d
          /\ \A i \in 1 .. Len(admitted[c]) - d :
               From(admitted[c], Kept(c))[i] = admitted[c][i + d]
          /\ d < Len(admitted[c]) => d + 1 \in Kept(c)
    BY <2>1, <2>2, FromIsSuffix
  <2> QED BY <2>1, <2>3, <2>4, <2>5, <2>6
<1>4. TypeOK'
  <2>1. admitted' \in [Clients -> Seq(0 .. MaxTime)] BY <1>1, <1>3
  <2>2. elapsed' \in 0 .. MaxTime BY <1>1, <1>2 DEF LimiterAssumption
  <2> QED BY <1>1, <2>1, <2>2 DEF IInv, TypeOK
<1>5. TimesAreRecent'
  <2> SUFFICES ASSUME NEW c \in Clients
               PROVE  /\ \A i \in 1 .. Len(admitted'[c]) :
                           elapsed' - Window < admitted'[c][i] /\ admitted'[c][i] <= elapsed'
                      /\ \A i, j \in 1 .. Len(admitted'[c]) :
                           i <= j => admitted'[c][i] <= admitted'[c][j]
    BY DEF TimesAreRecent
  <2>1. PICK d \in 0 .. Len(admitted[c]) :
          /\ Len(admitted'[c]) = Len(admitted[c]) - d
          /\ \A i \in 1 .. Len(admitted[c]) - d : admitted'[c][i] = admitted[c][i + d]
          /\ d < Len(admitted[c]) => admitted[c][d + 1] > elapsed + 1 - Window
    BY <1>3
  <2> DEFINE A == admitted[c]
  <2>2. A \in Seq(0 .. MaxTime) /\ Len(A) \in Nat BY <1>3
  <2>3. \A i \in 1 .. Len(A) : A[i] \in Nat /\ A[i] <= elapsed
    BY <2>2 DEF IInv, TimesAreRecent, LimiterAssumption
  <2>4. \A i, j \in 1 .. Len(A) : i <= j => A[i] <= A[j] BY DEF IInv, TimesAreRecent
  <2>5. /\ Len(admitted'[c]) = Len(A) - d /\ d \in 0 .. Len(A)
        /\ \A i \in 1 .. Len(A) - d : admitted'[c][i] = A[i + d]
        /\ d < Len(A) => A[d + 1] > elapsed + 1 - Window
    BY <2>1
  <2> HIDE DEF A
  <2>8. d \in Nat /\ Len(A) \in Nat /\ d <= Len(A) BY <2>2, <2>5
  <2>6. ASSUME NEW i \in 1 .. Len(A) - d
        PROVE  elapsed' - Window < admitted'[c][i] /\ admitted'[c][i] <= elapsed'
    <3>1. d + 1 \in 1 .. Len(A) /\ i + d \in 1 .. Len(A) /\ d + 1 <= i + d
      BY <2>8
    <3>2. A[d + 1] <= A[i + d] /\ A[d + 1] > elapsed + 1 - Window
      BY <2>2, <2>4, <2>5, <3>1
    <3>3. A[d + 1] \in Nat /\ A[i + d] \in Nat /\ A[i + d] <= elapsed BY <2>3, <3>1
    <3>4. admitted'[c][i] = A[i + d] BY <2>5
    <3> QED BY <1>10, <3>2, <3>3, <3>4
  <2>7. ASSUME NEW i \in 1 .. Len(A) - d, NEW j \in 1 .. Len(A) - d, i <= j
        PROVE  admitted'[c][i] <= admitted'[c][j]
    <3>1. i + d \in 1 .. Len(A) /\ j + d \in 1 .. Len(A) /\ i + d <= j + d
      BY <2>7, <2>8
    <3> QED BY <2>4, <2>5, <3>1
  <2> QED BY <2>5, <2>6, <2>7
<1>6. EntriesCount'
  <2>1. ASSUME NEW k \in DOMAIN windows
        PROVE  CountsAdmissions(windows[k], admitted'[windows[k].client])
    <3> DEFINE e == windows[k]
               A == admitted[e.client]
    <3>1. e \in Entries /\ CountsAdmissions(e, A) BY DEF IInv, TypeOK, EntriesCount
    <3>2. e.client \in Clients /\ e.count \in Nat BY <1>2, <3>1 DEF Entries
    <3>3. PICK d \in 0 .. Len(A) :
            /\ Len(admitted'[e.client]) = Len(A) - d
            /\ \A i \in 1 .. Len(A) - d : admitted'[e.client][i] = A[i + d]
      BY <1>3, <3>2
    <3>4. Len(A) \in Nat BY <1>3, <3>2
    <3> HIDE DEF e, A
    <3>5. Len(A) - d - e.count <= Limit BY <1>2, <3>1, <3>2, <3>3, <3>4 DEF CountsAdmissions
    <3>6. ASSUME NEW i \in 1 .. Len(A) - d - e.count
          PROVE  admitted'[e.client][i] <= e.startedAt - MaxSetback + setback
      <4>1. i \in 1 .. Len(A) - d /\ i + d \in 1 .. Len(A) - e.count BY <3>2, <3>3, <3>4
      <4> QED BY <3>1, <3>3, <4>1 DEF CountsAdmissions
    <3>7. CountsAdmissions(e, admitted'[e.client]) BY <3>3, <3>5, <3>6 DEF CountsAdmissions
    <3> QED BY <3>7 DEF e
  <2> QED BY <1>1, <2>1 DEF EntriesCount, CountsAdmissions
<1>7. OthersAreFew'
  <2> SUFFICES ASSUME NEW c \in Clients, \A k \in DOMAIN windows : windows[k].client # c
               PROVE  Len(admitted'[c]) <= Limit
    BY <1>1 DEF OthersAreFew
  <2>1. Len(admitted[c]) <= Limit BY DEF IInv, OthersAreFew
  <2>2. PICK d \in 0 .. Len(admitted[c]) : Len(admitted'[c]) = Len(admitted[c]) - d
    BY <1>3
  <2>3. Len(admitted[c]) \in Nat BY <1>3
  <2> QED BY <1>2, <2>1, <2>2, <2>3
<1>8. OldestFirst'
  <2>1. Wall' = Wall + 1 BY <1>1, <1>2 DEF Wall
  <2>2. windows \in Seq(Entries) BY DEF IInv, TypeOK
  <2>3. \A k \in DOMAIN windows : windows[k].startedAt \in Nat BY <2>2, EntryFields
  <2> QED BY <1>1, <1>2, <2>1, <2>3 DEF IInv, OldestFirst
<1>9. WaitOutlasts' BY <1>1 DEF IInv, WaitOutlasts
<1> QED BY <1>4, <1>5, <1>6, <1>7, <1>8, <1>9 DEF IInv

(* A clock set back leaves more time between an admission and the window   *)
(* that began after it.                                                    *)
LEMMA SetBackStep == ASSUME LimiterAssumption, IInv, SetBack PROVE IInv'
<1>1. /\ setback < MaxSetback /\ setback' = setback + 1 /\ maxEntries' = maxEntries
      /\ elapsed' = elapsed /\ windows' = windows /\ admitted' = admitted
      /\ waitUntil' = waitUntil
  BY DEF SetBack
<1>2. {Window, Limit, elapsed, setback, MaxSetback, Wall} \subseteq Nat
  BY Numbers DEF IInv
<1>3. TypeOK' BY <1>1, <1>2 DEF IInv, TypeOK
<1>4. TimesAreRecent' /\ OthersAreFew'
  BY <1>1 DEF IInv, TimesAreRecent, OthersAreFew
<1>5. EntriesCount'
  <2>1. ASSUME NEW k \in DOMAIN windows
        PROVE  /\ Len(admitted[windows[k].client]) - windows[k].count <= Limit
               /\ \A i \in 1 .. Len(admitted[windows[k].client]) - windows[k].count :
                    admitted[windows[k].client][i]
                      <= windows[k].startedAt - MaxSetback + (setback + 1)
    <3> DEFINE e == windows[k]
               A == admitted[e.client]
    <3>1. e \in Entries /\ CountsAdmissions(e, A) BY DEF IInv, TypeOK, EntriesCount
    <3>2. e.client \in Clients /\ e.count \in Nat /\ e.startedAt \in Nat
      BY <1>2, <3>1 DEF Entries
    <3>3. A \in Seq(0 .. MaxTime) BY <3>2 DEF IInv, TypeOK
    <3> HIDE DEF e, A
    <3>4. ASSUME NEW i \in 1 .. Len(A) - e.count
          PROVE  A[i] <= e.startedAt - MaxSetback + (setback + 1)
      <4>1. i \in 1 .. Len(A) BY <3>2, <3>3
      <4>2. A[i] \in Nat BY <3>3, <4>1 DEF LimiterAssumption
      <4>3. A[i] <= e.startedAt - MaxSetback + setback BY <3>1 DEF CountsAdmissions
      <4> QED BY <1>2, <3>2, <4>2, <4>3
    <3>5. Len(A) - e.count <= Limit BY <3>1 DEF CountsAdmissions
    <3> QED BY <3>4, <3>5 DEF e, A
  <2> QED BY <1>1, <2>1 DEF EntriesCount, CountsAdmissions
<1>6. OldestFirst' /\ WaitOutlasts' BY <1>1, <1>2 DEF OldestFirst, WaitOutlasts
<1> QED BY <1>3, <1>4, <1>5, <1>6 DEF IInv

(* Every step keeps the invariant.                                         *)
LEMMA Inductive == ASSUME LimiterAssumption, IInv, [Next]_vars PROVE IInv'
<1>1. ASSUME NEW c \in Clients, Admit(c) PROVE IInv' BY <1>1, AdmitStep
<1>2. ASSUME NEW c \in Clients, Deny(c) PROVE IInv' BY <1>2, DenyStep
<1>3. CASE IsolateGone BY <1>3, IsolateGoneStep
<1>4. CASE Tick BY <1>4, TickStep
<1>5. CASE SetBack BY <1>5, SetBackStep
<1>6. CASE UNCHANGED vars
  BY <1>6 DEF vars, IInv, TypeOK, TimesAreRecent, EntriesCount, CountsAdmissions,
              OthersAreFew, OldestFirst, WaitOutlasts, Wall
<1> QED BY <1>1, <1>2, <1>3, <1>4, <1>5, <1>6 DEF Next

-----------------------------------------------------------------------------
(* At most a window's worth before the entry's window began, and a         *)
(* window's worth in it.                                                   *)
LEMMA RateIsBounded == ASSUME LimiterAssumption, IInv PROVE ClientRateBounded
<1> SUFFICES ASSUME NEW c \in Clients PROVE Len(admitted[c]) <= 2 * Limit
  BY DEF ClientRateBounded
<1>1. Limit \in Nat /\ Len(admitted[c]) \in Nat BY Numbers DEF IInv, TypeOK
<1>2. CASE \E k \in DOMAIN windows : windows[k].client = c
  <2>1. PICK k \in DOMAIN windows : windows[k].client = c BY <1>2
  <2>2. windows[k] \in Entries /\ CountsAdmissions(windows[k], admitted[c])
    BY <2>1 DEF IInv, TypeOK, EntriesCount
  <2>3. windows[k].count \in 1 .. Limit /\ Len(admitted[c]) - windows[k].count <= Limit
    BY <2>2 DEF Entries, CountsAdmissions
  <2> QED BY <1>1, <2>3
<1>3. CASE \A k \in DOMAIN windows : windows[k].client # c
  BY <1>1, <1>3 DEF IInv, OthersAreFew
<1> QED BY <1>2, <1>3

(* What is left after a purge is live: it is the client's own window, or   *)
(* the whole Map is.                                                       *)
LEMMA DenialsAreDue == ASSUME LimiterAssumption, IInv PROVE DenialIsDue
<1> SUFFICES ASSUME setback = 0, NEW c \in Clients, Denied(c)
             PROVE  \/ \E k \in DOMAIN windows :
                         /\ windows[k].client = c /\ Live(windows[k])
                         /\ windows[k].count = Limit
                    \/ Cardinality({k \in DOMAIN windows :
                         windows[k].client # c /\ Live(windows[k])}) = maxEntries
  BY DEF DenialIsDue
<1>1. /\ Purged \in Seq(Entries) /\ DOMAIN Purged = 1 .. Len(Purged) /\ Len(Purged) \in Nat
      /\ \A k \in DOMAIN Purged : \E j \in DOMAIN windows : Purged[k] = windows[j]
      /\ Len(Purged) <= Len(windows)
  BY PurgedIsMap
<1>2. /\ \A k \in DOMAIN Purged : Live(Purged[k])
      /\ Purged = windows \/ Len(Purged) < Len(windows)
  BY PurgedIsLive
<1>3. /\ windows \in Seq(Entries) /\ Len(windows) \in Nat /\ Len(windows) <= maxEntries
      /\ DOMAIN windows = 1 .. Len(windows)
      /\ Limit \in Nat /\ maxEntries \in Nat
  BY Numbers DEF IInv, TypeOK
<1>4. CASE OverLimit(c)
  <2>1. PICK k \in DOMAIN Purged :
          Purged[k].client = c /\ Live(Purged[k]) /\ Purged[k].count >= Limit
    BY <1>4 DEF OverLimit, Positions
  <2>2. Purged[k].count \in 1 .. Limit BY <1>1, EntryFields
  <2>3. Purged[k].count = Limit BY <1>3, <2>1, <2>2
  <2> QED BY <1>1, <2>1, <2>3
<1>5. CASE ~HasWindow(c) /\ Full
  <2>4. Len(Purged) >= maxEntries BY <1>5 DEF Full
  <2>5. Len(Purged) \in Nat /\ Len(windows) \in Nat /\ Len(windows) <= maxEntries BY <1>1, <1>3
  <2>1. Purged = windows /\ Len(windows) = maxEntries 
    <3>1. Purged = windows \/ Len(Purged) < Len(windows) BY <1>2
    <3>2. maxEntries \in Nat BY <1>3
    <3> QED BY <2>4, <2>5, <3>1, <3>2
  <2>2. {k \in DOMAIN windows : windows[k].client # c /\ Live(windows[k])} = 1 .. maxEntries
    BY <1>2, <1>3, <1>5, <2>1 DEF HasWindow, Positions
  <2>3. Cardinality(1 .. maxEntries) = maxEntries BY <1>3, FS_Interval
  <2> QED BY <2>2, <2>3
<1> QED BY <1>4, <1>5 DEF Denied

(* When the wait is over, the client's own window is, and the Map is not   *)
(* full or its first entry is purged.                                      *)
LEMMA WaitsSuffice == ASSUME LimiterAssumption, IInv PROVE RetryAfterSuffices
<1> SUFFICES ASSUME setback = 0, NEW c \in Clients, waitUntil[c] # 0, Wall >= waitUntil[c],
                    Denied(c)
             PROVE  FALSE
  BY DEF RetryAfterSuffices
<1>1. /\ {Window, Wall, maxEntries, Len(windows), Len(Purged), waitUntil[c]} \subseteq Nat
      /\ maxEntries > 0 /\ Len(windows) <= maxEntries
      /\ windows \in Seq(Entries) /\ DOMAIN windows = 1 .. Len(windows)
      /\ \A k \in DOMAIN windows : windows[k].startedAt \in Nat
  <2>1. windows \in Seq(Entries) /\ waitUntil[c] \in Nat /\ Len(windows) <= maxEntries
    BY DEF IInv, TypeOK
  <2>2. Purged \in Seq(Entries) BY PurgedIsMap
  <2>3. Window \in Nat /\ Wall \in Nat /\ maxEntries \in Nat /\ maxEntries > 0
    BY Numbers DEF IInv
  <2>4. \A k \in DOMAIN windows : windows[k].startedAt \in Nat BY <2>1, EntryFields
  <2> QED BY <2>1, <2>2, <2>3, <2>4
<1>2. /\ \A k \in DOMAIN windows :
           windows[k].client = c => windows[k].startedAt + Window <= waitUntil[c]
      /\ \/ Len(windows) < maxEntries
         \/ Len(windows) > 0 /\ windows[1].startedAt + Window <= waitUntil[c]
  BY DEF IInv, WaitOutlasts
<1>3. /\ \A k \in DOMAIN Purged : Live(Purged[k]) /\ \E j \in DOMAIN windows : Purged[k] = windows[j]
      /\ Purged = windows \/ Len(Purged) < Len(windows)
  BY PurgedIsLive, PurgedIsMap
<1>4. ~OverLimit(c)
  <2> SUFFICES ASSUME NEW k \in DOMAIN Purged, Purged[k].client = c PROVE FALSE
    BY DEF OverLimit, Positions
  <2>1. PICK j \in DOMAIN windows : Purged[k] = windows[j] BY <1>3
  <2>2. windows[j].startedAt + Window <= waitUntil[c] /\ Live(windows[j]) BY <1>2, <1>3, <2>1
  <2> QED BY <1>1, <2>2 DEF Live
<1>5. ~Full
  <2> SUFFICES ASSUME Len(Purged) >= maxEntries PROVE FALSE BY DEF Full
  <2>1. Purged = windows /\ Len(windows) = maxEntries BY <1>1, <1>3
  <2>2. 1 \in DOMAIN windows /\ windows[1].startedAt + Window <= waitUntil[c]
    BY <1>1, <1>2, <2>1
  <2>3. Live(windows[1]) BY <1>3, <2>1, <2>2
  <2> QED BY <1>1, <2>2, <2>3 DEF Live
<1> QED BY <1>4, <1>5 DEF Denied

(* The strengthening holds in every reachable state.                       *)
THEOREM LimiterInductive == ASSUME LimiterAssumption PROVE Spec => []IInv
<1>1. Init => IInv BY InitInv
<1>2. IInv /\ [Next]_vars => IInv' BY Inductive
<1> QED BY <1>1, <1>2, PTL DEF Spec

(* The types of the limiter's state (TypeOK), the bound on a client's rate *)
(* however the clock is set back (ClientRateBounded), and, for a clock that*)
(* was not, that a denial is due (DenialIsDue) and that the wait it asks   *)
(* for is long enough (RetryAfterSuffices).                                *)
THEOREM LimiterCorrect ==
  ASSUME LimiterAssumption
  PROVE  Spec => [](TypeOK /\ ClientRateBounded /\ DenialIsDue /\ RetryAfterSuffices)
<1>1. IInv => TypeOK /\ ClientRateBounded /\ DenialIsDue /\ RetryAfterSuffices
  BY RateIsBounded, DenialsAreDue, WaitsSuffice DEF IInv
<1> QED BY <1>1, LimiterInductive, PTL
=============================================================================
