--------------------------- MODULE HiscoresProofs ---------------------------
(***************************************************************************)
(* Proofs about the three parts of a Hiscores lookup, for every set of     *)
(* lookups, players and clients, every window length, limit and set of     *)
(* allowances.                                                             *)
(*                                                                         *)
(* The server's budget holds because a window's units are numbered up to   *)
(* at most the largest allowance, every unit is granted once and with a    *)
(* reading inside its window, and two windows never overlap: a Window of   *)
(* the clock then meets at most two of them.                               *)
(*                                                                         *)
(* The page's properties are inductive together with its types: a lookup   *)
(* takes a number above all earlier ones, so only the last is the latest,  *)
(* and only its answer finds the field as it asked.                        *)
(*                                                                         *)
(* The limiter has proofs of its own (HiscoresLimiterProofs), which hold   *)
(* here because only one part moves and the others rest.                   *)
(***************************************************************************)
EXTENDS MCHiscores, FiniteSetTheorems, TLAPS

-----------------------------------------------------------------------------
(* The server.                                                             *)

(* A unit's number and its clock reading belong to its window.             *)
UnitsBelong ==
  \A g \in granted :
    /\ g.unit \in 1 .. Quota
    /\ g.window <= g.at /\ g.at < g.window + Window

UnitsGrantedOnce ==
  \A g, h \in granted : g.window = h.window /\ g.unit = h.unit => g = h

WindowsApart ==
  \A g, h \in granted : g.window < h.window => g.window + Window <= h.window

(* The stored window is the last, and counts the units granted in it.      *)
StoredIsLast ==
  \A g \in granted :
    /\ Stored
    /\ g.window <= budget.startedAt
    /\ g.window # budget.startedAt => g.window + Window <= budget.startedAt
    /\ g.window = budget.startedAt => g.unit <= budget.used

IInv ==
  /\ TypeOK /\ WindowWithinQuota /\ CallsArePaidFor
  /\ UnitsBelong /\ UnitsGrantedOnce /\ WindowsApart /\ StoredIsLast

Assumptions == WindowAssumption /\ QuotaAssumption /\ BoundAssumption

-----------------------------------------------------------------------------
LEMMA QuotaIsLargest ==
  ASSUME QuotaAssumption
  PROVE  /\ Quota \in Quotas /\ Quota \in Nat /\ Quota > 0
         /\ \A q \in Quotas : q \in Nat /\ q > 0 /\ q <= Quota
<1>1. PICK q \in Quotas : \A p \in Quotas : q >= p BY DEF QuotaAssumption
<1>2. Quota \in Quotas /\ \A p \in Quotas : Quota >= p BY <1>1 DEF Quota, Max
<1> QED BY <1>2 DEF QuotaAssumption

LEMMA InitInv == ASSUME Assumptions, Init PROVE IInv
<1>1. TypeOK
  BY DEF Init, TypeOK, Asks, NoAsk, NoBudget, Replies, Assumptions, QuotaAssumption
<1>2. WindowWithinQuota
  BY QuotaIsLargest DEF Assumptions, Init, WindowWithinQuota, NoBudget
<1>3. CallsArePaidFor BY DEF Init, CallsArePaidFor
<1>4. UnitsBelong /\ UnitsGrantedOnce /\ WindowsApart /\ StoredIsLast
  BY DEF Init, UnitsBelong, UnitsGrantedOnce, WindowsApart, StoredIsLast
<1> QED BY <1>1, <1>2, <1>3, <1>4 DEF IInv

(* What is known of a handler and its ask, after any step.                 *)
HandlersOK ==
  /\ phase \in [Lookups -> {"free", "budget", "provider"}]
  /\ ask \in [Lookups -> Asks]
  /\ \A r \in Lookups :
       /\ ask[r].stage \in {"sent", "read"} => ask[r].quota \in Quotas
       /\ ask[r].stage \in Replies => phase[r] # "free"
       /\ phase[r] = "provider" => ask[r].stage = "granted"

(* What the Durable Object stores, and the units it has granted.           *)
CoordinatorOK ==
  /\ budget \in [startedAt : Nat, used : Nat]
  /\ granted \subseteq [window : Nat, unit : Nat, at : Nat]
  /\ WindowWithinQuota
  /\ UnitsBelong /\ UnitsGrantedOnce /\ WindowsApart /\ StoredIsLast

LEMMA InvParts ==
  ASSUME IInv
  PROVE  HandlersOK /\ CoordinatorOK /\ now \in Nat /\ setbacks \in Nat
BY DEF IInv, TypeOK, CallsArePaidFor, HandlersOK, CoordinatorOK

LEMMA PartsAreInv ==
  ASSUME HandlersOK', CoordinatorOK', now' \in Nat, setbacks' \in Nat
  PROVE  IInv'
BY DEF IInv, TypeOK, CallsArePaidFor, HandlersOK, CoordinatorOK

LEMMA CoordinatorUnchanged ==
  ASSUME CoordinatorOK, UNCHANGED coordinator
  PROVE  CoordinatorOK'
BY DEF CoordinatorOK, coordinator, WindowWithinQuota, UnitsBelong, UnitsGrantedOnce,
       WindowsApart, StoredIsLast, Stored

LEMMA ReplyKeepsHandlers ==
  ASSUME QuotaAssumption, HandlersOK, NEW r \in Lookups, NEW stage \in Replies,
         Reply(r, stage), UNCHANGED phase, phase[r] # "provider"
  PROVE  HandlersOK'
BY DEF HandlersOK, Reply, NoAsk, Asks, Replies

LEMMA RespondsKeepsHandlers ==
  ASSUME QuotaAssumption, HandlersOK, NEW r \in Lookups, Responds(r)
  PROVE  HandlersOK'
<1>1. Dropped(ask[r]) \in Asks
      /\ (Dropped(ask[r]).stage \in {"sent", "read"} => Dropped(ask[r]).quota \in Quotas)
      /\ Dropped(ask[r]).stage \notin Replies
  BY DEF HandlersOK, Dropped, NoAsk, Asks, Replies
<1> QED BY <1>1 DEF HandlersOK, Responds

-----------------------------------------------------------------------------
LEMMA HandleInv ==
  ASSUME Assumptions, IInv, NEW r \in Lookups, Handle(r)
  PROVE  IInv'
<1> USE DEF Assumptions
<1>1. HandlersOK /\ CoordinatorOK /\ now \in Nat /\ setbacks \in Nat BY InvParts
<1>2. UNCHANGED <<coordinator, clock>>
  BY DEF Handle, Ask, GateAllows, GateRefuses, BudgetTimeout, LookupEnds, Calls, Responds
<1>3. CoordinatorOK' BY <1>1, <1>2, CoordinatorUnchanged
<1>4. HandlersOK'
  <2>1. CASE Ask(r)
    <3>1. PICK q \in Quotas :
            ask' = [ask EXCEPT ![r] = [stage |-> "sent", quota |-> q, at |-> 0]]
      BY <2>1 DEF Ask
    <3> QED BY <1>1, <2>1, <3>1 DEF Ask, HandlersOK, Asks, Replies
  <2>2. CASE GateAllows(r)
    BY <1>1, <2>2 DEF GateAllows, Calls, HandlersOK, Replies
  <2>3. CASE Responds(r) BY <1>1, <2>3, RespondsKeepsHandlers
  <2> QED BY <2>1, <2>2, <2>3 DEF Handle, GateRefuses, BudgetTimeout, LookupEnds
<1> QED BY <1>1, <1>2, <1>3, <1>4, PartsAreInv DEF clock

LEMMA IsolateGoneInv ==
  ASSUME Assumptions, IInv, NEW R \in SUBSET Lookups, IsolateGone(R)
  PROVE  IInv'
<1>1. HandlersOK /\ CoordinatorOK /\ now \in Nat /\ setbacks \in Nat BY InvParts
<1>2. CoordinatorOK' BY <1>1, CoordinatorUnchanged DEF IsolateGone
<1>3. ASSUME NEW r \in Lookups
      PROVE  /\ Dropped(ask[r]) \in Asks
             /\ Dropped(ask[r]).stage \in {"sent", "read"} => Dropped(ask[r]).quota \in Quotas
             /\ Dropped(ask[r]).stage \notin Replies
  BY <1>1 DEF HandlersOK, Dropped, NoAsk, Asks, Replies
<1>4. HandlersOK' BY <1>1, <1>3 DEF IsolateGone, HandlersOK
<1> QED BY <1>1, <1>2, <1>4, PartsAreInv DEF IsolateGone, clock

LEMMA ClockInv ==
  ASSUME IInv, Tick \/ SetBack
  PROVE  IInv'
<1>1. HandlersOK /\ CoordinatorOK /\ now \in Nat /\ setbacks \in Nat BY InvParts
<1>2. UNCHANGED <<handlers, coordinator>> BY DEF Tick, SetBack
<1>3. CoordinatorOK' BY <1>1, <1>2, CoordinatorUnchanged
<1>4. HandlersOK' BY <1>1, <1>2 DEF handlers, HandlersOK
<1>5. now' \in Nat /\ setbacks' \in Nat BY <1>1 DEF Tick, SetBack
<1> QED BY <1>3, <1>4, <1>5, PartsAreInv

LEMMA OpenKeepsCoordinator ==
  ASSUME Assumptions, IInv, NEW r \in Lookups, OpenBudgetWindow(r)
  PROVE  CoordinatorOK'
<1> DEFINE at == ask[r].at
           new == Unit(at, 1, r)
<1>1. CoordinatorOK /\ at \in Nat BY InvParts DEF HandlersOK, Asks
<1>2. Window \in Nat /\ Window > 0 BY DEF Assumptions, WindowAssumption
<1>3. budget' = [startedAt |-> at, used |-> 1]
      /\ granted' = {g \in granted : g.at > at - Window} \cup {new}
  BY DEF OpenBudgetWindow
<1>4. new = [window |-> at, unit |-> 1, at |-> at] BY DEF Unit
<1>5. \A g \in granted : g.window + Window <= at
  BY <1>1, <1>2 DEF CoordinatorOK, StoredIsLast, OpenBudgetWindow, Expired
<1>6. \A g \in granted' : g \in granted \/ g = new BY <1>3
<1>7. granted' \subseteq [window : Nat, unit : Nat, at : Nat]
  BY <1>1, <1>4, <1>6 DEF CoordinatorOK
<1>8. WindowWithinQuota'
  <2>1. budget'.used = 1 BY <1>3
  <2>2. Quota \in Quotas /\ 1 <= Quota BY QuotaIsLargest DEF Assumptions
  <2> QED BY <2>1, <2>2 DEF WindowWithinQuota
<1>9. UnitsBelong'
  BY <1>1, <1>2, <1>4, <1>6, QuotaIsLargest DEF CoordinatorOK, UnitsBelong, Assumptions
<1>10. UnitsGrantedOnce'
  BY <1>1, <1>2, <1>4, <1>5, <1>6, <1>7 DEF CoordinatorOK, UnitsGrantedOnce
<1>11. WindowsApart'
  BY <1>1, <1>2, <1>4, <1>5, <1>6, <1>7 DEF CoordinatorOK, WindowsApart
<1>12. StoredIsLast'
  BY <1>1, <1>2, <1>3, <1>4, <1>5, <1>6, <1>7
  DEF CoordinatorOK, StoredIsLast, Stored, NoBudget
<1> QED BY <1>1, <1>3, <1>7, <1>8, <1>9, <1>10, <1>11, <1>12 DEF CoordinatorOK

LEMMA SpendKeepsCoordinator ==
  ASSUME Assumptions, IInv, NEW r \in Lookups, SpendBudget(r)
  PROVE  CoordinatorOK'
<1> DEFINE at == ask[r].at
           new == Unit(budget.startedAt, budget.used + 1, r)
<1>1. CoordinatorOK /\ at \in Nat /\ ask[r].quota \in Quotas
  BY InvParts DEF HandlersOK, Asks, SpendBudget
<1>2. Window \in Nat /\ Window > 0 BY DEF Assumptions, WindowAssumption
<1>3. budget.startedAt \in Nat /\ budget.used \in Nat BY <1>1 DEF CoordinatorOK
<1>4. budget' = [startedAt |-> budget.startedAt, used |-> budget.used + 1]
      /\ granted' = granted \cup {new}
  BY <1>1, <1>3 DEF SpendBudget, CoordinatorOK
<1>5. new = [window |-> budget.startedAt, unit |-> budget.used + 1, at |-> at]
  BY DEF Unit
<1>6. budget.startedAt <= at /\ at < budget.startedAt + Window
  BY <1>1, <1>2, <1>3 DEF SpendBudget, Backwards, Expired, Stored
<1>7. budget.used + 1 <= ask[r].quota /\ budget.used + 1 <= Quota
  BY <1>1, <1>3, QuotaIsLargest DEF SpendBudget, Exhausted, Assumptions
<1>8. granted' \subseteq [window : Nat, unit : Nat, at : Nat]
  BY <1>1, <1>3, <1>4, <1>5 DEF CoordinatorOK
<1>9. WindowWithinQuota' BY <1>1, <1>4, <1>7 DEF WindowWithinQuota
<1>10. UnitsBelong'
  BY <1>1, <1>2, <1>3, <1>4, <1>5, <1>6, <1>7, QuotaIsLargest
  DEF CoordinatorOK, UnitsBelong, Assumptions
<1>11. UnitsGrantedOnce'
  BY <1>1, <1>3, <1>4, <1>5, <1>8 DEF CoordinatorOK, UnitsGrantedOnce, StoredIsLast
<1>12. WindowsApart'
  BY <1>1, <1>2, <1>3, <1>4, <1>5, <1>8 DEF CoordinatorOK, WindowsApart, StoredIsLast
<1>13. StoredIsLast'
  BY <1>1, <1>2, <1>3, <1>4, <1>5, <1>8
  DEF CoordinatorOK, StoredIsLast, Stored, NoBudget
<1> QED BY <1>3, <1>4, <1>8, <1>9, <1>10, <1>11, <1>12, <1>13 DEF CoordinatorOK

LEMMA CoordinateInv ==
  ASSUME Assumptions, IInv, NEW r \in Lookups, Coordinate(r)
  PROVE  IInv'
<1> USE DEF Assumptions
<1>1. HandlersOK /\ CoordinatorOK /\ now \in Nat /\ setbacks \in Nat BY InvParts
<1>2. UNCHANGED <<phase, clock>>
  BY DEF Coordinate, ReadClock, OpenBudgetWindow, SpendBudget, RefuseBudget, RefuseClock,
         LoseAsk, LoseReply
<1>3. CoordinatorOK'
  <2>1. CASE OpenBudgetWindow(r) BY <2>1, OpenKeepsCoordinator
  <2>2. CASE SpendBudget(r) BY <2>2, SpendKeepsCoordinator
  <2>3. CASE UNCHANGED coordinator BY <1>1, <2>3, CoordinatorUnchanged
  <2> QED BY <2>1, <2>2, <2>3
    DEF Coordinate, ReadClock, RefuseBudget, RefuseClock, LoseAsk, LoseReply
<1>4. HandlersOK'
  <2>1. CASE ReadClock(r)
    BY <1>1, <1>2, <2>1 DEF ReadClock, HandlersOK, Asks, Replies
  <2>2. CASE ~ReadClock(r)
    <3>1. PICK stage \in Replies : Reply(r, stage)
      BY <2>2 DEF Coordinate, OpenBudgetWindow, SpendBudget, RefuseBudget, RefuseClock,
                  LoseAsk, LoseReply, Replies
    <3>2. phase[r] # "provider"
      BY <1>1, <2>2 DEF Coordinate, OpenBudgetWindow, SpendBudget, RefuseBudget,
                  RefuseClock, LoseAsk, LoseReply, HandlersOK
    <3> QED BY <1>1, <1>2, <3>1, <3>2, ReplyKeepsHandlers
  <2> QED BY <2>1, <2>2
<1> QED BY <1>1, <1>2, <1>3, <1>4, PartsAreInv DEF clock

LEMMA StepInv == ASSUME Assumptions, IInv, [Next]_vars PROVE IInv'
<1>1. CASE UNCHANGED vars
  <2>1. HandlersOK /\ CoordinatorOK /\ now \in Nat /\ setbacks \in Nat BY InvParts
  <2>2. CoordinatorOK' BY <1>1, <2>1, CoordinatorUnchanged DEF vars
  <2>3. HandlersOK' BY <1>1, <2>1 DEF vars, handlers, HandlersOK
  <2> QED BY <1>1, <2>1, <2>2, <2>3, PartsAreInv DEF vars, clock
<1>2. CASE \E r \in Lookups : Handle(r) BY <1>2, HandleInv
<1>3. CASE \E r \in Lookups : Coordinate(r) BY <1>3, CoordinateInv
<1>4. CASE \E R \in SUBSET Lookups : IsolateGone(R) BY <1>4, IsolateGoneInv
<1>5. CASE Tick \/ SetBack BY <1>5, ClockInv
<1> QED BY <1>1, <1>2, <1>3, <1>4, <1>5 DEF Next

LEMMA AssumptionsHold == Assumptions
BY WindowAssumption, QuotaAssumption, BoundAssumption DEF Assumptions

(* IInv holds in every state of every behavior.                            *)
THEOREM Inductive == Spec => []IInv
<1>1. Init => IInv BY InitInv, AssumptionsHold
<1>2. IInv /\ [Next]_vars => IInv' BY StepInv, AssumptionsHold
<1> QED BY <1>1, <1>2, PTL DEF Spec

-----------------------------------------------------------------------------
(* A Window of the clock meets at most two windows, so its units can be    *)
(* numbered: those of one window by their own number, those of the other   *)
(* after them.                                                             *)
LEMMA TwoWindowsFit ==
  ASSUME Assumptions, IInv, NEW s \in Nat,
         NEW g \in granted, NEW h \in granted, NEW k \in granted,
         g.at \in s .. s + Window - 1, h.at \in s .. s + Window - 1,
         k.at \in s .. s + Window - 1
  PROVE  g.window = h.window \/ h.window = k.window \/ g.window = k.window
<1>1. CoordinatorOK BY InvParts
<1>2. Window \in Nat /\ Window > 0 BY DEF Assumptions, WindowAssumption
<1>3. ASSUME NEW a \in granted, NEW b \in granted, NEW c \in granted,
             a.at \in s .. s + Window - 1, c.at \in s .. s + Window - 1,
             a.window < b.window, b.window < c.window
      PROVE  FALSE
  <2>1. a.window \in Nat /\ b.window \in Nat /\ c.window \in Nat /\ a.at \in Nat /\ c.at \in Nat
    BY <1>1 DEF CoordinatorOK
  <2>2. a.window + Window <= b.window /\ b.window + Window <= c.window
    BY <1>1, <1>3 DEF CoordinatorOK, WindowsApart
  <2>3. a.at < a.window + Window /\ c.window <= c.at
    BY <1>1 DEF CoordinatorOK, UnitsBelong
  <2> QED BY <1>2, <1>3, <2>1, <2>2, <2>3
<1>4. g.window \in Nat /\ h.window \in Nat /\ k.window \in Nat
  BY <1>1 DEF CoordinatorOK
<1> QED BY <1>3, <1>4

LEMMA UnitsInAWindow ==
  ASSUME Assumptions, IInv, NEW s \in Nat
  PROVE  Cardinality({g \in granted : g.at \in s .. s + Window - 1}) <= 2 * Quota
<1> DEFINE G == {g \in granted : g.at \in s .. s + Window - 1}
           first == CHOOSE g \in G : TRUE
           number == [g \in G |-> IF g.window = first.window THEN g.unit
                                  ELSE Quota + g.unit]
<1>1. CoordinatorOK BY InvParts
<1>2. Quota \in Nat BY QuotaIsLargest DEF Assumptions
<1>3. \A g \in G : g.unit \in 1 .. Quota
  BY <1>1 DEF CoordinatorOK, UnitsBelong
<1>4. number \in [G -> 1 .. 2 * Quota] BY <1>2, <1>3
<1>5. ASSUME NEW g \in G, NEW h \in G, number[g] = number[h]
      PROVE  g = h
  <2>1. first \in G OBVIOUS
  <2>2. g.unit = h.unit /\ (g.window = first.window <=> h.window = first.window)
    BY <1>2, <1>3, <1>5
  <2>3. g.window = h.window BY <2>1, <2>2, TwoWindowsFit
  <2> QED BY <1>1, <2>2, <2>3 DEF CoordinatorOK, UnitsGrantedOnce
<1>6. number \in Injection(G, 1 .. 2 * Quota)
  BY <1>4, <1>5 DEF Injection, IsInjective
<1>7. IsFiniteSet(1 .. 2 * Quota) /\ Cardinality(1 .. 2 * Quota) = 2 * Quota
  BY <1>2, FS_Interval
<1> HIDE DEF G, number
<1>8. IsFiniteSet(G) /\ Cardinality(G) <= Cardinality(1 .. 2 * Quota)
  BY <1>6, <1>7, FS_Injection
<1> QED BY <1>7, <1>8 DEF G

-----------------------------------------------------------------------------
(* The variables keep their types, an ask under way carries an allowance,  *)
(* and no reply is left behind for a later lookup.                         *)
THEOREM TypeCorrect == Spec => []TypeOK
<1>1. IInv => TypeOK BY DEF IInv
<1> QED BY <1>1, Inductive, PTL

(* No window of the Durable Object grants more than an isolate's           *)
(* allowance, whatever lookups overlap, time out or lose their isolate.    *)
THEOREM QuotaHolds == Spec => []WindowWithinQuota
<1>1. IInv => WindowWithinQuota BY DEF IInv
<1> QED BY <1>1, Inductive, PTL

(* The gate fails closed: the provider is called only for a lookup whose   *)
(* own ask was granted.                                                    *)
THEOREM GateFailsClosed == Spec => []CallsArePaidFor
<1>1. IInv => CallsArePaidFor BY DEF IInv
<1> QED BY <1>1, Inductive, PTL

(* Within any Window of its clock the Durable Object grants at most two    *)
(* allowances, with late readings and a clock that is set back.            *)
THEOREM BudgetHolds == Spec => []BudgetBounded
<1>1. ASSUME IInv PROVE BudgetBounded
  <2>1. \A s \in 0 .. MaxClock : s \in Nat BY BoundAssumption
  <2> QED BY <1>1, <2>1, AssumptionsHold, UnitsInAWindow DEF BudgetBounded
<1> QED BY <1>1, Inductive, PTL

-----------------------------------------------------------------------------
(* The page.                                                               *)

PageIInv == Page!TypeOK /\ Page!BusyIsLatest /\ Page!ShownIsCurrent

-----------------------------------------------------------------------------
LEMMA PageInitInv == ASSUME Page!LookupAssumption, Page!Init PROVE PageIInv
<1>1. sequence \in 0..MaxLookups
  BY DEF Page!LookupAssumption, Page!Init
<1>2. asked \in [Page!Ids -> Page!MaybePlayer]
  BY DEF Page!Init, Page!MaybePlayer
<1>3. Page!TypeOK
  BY <1>1, <1>2 DEF Page!Init, Page!TypeOK, Page!MaybePlayer, Page!Notices
<1>4. Page!BusyIsLatest /\ Page!ShownIsCurrent
  BY DEF Page!Init, Page!BusyIsLatest, Page!ShownIsCurrent
<1> QED BY <1>3, <1>4 DEF PageIInv

LEMMA PageTypeStep == ASSUME Page!LookupAssumption, Page!TypeOK, [Page!Next]_(Page!vars) PROVE Page!TypeOK'
<1> USE DEF Page!TypeOK, Page!MaybePlayer, Page!Notices
<1>1. CASE UNCHANGED Page!vars
  BY <1>1 DEF Page!vars, Page!display, Page!lookups
<1>2. ASSUME NEW available \in BOOLEAN, Page!StatusArrives(available) PROVE Page!TypeOK'
  BY <1>2 DEF Page!StatusArrives, Page!lookups
<1>3. ASSUME NEW p \in Page!MaybePlayer, Page!ChangePlayer(p) PROVE Page!TypeOK'
  BY <1>3 DEF Page!ChangePlayer, Page!display, Page!lookups
<1>4. ASSUME NEW p \in Players, Page!ReplacePersistedPlayer(p) PROVE Page!TypeOK'
  BY <1>4 DEF Page!ReplacePersistedPlayer, Page!Persist, Page!display, Page!lookups
<1>5. CASE Page!LookupRefused
  BY <1>5 DEF Page!LookupRefused, Page!lookups
<1>6. CASE Page!Lookup
  <2>1. sequence' \in 0..MaxLookups /\ sequence' \in Page!Ids
    BY <1>6 DEF Page!Lookup, Page!Ids, Page!LookupAssumption
  <2>2. waiting' \in SUBSET (1..sequence')
    BY <1>6 DEF Page!Lookup
  <2>3. asked' \in [Page!Ids -> Page!MaybePlayer]
    BY <1>6, <2>1 DEF Page!Lookup
  <2> QED BY <1>6, <2>1, <2>2, <2>3 DEF Page!Lookup
<1>7. ASSUME NEW i \in Page!Ids, Page!Settle(i) PROVE Page!TypeOK'
  <2>1. CASE Page!Answered(i)
    BY <1>7, <2>1 DEF Page!Settle, Page!Answered, Page!Latest, Page!BusyAfter, Page!Persist, Page!lookups, Page!Ids
  <2>2. CASE Page!Failed(i)
    BY <1>7, <2>2 DEF Page!Settle, Page!Failed, Page!Latest, Page!BusyAfter, Page!display, Page!lookups, Page!Ids
  <2> QED BY <1>7, <2>1, <2>2 DEF Page!Settle
<1>8. ASSUME NEW open \in BOOLEAN, Page!SetPreviewOpen(open) PROVE Page!TypeOK'
  BY <1>8 DEF Page!SetPreviewOpen, Page!lookups
<1>9. CASE Page!ApplyStale \/ Page!ApplyNothing
  BY <1>9 DEF Page!ApplyStale, Page!ApplyNothing, Page!lookups
<1> QED BY <1>1, <1>2, <1>3, <1>4, <1>5, <1>6, <1>7, <1>8, <1>9 DEF Page!Next

(* A new lookup is the latest and not answered; an answer ends the busy    *)
(* state if it is the latest's and leaves everything else waiting.         *)
LEMMA PageBusyStep ==
  ASSUME Page!LookupAssumption, Page!TypeOK, Page!BusyIsLatest, [Page!Next]_(Page!vars)
  PROVE  Page!BusyIsLatest'
<1> USE DEF Page!BusyIsLatest
<1>1. CASE Page!Lookup
  BY <1>1 DEF Page!Lookup
<1>2. ASSUME NEW i \in Page!Ids, Page!Settle(i) PROVE Page!BusyIsLatest'
  BY <1>2 DEF Page!Settle, Page!BusyAfter, Page!Latest, Page!lookups
<1>3. CASE UNCHANGED <<busy, sequence, waiting>>
  BY <1>3
<1>4. [Page!Next]_(Page!vars) =>
        \/ Page!Lookup \/ \E i \in Page!Ids : Page!Settle(i)
        \/ UNCHANGED <<busy, sequence, waiting>>
  BY DEF Page!Next, Page!vars, Page!StatusArrives, Page!ChangePlayer, Page!ReplacePersistedPlayer, Page!LookupRefused,
         Page!SetPreviewOpen, Page!ApplyStale, Page!ApplyNothing, Page!lookups, Page!display
<1> QED BY <1>1, <1>2, <1>3, <1>4

LEMMA PageShownStep ==
  ASSUME Page!TypeOK, Page!ShownIsCurrent, [Page!Next]_(Page!vars)
  PROVE  Page!ShownIsCurrent'
<1> USE DEF Page!ShownIsCurrent
<1>1. ASSUME NEW p \in Page!MaybePlayer, Page!ChangePlayer(p) PROVE Page!ShownIsCurrent'
  BY <1>1 DEF Page!ChangePlayer, Page!display
<1>2. ASSUME NEW p \in Players, Page!ReplacePersistedPlayer(p) PROVE Page!ShownIsCurrent'
  BY <1>2 DEF Page!ReplacePersistedPlayer, Page!display, Page!TypeOK
<1>3. ASSUME NEW i \in Page!Ids, Page!Settle(i) PROVE Page!ShownIsCurrent'
  <2>1. CASE Page!Answered(i)
    BY <1>3, <2>1 DEF Page!Settle, Page!Answered
  <2>2. CASE Page!Failed(i)
    BY <1>3, <2>2 DEF Page!Settle, Page!Failed, Page!display
  <2> QED BY <1>3, <2>1, <2>2 DEF Page!Settle
<1>4. CASE Page!ApplyStale
  BY <1>4 DEF Page!ApplyStale
<1>5. CASE UNCHANGED <<response, player, replaced>>
  BY <1>5
<1>6. [Page!Next]_(Page!vars) =>
        \/ \E p \in Page!MaybePlayer : Page!ChangePlayer(p)
        \/ \E p \in Players : Page!ReplacePersistedPlayer(p)
        \/ \E i \in Page!Ids : Page!Settle(i)
        \/ Page!ApplyStale \/ UNCHANGED <<response, player, replaced>>
  BY DEF Page!Next, Page!vars, Page!StatusArrives, Page!LookupRefused, Page!Lookup, Page!SetPreviewOpen, Page!ApplyNothing,
         Page!lookups, Page!display
<1> QED BY <1>1, <1>2, <1>3, <1>4, <1>5, <1>6

(* What one step may save and show.                                        *)
Stores ==
  stored' # stored \/ response' \notin {response, NoPlayer}
    => \/ sequence \in waiting \ waiting' /\ response' = player
            /\ stored' \in {stored, player}
       \/ stored' = player' /\ UNCHANGED response

LEMMA PageStepStores == ASSUME Page!TypeOK, [Page!Next]_(Page!vars) PROVE Stores
<1> USE DEF Stores
<1>1. ASSUME NEW p \in Page!MaybePlayer, Page!ChangePlayer(p) PROVE Stores
  BY <1>1 DEF Page!ChangePlayer, Page!display
<1>2. ASSUME NEW p \in Players, Page!ReplacePersistedPlayer(p) PROVE Stores
  BY <1>2 DEF Page!ReplacePersistedPlayer, Page!Persist, Page!display
<1>3. ASSUME NEW i \in Page!Ids, Page!Settle(i) PROVE Stores
  <2>1. CASE Page!Answered(i)
    BY <1>3, <2>1 DEF Page!Settle, Page!Answered, Page!Latest, Page!Persist
  <2>2. CASE Page!Failed(i)
    BY <1>3, <2>2 DEF Page!Settle, Page!Failed, Page!display
  <2> QED BY <1>3, <2>1, <2>2 DEF Page!Settle
<1>4. CASE UNCHANGED stored /\ response' \in {response, NoPlayer}
  BY <1>4
<1>5. [Page!Next]_(Page!vars) =>
        \/ \E p \in Page!MaybePlayer : Page!ChangePlayer(p)
        \/ \E p \in Players : Page!ReplacePersistedPlayer(p)
        \/ \E i \in Page!Ids : Page!Settle(i)
        \/ UNCHANGED stored /\ response' \in {response, NoPlayer}
  BY DEF Page!Next, Page!vars, Page!StatusArrives, Page!LookupRefused, Page!Lookup, Page!SetPreviewOpen, Page!ApplyStale,
         Page!ApplyNothing, Page!lookups, Page!display
<1> QED BY <1>1, <1>2, <1>3, <1>4, <1>5

-----------------------------------------------------------------------------
(* The limiter, as its own proofs see it: the same definitions,            *)
(* instantiated with the same variables.                                   *)
LimiterProofs == INSTANCE HiscoresLimiterProofs WITH Window <- LimiterWindow

LEMMA LimiterInitIsTheirs == ASSUME Limiter!Init PROVE LimiterProofs!Init
BY DEF Limiter!Init, LimiterProofs!Init

LEMMA LimiterStepIsTheirs ==
  ASSUME [Limiter!Next]_(Limiter!vars) PROVE [LimiterProofs!Next]_(LimiterProofs!vars)
BY DEF Limiter!Admit, LimiterProofs!Admit, Limiter!Counted, LimiterProofs!Counted,
         Limiter!Denied, LimiterProofs!Denied, Limiter!Deny, LimiterProofs!Deny,
         Limiter!From, LimiterProofs!From, Limiter!Full, LimiterProofs!Full,
         Limiter!HasWindow, LimiterProofs!HasWindow, Limiter!IsolateGone,
         LimiterProofs!IsolateGone, Limiter!Live, LimiterProofs!Live, Limiter!Next,
         LimiterProofs!Next, Limiter!OverLimit, LimiterProofs!OverLimit,
         Limiter!Positions, LimiterProofs!Positions, Limiter!Purged,
         LimiterProofs!Purged, Limiter!Remaining, LimiterProofs!Remaining,
         Limiter!RetryAfter, LimiterProofs!RetryAfter, Limiter!SetBack,
         LimiterProofs!SetBack, Limiter!Tick, LimiterProofs!Tick, Limiter!Wall,
         LimiterProofs!Wall, Limiter!vars, LimiterProofs!vars, Limiter!Min,
         LimiterProofs!Min, Limiter!Max, LimiterProofs!Max

LEMMA LimiterPropertiesAreTheirs ==
  /\ LimiterProofs!TypeOK => Limiter!TypeOK
  /\ LimiterProofs!ClientRateBounded => ClientRateBounded
  /\ LimiterProofs!DenialIsDue => DenialIsDue
  /\ LimiterProofs!RetryAfterSuffices => RetryAfterSuffices
BY DEF ClientRateBounded, DenialIsDue, RetryAfterSuffices,
         Limiter!ClientRateBounded, LimiterProofs!ClientRateBounded, Limiter!DenialIsDue,
         LimiterProofs!DenialIsDue, Limiter!Denied, LimiterProofs!Denied,
         Limiter!Entries, LimiterProofs!Entries, Limiter!From, LimiterProofs!From,
         Limiter!Full, LimiterProofs!Full, Limiter!HasWindow, LimiterProofs!HasWindow,
         Limiter!Live, LimiterProofs!Live, Limiter!OverLimit, LimiterProofs!OverLimit,
         Limiter!Positions, LimiterProofs!Positions, Limiter!Purged,
         LimiterProofs!Purged, Limiter!RetryAfterSuffices,
         LimiterProofs!RetryAfterSuffices, Limiter!TypeOK, LimiterProofs!TypeOK,
         Limiter!Wall, LimiterProofs!Wall, Limiter!Min, LimiterProofs!Min,
         Limiter!Cardinality, LimiterProofs!Cardinality, Limiter!IsFiniteSet,
         LimiterProofs!IsFiniteSet

LEMMA TheirAssumption == LimiterProofs!LimiterAssumption
BY PartsAssumption DEF Limiter!LimiterAssumption, LimiterProofs!LimiterAssumption

-----------------------------------------------------------------------------
(* The parts together.                                                     *)

(* A step is a step of one part.                                           *)
LEMMA PartsStep ==
  ASSUME [PartsNext]_allVars
  PROVE  [Next]_vars /\ [Page!Next]_(Page!vars) /\ [Limiter!Next]_(Limiter!vars)
<1>1. UNCHANGED vars \/ Next BY DEF PartsNext, allVars
<1>2. UNCHANGED pageVars \/ Page!Next BY DEF PartsNext, allVars
<1>3. UNCHANGED limiterVars \/ Limiter!Next BY DEF PartsNext, allVars
<1>4. UNCHANGED pageVars => UNCHANGED Page!vars
  BY DEF pageVars, Page!vars, Page!display, Page!lookups
<1>5. UNCHANGED limiterVars => UNCHANGED Limiter!vars
  BY DEF limiterVars, Limiter!vars
<1> QED BY <1>1, <1>2, <1>3, <1>4, <1>5

(* The server and the page keep their invariants, and what a behaviour     *)
(* does to the limiter is a behaviour of it.                               *)
THEOREM PartsInductive == PartsSpec => [](IInv /\ PageIInv) /\ LimiterProofs!Spec
<1>1. PartsInit => IInv /\ PageIInv /\ LimiterProofs!Init
  BY InitInv, PageInitInv, LimiterInitIsTheirs, AssumptionsHold, PartsAssumption DEF PartsInit
<1>2. [PartsNext]_allVars => [LimiterProofs!Next]_(LimiterProofs!vars)
  BY PartsStep, LimiterStepIsTheirs
<1>3. IInv /\ PageIInv /\ [PartsNext]_allVars => (IInv /\ PageIInv)'
  BY PartsStep, StepInv, PageTypeStep, PageBusyStep, PageShownStep, AssumptionsHold,
     PartsAssumption DEF PageIInv
<1> QED BY <1>1, <1>2, <1>3, PTL DEF PartsSpec, LimiterProofs!Spec

LEMMA LimiterIsCorrect ==
  PartsSpec => [](Limiter!TypeOK /\ ClientRateBounded /\ DenialIsDue /\ RetryAfterSuffices)
<1>1. LimiterProofs!Spec =>
        [](LimiterProofs!TypeOK /\ LimiterProofs!ClientRateBounded /\ LimiterProofs!DenialIsDue
             /\ LimiterProofs!RetryAfterSuffices)
  BY LimiterProofs!LimiterCorrect, TheirAssumption
<1>2. LimiterProofs!TypeOK /\ LimiterProofs!ClientRateBounded /\ LimiterProofs!DenialIsDue
        /\ LimiterProofs!RetryAfterSuffices
      => Limiter!TypeOK /\ ClientRateBounded /\ DenialIsDue /\ RetryAfterSuffices
  BY LimiterPropertiesAreTheirs
<1> QED BY <1>1, <1>2, PartsInductive, PTL

(* The state of the page, the limiter and the server keeps its types       *)
(* (PartsTypeOK).                                                          *)
THEOREM PartsTypeCorrect == PartsSpec => []PartsTypeOK
<1>1. IInv /\ PageIInv => TypeOK /\ Page!TypeOK BY DEF IInv, PageIInv
<1> QED BY <1>1, PartsInductive, LimiterIsCorrect, PTL DEF PartsTypeOK

(* The panel is busy exactly while the last lookup is not answered, for    *)
(* any number of overlapping lookups (BusyIsLatest).                       *)
THEOREM BusyCorrect == PartsSpec => []BusyIsLatest
<1>1. PageIInv => BusyIsLatest BY DEF PageIInv, BusyIsLatest
<1> QED BY <1>1, PartsInductive, PTL

(* A response on display is for the player in the field, but for the       *)
(* legacy migration (ShownIsCurrent).                                      *)
THEOREM ShownCorrect == PartsSpec => []ShownIsCurrent
<1>1. PageIInv => ShownIsCurrent BY DEF PageIInv, ShownIsCurrent
<1> QED BY <1>1, PartsInductive, PTL

(* Only the answer to the last lookup is shown and saved, for the player   *)
(* it asked for, which is in the field when it arrives (NoOldAnswer).      *)
THEOREM OldAnswersAreDropped == PartsSpec => NoOldAnswer
<1>1. PageIInv /\ [PartsNext]_allVars => [Stores]_(Page!vars)
  BY PartsStep, PageStepStores DEF PageIInv
<1>2. PartsSpec => [][Stores]_(Page!vars)
  BY <1>1, PartsInductive, PTL DEF PartsSpec
<1> QED BY <1>2 DEF NoOldAnswer, Page!NoOldAnswer, Stores

(* One isolate admits at most two windows' worth of a client's lookups     *)
(* within any Window of real time (ClientRateBounded), however many other  *)
(* clients press on the Map and however the clock is set back.             *)
THEOREM RateIsBounded == PartsSpec => []ClientRateBounded
BY LimiterIsCorrect, PTL

(* While the clock has not been set back, a lookup is turned away only for *)
(* its client's used-up live window or for a Map full of live ones         *)
(* (DenialIsDue).                                                          *)
THEOREM DenialsAreDue == PartsSpec => []DenialIsDue
BY LimiterIsCorrect, PTL

(* While the clock has not been set back, a client that waited for its     *)
(* Retry-After, with no other lookup admitted meanwhile, is not turned     *)
(* away again (RetryAfterSuffices).                                        *)
THEOREM WaitsSuffice == PartsSpec => []RetryAfterSuffices
BY LimiterIsCorrect, PTL
=============================================================================
