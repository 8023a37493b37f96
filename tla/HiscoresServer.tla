--------------------------- MODULE HiscoresServer ---------------------------
(***************************************************************************)
(* The Hiscores lookups of the deployed worker with the global budget      *)
(* enforced: the handler of every isolate (server/hiscores-core.ts) and    *)
(* the Durable Object that counts the provider's budget for all of them    *)
(* (server/hiscores-global-rate-limit.ts).                                 *)
(*                                                                         *)
(* A lookup that its isolate's limiter admitted (HiscoresLimiter) asks the *)
(* Durable Object for one unit of budget, and calls the provider only when *)
(* the unit was granted.  Both waits race a timer, so an ask can be        *)
(* granted after its lookup was answered, and the unit is then spent for   *)
(* nothing.                                                                *)
(*                                                                         *)
(* Time is the Durable Object's wall clock, in ticks, and may be set back. *)
(***************************************************************************)
EXTENDS Integers, FiniteSets, FiniteSetsExt

CONSTANTS
    Lookups,      \* lookups that can be in progress at once, in any isolate
    Window,       \* the length of a budget window (60 seconds)
    Quotas,       \* allowances the isolates are configured with: one, or more
                  \* while a release that changes it rolls out
    MaxClock,     \* bound on the clock
    MaxSetback    \* bound on how often the clock is set back by a tick

ASSUME WindowAssumption == Window \in Nat \ {0}
ASSUME QuotaAssumption ==   \* the code rejects allowances above 1,000,000
    Quotas \subseteq Nat \ {0} /\ \E q \in Quotas : \A p \in Quotas : p <= q
ASSUME BoundAssumption == MaxClock \in Nat /\ MaxSetback \in Nat

VARIABLES
    phase,      \* where the handler of each lookup waits
    ask,        \* each lookup's question to the Durable Object
    budget,     \* what the Durable Object has stored
    now,        \* the clock of the Durable Object
    setbacks,   \* how often it was set back
    granted     \* the grants of this budget window and those that were made
                \* with readings less than a Window before it

handlers == <<phase, ask>>
coordinator == <<budget, granted>>
clock == <<now, setbacks>>
vars == <<handlers, coordinator, clock>>

Quota == Max(Quotas)

NoBudget == [startedAt |-> 0, used |-> 0]   \* nothing stored yet

Replies == {"granted", "denied", "failed"}

NoAsk == [stage |-> "none", quota |-> 0, at |-> 0]

Init ==
    /\ phase = [r \in Lookups |-> "free"]
    /\ ask = [r \in Lookups |-> NoAsk]
    /\ budget = NoBudget
    /\ now = 0
    /\ setbacks = 0
    /\ granted = {}

-----------------------------------------------------------------------------
(* The handler.                                                            *)

\* A lookup passes validation and the limiter, and asks for its budget with the
\* allowance its isolate is configured with.
Ask(r) ==
    /\ phase[r] = "free" /\ ask[r] = NoAsk
    /\ phase' = [phase EXCEPT ![r] = "budget"]
    /\ \E q \in Quotas :
         ask' = [ask EXCEPT ![r] = [stage |-> "sent", quota |-> q, at |-> 0]]
    /\ UNCHANGED <<coordinator, clock>>

\* A reply that nobody waits for any more is dropped.
Dropped(a) == IF a.stage \in Replies THEN NoAsk ELSE a

Calls(r) ==
    /\ phase' = [phase EXCEPT ![r] = "provider"]
    /\ UNCHANGED <<ask, coordinator, clock>>

Responds(r) ==
    /\ phase' = [phase EXCEPT ![r] = "free"]
    /\ ask' = [ask EXCEPT ![r] = Dropped(@)]
    /\ UNCHANGED <<coordinator, clock>>

GateAllows(r) ==
    /\ phase[r] = "budget" /\ ask[r].stage = "granted"
    /\ Calls(r)

\* Mutant: a coordinator that fails counts as permission.
FailsOpen(r) ==
    /\ phase[r] = "budget"
    /\ \/ ask[r].stage = "denied" /\ Responds(r)
       \/ ask[r].stage = "failed" /\ Calls(r)

\* A refusal is answered with a 429, a failure with a 503.
GateRefuses(r) ==
    /\ phase[r] = "budget" /\ ask[r].stage \in {"denied", "failed"}
    /\ Responds(r)

\* Mutant: the timer bounds only a coordinator that answers.
TimesOutAnswered(r) ==
    /\ phase[r] = "budget" /\ ask[r].stage \in Replies
    /\ Responds(r)

\* The timer wins the race: a 503, and the ask goes on.
BudgetTimeout(r) ==
    /\ phase[r] = "budget"
    /\ Responds(r)

\* The provider answers or fails, or its timer wins and aborts the call.  What
\* the call has spent is not given back.
LookupEnds(r) ==
    /\ phase[r] = "provider"
    /\ Responds(r)

\* The isolate of the lookups in R is evicted.
IsolateGone(R) ==
    /\ phase' = [r \in Lookups |-> IF r \in R THEN "free" ELSE phase[r]]
    /\ ask' = [r \in Lookups |-> IF r \in R THEN Dropped(ask[r]) ELSE ask[r]]
    /\ UNCHANGED <<coordinator, clock>>

-----------------------------------------------------------------------------
(* The Durable Object.  It reads its clock before it asks for a            *)
(* transaction, and transactions are serial but promise no order: a        *)
(* reading may be old when it is used.                                     *)

Reply(r, stage) ==
    ask' = [ask EXCEPT ![r] = IF phase[r] = "free" THEN NoAsk
                              ELSE [NoAsk EXCEPT !.stage = stage]]

ReadClock(r) ==
    /\ ask[r].stage = "sent"
    /\ ask' = [ask EXCEPT ![r].stage = "read", ![r].at = now]
    /\ UNCHANGED <<phase, coordinator, clock>>

Stored == budget # NoBudget

Backwards(r) == Stored /\ ask[r].at < budget.startedAt

\* Mutant: the window is over whenever the reading is not in it, on either side.
OverEitherSide(r) ==
    Stored => ask[r].at \notin budget.startedAt .. budget.startedAt + Window - 1

Expired(r) == Stored => ask[r].at - budget.startedAt >= Window

\* Mutant: one unit too many.
ExhaustedLate(r) == budget.used > ask[r].quota

Exhausted(r) == budget.used >= ask[r].quota

Unit(window, unit, r) == [window |-> window, unit |-> unit, at |-> ask[r].at]

OpenBudgetWindow(r) ==
    /\ ask[r].stage = "read"
    /\ Expired(r)
    /\ budget' = [startedAt |-> ask[r].at, used |-> 1]
    /\ granted' = {g \in granted : g.at > ask[r].at - Window}
                    \cup {Unit(ask[r].at, 1, r)}
    /\ Reply(r, "granted")
    /\ UNCHANGED <<phase, clock>>

SpendBudget(r) ==
    /\ ask[r].stage = "read"
    /\ ~Backwards(r) /\ ~Expired(r) /\ ~Exhausted(r)
    /\ budget' = [budget EXCEPT !.used = @ + 1]
    /\ granted' = granted \cup {Unit(budget.startedAt, budget.used + 1, r)}
    /\ Reply(r, "granted")
    /\ UNCHANGED <<phase, clock>>

RefuseBudget(r) ==
    /\ ask[r].stage = "read"
    /\ ~Backwards(r) /\ ~Expired(r) /\ Exhausted(r)
    /\ Reply(r, "denied")
    /\ UNCHANGED <<phase, coordinator, clock>>

\* The transaction throws: the clock moved backwards.
RefuseClock(r) ==
    /\ ask[r].stage = "read"
    /\ Backwards(r)
    /\ Reply(r, "failed")
    /\ UNCHANGED <<phase, coordinator, clock>>

\* The Durable Object, or the way to it, fails before the transaction commits.
LoseAsk(r) ==
    /\ ask[r].stage \in {"sent", "read"}
    /\ Reply(r, "failed")
    /\ UNCHANGED <<phase, coordinator, clock>>

\* It fails after the commit, before the reply.
LoseReply(r) ==
    /\ ask[r].stage \in {"granted", "denied"} /\ phase[r] = "budget"
    /\ Reply(r, "failed")
    /\ UNCHANGED <<phase, coordinator, clock>>

-----------------------------------------------------------------------------

Tick ==
    /\ now < MaxClock
    /\ now' = now + 1
    /\ UNCHANGED <<handlers, coordinator, setbacks>>

SetBack ==
    /\ setbacks < MaxSetback /\ now > 0
    /\ now' = now - 1
    /\ setbacks' = setbacks + 1
    /\ UNCHANGED <<handlers, coordinator>>

Coordinate(r) ==
    \/ ReadClock(r) \/ OpenBudgetWindow(r) \/ SpendBudget(r)
    \/ RefuseBudget(r) \/ RefuseClock(r) \/ LoseAsk(r) \/ LoseReply(r)

Handle(r) ==
    \/ Ask(r) \/ GateAllows(r) \/ GateRefuses(r)
    \/ BudgetTimeout(r) \/ LookupEnds(r)

Next ==
    \/ \E r \in Lookups : Handle(r) \/ Coordinate(r)
    \/ \E R \in SUBSET Lookups : IsolateGone(R)
    \/ Tick \/ SetBack

\* Timers fire.  Neither the Durable Object nor the provider ever has to answer.
Fairness ==
    \A r \in Lookups : WF_vars(BudgetTimeout(r)) /\ WF_vars(LookupEnds(r))

Spec == Init /\ [][Next]_vars /\ Fairness

-----------------------------------------------------------------------------
(* Properties.                                                             *)

Asks == [stage : Replies \cup {"none", "sent", "read"},
         quota : Quotas \cup {0}, at : Nat]

\* The variables have their types; an ask under way carries an allowance, and no
\* reply is left behind for a later lookup.
TypeOK ==
    /\ phase \in [Lookups -> {"free", "budget", "provider"}]
    /\ ask \in [Lookups -> Asks]
    /\ budget \in [startedAt : Nat, used : Nat]
    /\ \A r \in Lookups :
         /\ ask[r].stage \in {"sent", "read"} => ask[r].quota \in Quotas
         /\ ask[r].stage \in Replies => phase[r] # "free"
    /\ now \in Nat /\ setbacks \in Nat
    /\ granted \subseteq [window : Nat, unit : Nat, at : Nat]

\* No window of the Durable Object grants more units than some isolate is allowed,
\* whatever lookups overlap, time out, or lose their isolate.
WindowWithinQuota == \E q \in Quotas : budget.used <= q

\* Within any Window of the clock no more than two allowances are granted, also
\* with readings that are used late and out of order, and with a clock that was
\* set back.
BudgetBounded ==
    \A s \in 0 .. MaxClock :
      Cardinality({g \in granted : g.at \in s .. s + Window - 1}) <= 2 * Quota

\* A provider call is made only for a lookup whose own ask was granted: a
\* refusal, a lost ask or reply, a clock that moved backwards and a coordinator
\* that is late all end the lookup without one.
CallsArePaidFor ==
    \A r \in Lookups : phase[r] = "provider" => ask[r].stage = "granted"

\* Every lookup is answered, whether or not the Durable Object and the provider
\* ever are: each wait of the handler has its timer.
EveryLookupIsAnswered ==
    \A r \in Lookups : phase[r] # "free" ~> phase[r] = "free"

=============================================================================
