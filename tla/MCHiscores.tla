----------------------------- MODULE MCHiscores -----------------------------
(***************************************************************************)
(* The three parts of a Hiscores lookup on small instances: the page's     *)
(* controller, one isolate's limiter, and the isolates with the global     *)
(* budget.  They share no state, so a behaviour is about one of them, and  *)
(* the other two rest in an initial state.                                 *)
(***************************************************************************)
EXTENDS HiscoresServer, Sequences

CONSTANTS
    Players, NoPlayer, MaxLookups,
    Clients, TicksPerSecond, LimiterWindow, Limit, Capacities, MaxTime

VARIABLES
    part,
    status, player, response, busy, previewOpen, notice, sequence, asked, waiting,
    stored, replaced,
    maxEntries, elapsed, setback, windows, admitted, waitUntil

Page == INSTANCE HiscoresLookup
Limiter == INSTANCE HiscoresLimiter WITH Window <- LimiterWindow

ASSUME PartsAssumption == Page!LookupAssumption /\ Limiter!LimiterAssumption

pageVars == <<status, player, response, busy, previewOpen, notice, sequence, asked,
              waiting, stored, replaced>>
limiterVars == <<maxEntries, elapsed, setback, windows, admitted, waitUntil>>
allVars == <<part, vars, pageVars, limiterVars>>

PartsInit ==
    /\ part \in {"page", "limiter", "server"}
    /\ Init
    /\ Page!Init /\ (part # "page" => stored = NoPlayer)
    /\ Limiter!Init /\ (part # "limiter" => maxEntries = Max(Capacities))

PartsNext ==
    \/ part = "server" /\ Next /\ UNCHANGED <<part, pageVars, limiterVars>>
    \/ part = "page" /\ Page!Next /\ UNCHANGED <<part, vars, limiterVars>>
    \/ part = "limiter" /\ Limiter!Next /\ UNCHANGED <<part, vars, pageVars>>

PartsSpec == PartsInit /\ [][PartsNext]_allVars /\ Fairness /\ Page!Fairness

-----------------------------------------------------------------------------
(* The type invariant of each part.                                        *)
PartsTypeOK == TypeOK /\ Page!TypeOK /\ Limiter!TypeOK

(* The properties of the page's controller and of the limiter; those of    *)
(* the server are its own.                                                 *)
BusyIsLatest == Page!BusyIsLatest
ShownIsCurrent == Page!ShownIsCurrent
NoOldAnswer == Page!NoOldAnswer
ClientRateBounded == Limiter!ClientRateBounded
DenialIsDue == Limiter!DenialIsDue
RetryAfterSuffices == Limiter!RetryAfterSuffices
=============================================================================
