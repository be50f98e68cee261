-------------------------- MODULE MCDownloadLimiter --------------------------
(***************************************************************************)
(* DownloadLimiter beside other modules: its state has names of its own    *)
(* here.  MCFormats gives the constants their values.                      *)
(***************************************************************************)
EXTENDS Naturals

CONSTANTS
    Subscribers, Downloads,   \* the users and their streams
    Rates, Sizes, MaxTime, MaxRepublished

VARIABLES time, rates, timeline, wakeups, downloads, intervals, republished, waking

limiterVars == <<time, rates, timeline, wakeups, downloads, intervals, republished, waking>>

Limiter == INSTANCE DownloadLimiter WITH
    Users <- Subscribers, Streams <- Downloads, MaxNow <- MaxTime, MaxUpdates <- MaxRepublished,
    now <- time, rate <- rates, next <- timeline, notified <- wakeups, call <- downloads,
    granted <- intervals, changed <- republished, resetting <- waking

ASSUME RatesAssumption == Limiter!LimiterAssumption
----------------------------------------------------------------------------
\* All streams of a user share one rate: until a rate changes, the intervals of
\* the payloads that were let through do not overlap.
RateShared == Limiter!RateShared

\* A reservation that waits when its user's rate is replaced stops waiting before
\* any time has to pass.
RateChangeWakes == Limiter!RateChangeWakes
=============================================================================
