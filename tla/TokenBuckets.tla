---------------------------- MODULE TokenBuckets ----------------------------
(***************************************************************************)
(* What the rate limiter promises (docs/api.md, "Rate limiting"): every    *)
(* address has a bucket of Burst tokens, always, that gains Rpm tokens a   *)
(* minute; a request is let through exactly when there is a token for it.  *)
(*                                                                         *)
(* Levels are kept in units of which Rpm are gained per tick of the clock; *)
(* a token costs as many units as a minute has ticks.  The constants are   *)
(* numbers, and Minute is not 0.                                           *)
(***************************************************************************)
EXTENDS Naturals

CONSTANTS
    Addresses,
    Burst,      \* RATE_LIMIT_BURST
    Rpm,        \* RATE_LIMIT_RPM
    Minute      \* ticks per minute

AtLeastOne(n) == IF n < 1 THEN 1 ELSE n

Token == Minute
Capacity == AtLeastOne(Burst) * Token
Rate == AtLeastOne(Rpm)

Capped(n) == IF n < Capacity THEN n ELSE Capacity

VARIABLES
    now,        \* the clock
    level,      \* what is in each bucket
    since,      \* when somebody began to count the requests of an address
    granted,    \* how many were let through since
    denied      \* how many were refused since

counts == <<since, granted, denied>>
vars == <<now, level, counts>>

Init ==
    /\ now = 0
    /\ level = [a \in Addresses |-> Capacity]
    /\ since = [a \in Addresses |-> 0]
    /\ granted = [a \in Addresses |-> 0]
    /\ denied = [a \in Addresses |-> 0]

Tick ==
    /\ now' = now + 1
    /\ level' = [a \in Addresses |-> Capped(level[a] + Rate)]
    /\ UNCHANGED counts

Allow(a) ==
    /\ level[a] >= Token
    /\ level' = [level EXCEPT ![a] = @ - Token]
    /\ granted' = [granted EXCEPT ![a] = @ + 1]
    /\ UNCHANGED <<now, since, denied>>

Deny(a) ==
    /\ level[a] < Token
    /\ denied' = [denied EXCEPT ![a] = @ + 1]
    /\ UNCHANGED <<now, level, since, granted>>

\* Start counting an address anew.
Observe(a) ==
    /\ since' = [since EXCEPT ![a] = now]
    /\ granted' = [granted EXCEPT ![a] = 0]
    /\ denied' = [denied EXCEPT ![a] = 0]
    /\ UNCHANGED <<now, level>>

Next == Tick \/ \E a \in Addresses : Allow(a) \/ Deny(a) \/ Observe(a)

Spec == Init /\ [][Next]_vars
=============================================================================
