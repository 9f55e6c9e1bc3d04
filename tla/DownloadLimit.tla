--------------------------- MODULE DownloadLimit ----------------------------
(***************************************************************************)
(* The sliding window of apps/api/src/modules/downloads/                   *)
(* download-rate-limiter.ts: a script that Redis runs as one step on the   *)
(* sorted set of one customer and entitlement.                             *)
(***************************************************************************)
EXTENDS Integers, Sequences, FiniteSets

CONSTANTS
    MaxDownloads,  \* DOWNLOAD_RATE_LIMIT_MAX
    Window,        \* DOWNLOAD_RATE_LIMIT_WINDOW_SECONDS, in ticks
    LastTick,      \* bound: time
    MaxRequests    \* bound: requests that are let through

ASSUME DownloadLimitAssumption ==
    MaxDownloads \in Nat \ {0} /\ Window \in Nat \ {0} /\ LastTick \in Nat /\ MaxRequests \in Nat

VARIABLES
    tick,       \* the clock of Redis
    admitted,   \* admitted[i]: when the i-th request was let through
    members     \* the requests in the sorted set; the score of i is admitted[i]

limitVars == <<tick, admitted, members>>

LimitInit == tick = 0 /\ admitted = <<>> /\ members = {}

TimeGoesOn == tick < LastTick /\ tick' = tick + 1 /\ UNCHANGED <<admitted, members>>

\* ZREMRANGEBYSCORE -inf, now - window.
Recent == {i \in members : admitted[i] > tick - Window}

\* ZCARD, then ZADD of a member made unique by its nonce.
Admit ==
    /\ Len(admitted) < MaxRequests
    /\ Cardinality(Recent) < MaxDownloads
    /\ admitted' = Append(admitted, tick)
    /\ members' = Recent \cup {Len(admitted) + 1}
    /\ UNCHANGED tick

Reject ==
    /\ Cardinality(Recent) >= MaxDownloads
    /\ members' = Recent
    /\ UNCHANGED <<tick, admitted>>

\* PEXPIRE: the key goes once no request was let through for a whole window.
KeyExpires ==
    /\ members # {} /\ tick >= admitted[Len(admitted)] + Window
    /\ members' = {}
    /\ UNCHANGED <<tick, admitted>>

LimitNext == TimeGoesOn \/ Admit \/ Reject \/ KeyExpires
LimitSpec == LimitInit /\ [][LimitNext]_limitVars

LimitTypeOK ==
    /\ tick \in 0 .. LastTick
    /\ admitted \in Seq(0 .. LastTick) /\ Len(admitted) <= MaxRequests
    /\ members \subseteq 1 .. Len(admitted)

\* No stretch of time as long as the window, wherever it starts, sees more requests let
\* through than the limit, also across the expiry of the key and for requests of one tick.
NoWindowIsOverrun ==
    \A from \in 0 .. LastTick :
      Cardinality({i \in 1 .. Len(admitted) : admitted[i] \in from .. (from + Window - 1)}) <= MaxDownloads
=============================================================================
