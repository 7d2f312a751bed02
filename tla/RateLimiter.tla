----------------------------- MODULE RateLimiter -----------------------------
(***************************************************************************)
(* limit_analysis_rate (backend/app/main.py): a sliding window of time     *)
(* stamps per client address in front of POST /analyze.  The middleware    *)
(* runs on the one event loop and awaits nothing between taking the time   *)
(* and leaving the lock, so each request passes it in one step.            *)
(***************************************************************************)
EXTENDS Integers, Sequences

CONSTANTS
    Clients,      \* client addresses
    Limit,        \* ANALYSIS_RATE_LIMIT_PER_MINUTE
    Window,       \* the 60 seconds of the window and of Retry-After
    MaxClock      \* the bound of this instance's clock

ASSUME LimiterAssumption ==
    /\ Limit \in Nat \ {0}
    /\ Window \in Nat \ {0}
    /\ MaxClock \in Nat

VARIABLES
    clock,        \* monotonic()
    stamps,       \* _analysis_requests: the time stamps kept of each client
    admitted,     \* history: when each client's requests were let through
    refused       \* history: the last time each client was refused, -1 if never

limiterVars == <<clock, stamps, admitted, refused>>

LimiterInit ==
    /\ clock = 0
    /\ stamps = [c \in Clients |-> <<>>]
    /\ admitted = [c \in Clients |-> <<>>]
    /\ refused = [c \in Clients |-> -1]

Tick ==
    /\ clock < MaxClock
    /\ clock' = clock + 1
    /\ UNCHANGED <<stamps, admitted, refused>>

(* The loop drops the k oldest time stamps: those a window or more ago.     *)

(* Mutant of Expired: time stamps survive the end of their window.          *)
ExpiredLate(c, k) ==
    /\ \A j \in 1 .. k : stamps[c][j] < clock - Window
    /\ k < Len(stamps[c]) => stamps[c][k + 1] >= clock - Window

(* Mutant of Expired: they are dropped before it.                           *)
ExpiredEarly(c, k) ==
    /\ \A j \in 1 .. k : stamps[c][j] <= clock - Window + 1
    /\ k < Len(stamps[c]) => stamps[c][k + 1] > clock - Window + 1

Expired(c, k) ==
    /\ \A j \in 1 .. k : stamps[c][j] <= clock - Window
    /\ k < Len(stamps[c]) => stamps[c][k + 1] > clock - Window

Kept(c, k) == SubSeq(stamps[c], k + 1, Len(stamps[c]))

(* The slot is taken here, whatever body limit, API key and session lookup  *)
(* behind this middleware make of the request.                              *)
Admit(c) ==
    \E k \in 0 .. Len(stamps[c]) :
        /\ Expired(c, k)
        /\ Len(stamps[c]) - k < Limit
        /\ stamps' = [stamps EXCEPT ![c] = Append(Kept(c, k), clock)]
        /\ admitted' = [admitted EXCEPT ![c] = Append(@, clock)]
        /\ UNCHANGED <<clock, refused>>

(* 429 with Retry-After: 60; a refused request takes no slot.               *)
Refuse(c) ==
    \E k \in 0 .. Len(stamps[c]) :
        /\ Expired(c, k)
        /\ Len(stamps[c]) - k >= Limit
        /\ stamps' = [stamps EXCEPT ![c] = Kept(c, k)]
        /\ refused' = [refused EXCEPT ![c] = clock]
        /\ UNCHANGED <<clock, admitted>>

(* The table lives in the process; the histories start anew with it.        *)
Restart ==
    /\ stamps' = [c \in Clients |-> <<>>]
    /\ admitted' = [c \in Clients |-> <<>>]
    /\ refused' = [c \in Clients |-> -1]
    /\ UNCHANGED clock

LimiterNext ==
    \/ Tick
    \/ \E c \in Clients : Admit(c) \/ Refuse(c)
    \/ Restart

LimiterSpec == LimiterInit /\ [][LimiterNext]_limiterVars

-----------------------------------------------------------------------------
(* Every variable keeps its type.                                           *)
LimiterTypeOK ==
    /\ clock \in 0 .. MaxClock
    /\ stamps \in [Clients -> Seq(0 .. MaxClock)]
    /\ admitted \in [Clients -> Seq(0 .. MaxClock)]
    /\ refused \in [Clients -> -1 .. MaxClock]

(* Never more than Limit analyses of a client within any window: an         *)
(* admission and the Limit-th one after it lie a whole window apart, though *)
(* the limiter itself forgets what it drops.                                *)
WindowBound ==
    \A c \in Clients : \A i \in 1 .. Len(admitted[c]) - Limit :
        admitted[c][i] + Window <= admitted[c][i + Limit]

(* What the limiter would say now: a slot is free.                          *)
SlotFree(c) ==
    \E k \in 0 .. Len(stamps[c]) : Expired(c, k) /\ Len(stamps[c]) - k < Limit

(* A refusal has its cause: at that time Limit admissions of the client lay *)
(* within the last window.                                                  *)
RefusedForCause ==
    \A c \in Clients :
        refused[c] >= 0 =>
            \E i \in 1 .. Len(admitted[c]) - Limit + 1 :
                /\ admitted[c][i] > refused[c] - Window
                /\ admitted[c][i + Limit - 1] <= refused[c]

(* The Retry-After of a refusal is honest: a client that has been let       *)
(* through nothing since and waits a window finds a free slot.              *)
RetryAfterSuffices ==
    \A c \in Clients :
        /\ refused[c] >= 0
        /\ refused[c] + Window <= clock
        /\ \A i \in 1 .. Len(admitted[c]) : admitted[c][i] <= refused[c]
        => SlotFree(c)
=============================================================================
