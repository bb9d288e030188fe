---------------------------- MODULE RateLimiter ----------------------------
(***************************************************************************)
(* RateLimiter (rate_limiter.py) in time.                                  *)
(*                                                                         *)
(* The deque of timestamps is the tail of the history of all events let    *)
(* through since the last reset: passed[first .. Len(passed)].             *)
(***************************************************************************)
EXTENDS Integers, Sequences

CONSTANTS
    MaxEvents,  \* RateLimiter._max_events
    Window,     \* RateLimiter._window
    MaxTime     \* bound: when time.monotonic() stops

ASSUME LimiterAssumption ==
    /\ MaxEvents \in Nat \ {0}
    /\ Window \in Nat \ {0}
    /\ MaxTime \in Nat

VARIABLES
    now,        \* time.monotonic()
    passed,     \* history: when events were let through, since the last reset
    first       \* where _timestamps begins in it

limiterVars == <<now, passed, first>>

LimiterTypeOK ==
    /\ now \in Nat
    /\ passed \in Seq(Nat)
    /\ first \in 1 .. Len(passed) + 1

LimiterInit == now = 0 /\ passed = <<>> /\ first = 1

Tick ==
    /\ now < MaxTime
    /\ now' = now + 1
    /\ UNCHANGED <<passed, first>>

Expired(i) == passed[i] <= now - Window

\* Mutant: a timestamp that leaves the window this instant is still counted.
MutEvict(f) ==
    /\ f \in first .. Len(passed) + 1
    /\ \A i \in first .. f - 1 : passed[i] < now - Window
    /\ f <= Len(passed) => ~(passed[f] < now - Window)

\* The eviction loop leaves _timestamps beginning at f: everything before has
\* expired, and f is the first that has not.
Evict(f) ==
    /\ f \in first .. Len(passed) + 1
    /\ \A i \in first .. f - 1 : Expired(i)
    /\ f <= Len(passed) => ~Expired(f)

Held(f) == Len(passed) + 1 - f

\* Mutant: one event too many.
MutAllow ==
    \E f \in first .. Len(passed) + 1 :
        /\ Evict(f)
        /\ Held(f) <= MaxEvents
        /\ first' = f
        /\ passed' = Append(passed, now)
        /\ UNCHANGED now

\* allow() returns True: the event is recorded.
Allow ==
    \E f \in first .. Len(passed) + 1 :
        /\ Evict(f)
        /\ Held(f) < MaxEvents
        /\ first' = f
        /\ passed' = Append(passed, now)
        /\ UNCHANGED now

\* allow() returns False: it is not.
Reject ==
    \E f \in first .. Len(passed) + 1 :
        /\ Evict(f)
        /\ Held(f) >= MaxEvents
        /\ first' = f
        /\ UNCHANGED <<now, passed>>

Reset == passed' = <<>> /\ first' = 1 /\ UNCHANGED now

-----------------------------------------------------------------------------

(***************************************************************************)
(* Between two resets, any MaxEvents + 1 events that were let through span *)
(* at least the window, wherever in time it is laid: no burst gets past    *)
(* the limit at the edge of a window.                                      *)
(***************************************************************************)
WindowBound ==
    \A i \in 1 .. Len(passed) - MaxEvents : passed[i] + Window <= passed[i + MaxEvents]

\* MaxEvents events were let through within the window that ends now.
WindowFull ==
    /\ Len(passed) >= MaxEvents
    /\ passed[Len(passed) - MaxEvents + 1] > now - Window
=============================================================================
