------------------------------- MODULE RateLimiter -------------------------------
(***************************************************************************)
(* The sliding window of utils/rateLimit.py: one deque of call times for    *)
(* one function name and one caller.  The wrapper runs to its verdict       *)
(* without suspension, so a call is one step.                               *)
(*                                                                          *)
(* Time is real time in ticks; the code keeps whole seconds.  The deque     *)
(* holds the latest calls that were let through, so it is represented by    *)
(* its first position in the history of those calls.                        *)
(***************************************************************************)
EXTENDS Integers, Sequences

CONSTANTS
    Limit,       \* calls a window admits
    Window,      \* its length in seconds
    Second,      \* ticks in a second
    MaxTime,     \* bound on time
    MaxCalls     \* bound on the history

ASSUME LimitAssumption == Limit \in Nat \ {0}
ASSUME WindowAssumption == Window \in Nat
ASSUME SecondAssumption == Second \in Nat \ {0}

VARIABLES
    now,         \* time
    served,      \* when calls were let through, in order
    first,       \* the deque is served[first], ..., served[Len(served)]
    refusedAt    \* when the last 429 was raised, -1 before any

vars == <<now, served, first, refusedAt>>

TypeOK ==
    /\ now \in Nat
    /\ served \in Seq(Nat)
    /\ first \in 1..Len(served) + 1
    /\ refusedAt \in Nat \cup {-1}

Init == now = 0 /\ served = <<>> /\ first = 1 /\ refusedAt = -1

(* int(datetime.now().timestamp())                                          *)
Seconds(t) == t \div Second

(* A variant that ends a window one second early.                           *)
MutOutside(i) == Seconds(now) - Seconds(served[i]) >= Window

Outside(i) == Seconds(now) - Seconds(served[i]) > Window

(* The while loop drops calls from the left as long as they are outside.    *)
PopTo(f) ==
    /\ f \in first..Len(served) + 1
    /\ \A i \in first..f - 1 : Outside(i)
    /\ f <= Len(served) => ~Outside(f)

(* A variant that appends the call before it looks at the length.           *)
MutFull(f) == Len(served) + 2 - f >= Limit

Full(f) == Len(served) + 1 - f >= Limit

Served ==
    /\ Len(served) < MaxCalls
    /\ \E f \in 1..Len(served) + 1 : PopTo(f) /\ ~Full(f) /\ first' = f
    /\ served' = Append(served, now)
    /\ UNCHANGED <<now, refusedAt>>

Refused ==
    /\ \E f \in 1..Len(served) + 1 : PopTo(f) /\ Full(f) /\ first' = f
    /\ refusedAt' = now
    /\ UNCHANGED <<now, served>>

(* A variant in which the wall clock is set back.                           *)
MutTick ==
    /\ now < MaxTime
    /\ now' = now - 1
    /\ UNCHANGED <<served, first, refusedAt>>

Tick ==
    /\ now < MaxTime
    /\ now' = now + 1
    /\ UNCHANGED <<served, first, refusedAt>>

Next == Served \/ Refused \/ Tick

Spec == Init /\ [][Next]_vars

--------------------------------------------------------------------------------
(* Properties *)

(* "At most limit requests within window seconds" (rateLimit.py:11), in     *)
(* real time although the stamps are truncated to seconds.                  *)
AtMostLimit ==
    \A i \in 1..Len(served) :
        i + Limit <= Len(served) => served[i + Limit] - served[i] > Window * Second

(* A call is refused only with Limit calls let through less than a second   *)
(* more than the window before: whoever waits that long is served.          *)
RefusedWithCause ==
    refusedAt = now =>
        /\ Len(served) >= Limit
        /\ now - served[Len(served) - Limit + 1] < (Window + 1) * Second

================================================================================
