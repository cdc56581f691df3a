--------------------------- MODULE RateLimiterProofs ---------------------------
(***************************************************************************)
(* Proofs about RateLimiter, for every limit, window, resolution of time    *)
(* and length of history.                                                   *)
(***************************************************************************)
EXTENDS RateLimiter, TLAPS

(* No call is later than now, the deque holds at most Limit, whatever was   *)
(* dropped from it stays outside the window, and a refusal leaves it full   *)
(* until time moves.                                                        *)
WindowInv ==
    /\ TypeOK
    /\ \A i \in 1..Len(served) : served[i] <= now
    /\ Len(served) + 1 - first <= Limit
    /\ \A i \in 1..first - 1 : Outside(i)
    /\ refusedAt <= now
    /\ refusedAt = now => Full(first) /\ ~Outside(first)

(* The truncated second of a time is a number that brackets it.             *)
LEMMA SecondsBracket ==
    ASSUME NEW t \in Nat
    PROVE  /\ Seconds(t) \in Nat
           /\ Seconds(t) * Second <= t
           /\ t < (Seconds(t) + 1) * Second
  BY SecondAssumption DEF Seconds

(* Times more than Window whole seconds apart are more than the window      *)
(* apart in ticks.                                                          *)
LEMMA SecondsApart ==
    ASSUME NEW s \in Nat, NEW t \in Nat, Seconds(t) - Seconds(s) > Window
    PROVE  t - s > Window * Second
<1> DEFINE a == Seconds(s)
           b == Seconds(t)
<1>1. a \in Nat /\ b \in Nat /\ b * Second <= t /\ s < (a + 1) * Second
  BY SecondsBracket
<1>2. PICK d \in Nat : b = a + 1 + Window + d
  <2>1. b - (a + 1 + Window) \in Nat
    BY <1>1, WindowAssumption
  <2> QED
    BY <1>1, <2>1, WindowAssumption
<1> HIDE DEF a, b
<1>3. b * Second = (a + 1) * Second + Window * Second + d * Second
  BY <1>1, <1>2, WindowAssumption, SecondAssumption
<1>4. d * Second \in Nat /\ Window * Second \in Nat /\ (a + 1) * Second \in Nat
  BY <1>1, <1>2, WindowAssumption, SecondAssumption
<1> QED
  BY <1>1, <1>3, <1>4

(* Time only moves a call further outside.                                  *)
LEMMA SecondsMonotone ==
    ASSUME NEW s \in Nat, NEW t \in Nat, s <= t
    PROVE  Seconds(s) <= Seconds(t)
<1> DEFINE a == Seconds(s)
           b == Seconds(t)
<1>1. a \in Nat /\ b \in Nat /\ a * Second <= s /\ t < (b + 1) * Second
  BY SecondsBracket
<1> HIDE DEF a, b
<1>2. ASSUME b < a
      PROVE  FALSE
  <2>1. PICK d \in Nat : a = b + 1 + d
    <3>1. a - (b + 1) \in Nat
      BY <1>1, <1>2
    <3> QED
      BY <1>1, <3>1
  <2>2. a * Second = (b + 1) * Second + d * Second
    BY <1>1, <2>1, SecondAssumption
  <2>3. d * Second \in Nat /\ (b + 1) * Second \in Nat
    BY <1>1, <2>1, SecondAssumption
  <2> QED
    BY <1>1, <2>2, <2>3
<1> QED
  BY <1>1, <1>2 DEF a, b

(* Times at most Window whole seconds apart are less than a second more     *)
(* than the window apart in ticks.                                          *)
LEMMA SecondsNear ==
    ASSUME NEW s \in Nat, NEW t \in Nat, Seconds(t) - Seconds(s) <= Window
    PROVE  t - s < (Window + 1) * Second
<1> DEFINE a == Seconds(s)
           b == Seconds(t)
<1>1. a \in Nat /\ b \in Nat /\ a * Second <= s /\ t < (b + 1) * Second
  BY SecondsBracket
<1>2. PICK d \in Nat : a + Window = b + d
  <2>1. a + Window - b \in Nat
    BY <1>1, WindowAssumption
  <2> QED
    BY <1>1, <2>1, WindowAssumption
<1> HIDE DEF a, b
<1>3. (b + 1) * Second + d * Second = a * Second + (Window + 1) * Second
  <2>1. b + 1 + d = a + Window + 1
    BY <1>1, <1>2, WindowAssumption
  <2> QED
    BY <1>1, <2>1, WindowAssumption, SecondAssumption
<1>4. /\ d * Second \in Nat /\ (Window + 1) * Second \in Nat
      /\ (b + 1) * Second \in Nat /\ a * Second \in Nat
  BY <1>1, <1>2, WindowAssumption, SecondAssumption
<1> QED
  BY <1>1, <1>3, <1>4

--------------------------------------------------------------------------------
(* The window *)

(* What is served joins the deque behind calls that are all inside, and     *)
(* what lies Limit before it has left the deque.                            *)
LEMMA ServedKeepsWindow ==
    ASSUME WindowInv, AtMostLimit, Served
    PROVE  WindowInv' /\ AtMostLimit'
<1> USE LimitAssumption, WindowAssumption
<1>0. TypeOK /\ now \in Nat /\ served \in Seq(Nat) /\ Len(served) \in Nat
  BY DEF WindowInv, TypeOK
<1>1. PICK f \in 1..Len(served) + 1 : PopTo(f) /\ ~Full(f) /\ first' = f
  BY DEF Served
<1>2. served' = Append(served, now) /\ now' = now /\ refusedAt' = refusedAt
  BY DEF Served
<1>3. f \in first..Len(served) + 1 /\ Len(served) + 1 - f < Limit
  BY <1>0, <1>1 DEF PopTo, Full, TypeOK
<1>4. /\ Len(served') = Len(served) + 1
      /\ served' \in Seq(Nat)
      /\ \A i \in 1..Len(served) : served'[i] = served[i]
      /\ served'[Len(served) + 1] = now
  BY <1>0, <1>2
<1>5. \A i \in 1..f - 1 : Outside(i)
  BY <1>0, <1>1, <1>3 DEF PopTo, WindowInv, TypeOK
<1>6. refusedAt # now
  <2> SUFFICES ASSUME refusedAt = now PROVE FALSE
    OBVIOUS
  <2>1. Full(first) /\ ~Outside(first)
    BY DEF WindowInv
  <2>2. f = first
    BY <1>0, <1>1, <1>3, <2>1 DEF PopTo, TypeOK
  <2> QED
    BY <1>1, <2>1, <2>2
<1>7. WindowInv'
  <2>1. TypeOK'
    BY <1>0, <1>1, <1>2, <1>3, <1>4 DEF TypeOK
  <2>2. \A i \in 1..Len(served') : served'[i] <= now'
    BY <1>0, <1>2, <1>4 DEF WindowInv
  <2>3. Len(served') + 1 - first' <= Limit
    BY <1>0, <1>1, <1>3, <1>4
  <2>4. \A i \in 1..first' - 1 : Outside(i)'
    BY <1>0, <1>1, <1>2, <1>3, <1>4, <1>5 DEF Outside, TypeOK
  <2>5. refusedAt' <= now' /\ refusedAt' # now'
    BY <1>2, <1>6 DEF WindowInv
  <2> QED
    BY <2>1, <2>2, <2>3, <2>4, <2>5 DEF WindowInv
<1>8. AtMostLimit'
  <2> SUFFICES ASSUME NEW i \in 1..Len(served'), i + Limit <= Len(served')
               PROVE  served'[i + Limit] - served'[i] > Window * Second
    BY DEF AtMostLimit
  <2>0. i \in Nat \ {0} /\ i + Limit <= Len(served) + 1
    BY <1>0, <1>4
  <2>1. CASE i + Limit <= Len(served)
    <3>1. i \in 1..Len(served) /\ i + Limit \in 1..Len(served)
      BY <1>0, <2>0, <2>1
    <3>2. served[i + Limit] - served[i] > Window * Second
      BY <2>1, <3>1 DEF AtMostLimit
    <3> QED
      BY <1>4, <3>1, <3>2
  <2>2. CASE i + Limit = Len(served) + 1
    <3>1. i \in 1..f - 1 /\ i \in 1..Len(served)
      BY <1>0, <1>3, <2>2
    <3>2. Seconds(now) - Seconds(served[i]) > Window /\ served[i] \in Nat
      BY <1>0, <1>5, <3>1 DEF Outside
    <3>3. now - served[i] > Window * Second
      BY <1>0, <3>2, SecondsApart
    <3> QED
      BY <1>4, <2>2, <3>1, <3>3
  <2>3. i + Limit <= Len(served) \/ i + Limit = Len(served) + 1
    BY <1>0, <2>0
  <2> QED
    BY <2>1, <2>2, <2>3
<1> QED
  BY <1>7, <1>8

(* A refusal drops what is outside and leaves the deque full.               *)
LEMMA RefusedKeepsWindow ==
    ASSUME WindowInv, AtMostLimit, Refused
    PROVE  WindowInv' /\ AtMostLimit'
<1> USE LimitAssumption
<1>0. TypeOK /\ now \in Nat /\ served \in Seq(Nat) /\ Len(served) \in Nat
  BY DEF WindowInv, TypeOK
<1>1. PICK f \in 1..Len(served) + 1 : PopTo(f) /\ Full(f) /\ first' = f
  BY DEF Refused
<1>2. refusedAt' = now /\ now' = now /\ served' = served
  BY DEF Refused
<1>3. f \in first..Len(served) + 1 /\ Len(served) + 1 - f >= Limit
  BY <1>0, <1>1 DEF PopTo, Full, TypeOK
<1>4. \A i \in 1..f - 1 : Outside(i)
  BY <1>0, <1>1, <1>3 DEF PopTo, WindowInv, TypeOK
<1>5. f <= Len(served) /\ ~Outside(f)
  BY <1>0, <1>1, <1>3 DEF PopTo
<1>6. TypeOK'
  BY <1>0, <1>1, <1>2, <1>3 DEF TypeOK
<1>7. /\ \A i \in 1..first' - 1 : Outside(i)'
      /\ Full(first)' /\ ~Outside(first)'
  BY <1>1, <1>2, <1>4, <1>5 DEF Outside, Full
<1>8. Len(served') + 1 - first' <= Limit
  BY <1>0, <1>1, <1>2, <1>3 DEF WindowInv, TypeOK
<1> QED
  BY <1>0, <1>2, <1>6, <1>7, <1>8 DEF WindowInv, AtMostLimit

(* Time takes no call back into the window.                                 *)
LEMMA TickKeepsWindow ==
    ASSUME WindowInv, AtMostLimit, Tick
    PROVE  WindowInv' /\ AtMostLimit'
<1>0. /\ TypeOK /\ now \in Nat /\ served \in Seq(Nat) /\ Len(served) \in Nat
      /\ refusedAt \in Int
  BY DEF WindowInv, TypeOK
<1>1. now' = now + 1 /\ UNCHANGED <<served, first, refusedAt>>
  BY DEF Tick
<1>2. Seconds(now) <= Seconds(now + 1)
  BY <1>0, SecondsMonotone
<1>3. \A i \in 1..first - 1 : Outside(i)'
  <2> SUFFICES ASSUME NEW i \in 1..first - 1 PROVE Outside(i)'
    OBVIOUS
  <2>1. Outside(i) /\ served[i] \in Nat
    BY <1>0 DEF WindowInv, TypeOK
  <2>2. Seconds(now) \in Nat /\ Seconds(served[i]) \in Nat /\ Seconds(now + 1) \in Nat
    <3>1. \A t \in Nat : Seconds(t) \in Nat
      BY SecondsBracket
    <3>2. now + 1 \in Nat
      BY <1>0
    <3> QED
      BY <1>0, <2>1, <3>1, <3>2
  <2>3. Seconds(now + 1) - Seconds(served[i]) > Window
    BY <1>2, <2>1, <2>2, WindowAssumption DEF Outside
  <2> QED
    BY <1>1, <2>3 DEF Outside
<1>4. refusedAt' <= now' /\ refusedAt' # now'
  BY <1>0, <1>1 DEF WindowInv
<1>5. TypeOK' /\ \A i \in 1..Len(served') : served'[i] <= now'
  BY <1>0, <1>1 DEF TypeOK, WindowInv
<1>6. AtMostLimit'
  BY <1>1 DEF AtMostLimit
<1> QED
  BY <1>1, <1>3, <1>4, <1>5, <1>6 DEF WindowInv

(* The inductive invariant holds in every behaviour.                        *)
LEMMA WindowInvHolds == Spec => [](WindowInv /\ AtMostLimit)
<1>1. Init => WindowInv /\ AtMostLimit
  BY LimitAssumption DEF Init, WindowInv, AtMostLimit, TypeOK
<1>2. WindowInv /\ AtMostLimit /\ [Next]_vars => WindowInv' /\ AtMostLimit'
  <2>1. CASE UNCHANGED vars
    BY <2>1 DEF vars, WindowInv, AtMostLimit, TypeOK, Outside, Full
  <2> QED
    BY <2>1, ServedKeepsWindow, RefusedKeepsWindow, TickKeepsWindow DEF Next
<1> QED
  BY <1>1, <1>2, PTL DEF Spec

(* Whatever the limit, the window and the resolution of time, at most Limit *)
(* calls are let through within a window.                                   *)
THEOREM LimitHolds == Spec => []AtMostLimit
  BY WindowInvHolds, PTL

(* The variables keep their types in every behaviour.                       *)
THEOREM LimiterTypeCorrect == Spec => []TypeOK
<1>1. WindowInv => TypeOK
  BY DEF WindowInv
<1> QED
  BY WindowInvHolds, <1>1, PTL

(* Whoever waited a second longer than the window is served.                *)
THEOREM RefusalHasCause == Spec => []RefusedWithCause
<1>1. WindowInv => RefusedWithCause
  <2> SUFFICES ASSUME WindowInv, refusedAt = now PROVE RefusedWithCause
    BY DEF RefusedWithCause
  <2>1. /\ now \in Nat /\ served \in Seq(Nat) /\ Len(served) \in Nat
        /\ first \in 1..Len(served) + 1
    BY DEF WindowInv, TypeOK
  <2>2. first = Len(served) - Limit + 1 /\ Len(served) >= Limit
    BY <2>1, LimitAssumption DEF WindowInv, Full
  <2>3. served[first] \in Nat
    BY <2>1, <2>2, LimitAssumption
  <2>4. Seconds(now) - Seconds(served[first]) <= Window
    <3>1. ~(Seconds(now) - Seconds(served[first]) > Window)
      BY DEF WindowInv, Outside
    <3>2. Seconds(now) \in Nat /\ Seconds(served[first]) \in Nat
      BY <2>1, <2>3, SecondsBracket
    <3> QED
      BY <3>1, <3>2, WindowAssumption
  <2> QED
    BY <2>1, <2>2, <2>3, <2>4, SecondsNear DEF RefusedWithCause
<1> QED
  BY WindowInvHolds, <1>1, PTL

================================================================================
