------------------------- MODULE RateLimiterProofs -------------------------
(***************************************************************************)
(* What RateLimiter promises for any number of threads and keys, any limit *)
(* and any window.                                                         *)
(***************************************************************************)
EXTENDS RateLimiter, SequenceTheorems, TLAPS

USE ThreadsAssumption, KeysAssumption, LimitAssumption, WindowAssumption, SecondAssumption,
    MaxTimeAssumption

-----------------------------------------------------------------------------
(***************************************************************************)
(* Facts about the arithmetic of a denial.                                 *)
(***************************************************************************)

LEMMA WindowIsPositive == Window \in Nat \ {0}
  BY SMTT(30) DEF Window

LEMMA Products == \A m, n \in Int : m * n \in Int
  OBVIOUS

LEMMA PositiveFactor ==
  \A m \in Int, n \in Nat \ {0} : m * n >= 1 => m >= 1
  BY SMTT(30)

LEMMA CeilSecondsCovers ==
  ASSUME NEW ticks \in Int
  PROVE  /\ CeilSeconds(ticks) \in Int
         /\ CeilSeconds(ticks) * Second >= ticks
         /\ CeilSeconds(ticks) * Second < ticks + Second
  BY SMTT(30) DEF CeilSeconds

-----------------------------------------------------------------------------
(***************************************************************************)
(* The inductive invariant.  SlidingWindow says nothing of the deque, which *)
(* is what a grant looks at, so it is not inductive: what ties the two is  *)
(* that a deque holds exactly the youngest grants of its key and that the  *)
(* grants it no longer holds had expired when the current stamp was read.  *)
(***************************************************************************)

\* The thread past "with self._lock" is the owner, and the only one.
LockInv == \A t \in Threads : pc[t] # "idle" <=> owner = t

\* How many grants of the key its deque has forgotten.
Forgotten(k) == Len(grants[k]) - Len(history[k])

DequeInv ==
  \A k \in Keys :
    /\ Forgotten(k) >= 0
    /\ Len(history[k]) <= Limit
    /\ \A i \in 1 .. Len(history[k]) : history[k][i] = grants[k][Forgotten(k) + i]

\* Stamps are read inside the lock, so grants are in the order of the clock.
ClockInv ==
  /\ \A k \in Keys : \A i, j \in 1 .. Len(grants[k]) :
       i <= j => grants[k][i] <= grants[k][j]
  /\ \A k \in Keys : \A i \in 1 .. Len(grants[k]) : grants[k][i] <= now
  /\ \A t \in Threads : pc[t] = "pruning" =>
       /\ stamp[t] <= now
       /\ \A k \in Keys : \A i \in 1 .. Len(grants[k]) : grants[k][i] <= stamp[t]

ExpiredInv ==
  \A k \in Keys : \A i \in 1 .. Forgotten(k) :
    /\ grants[k][i] + Window <= now
    /\ \A t \in Threads : pc[t] = "pruning" => grants[k][i] + Window <= stamp[t]

PromiseInv ==
  \A k \in Keys : promise[k] # 0 =>
    \/ Len(history[k]) < Limit
    \/ history[k][1] + Window <= promise[k]

IInv ==
  /\ TypeOK
  /\ LockInv
  /\ DequeInv
  /\ ClockInv
  /\ ExpiredInv
  /\ PromiseInv
  /\ SlidingWindow
  /\ RetryAfterInRange

-----------------------------------------------------------------------------
(***************************************************************************)
(* What a denial answers.  The head of a full deque is a live grant, so    *)
(* the ceiling is taken of a number between 1 and Window.                  *)
(***************************************************************************)
LEMMA RetryAfterBounds ==
  ASSUME TypeOK, DequeInv, ClockInv,
         NEW t \in Threads, pc[t] = "pruning", ~HeadExpired(t),
         Len(history[key[t]]) >= Limit
  PROVE  /\ RetryAfter(t) \in 1 .. WindowSeconds
         /\ history[key[t]][1] + Window <= stamp[t] + RetryAfter(t) * Second
         /\ stamp[t] + RetryAfter(t) * Second
              < history[key[t]][1] + Window + Second
<1> DEFINE k == key[t]
           h == history[k]
           left == Window - (stamp[t] - h[1])
<1>1. /\ k \in Keys
      /\ h \in Seq(Nat)
      /\ stamp[t] \in Nat
      /\ Window \in Nat \ {0}
  BY WindowIsPositive DEF TypeOK
<1>2. /\ h # << >>
      /\ Head(h) = h[1]
      /\ h[1] \in Nat
  BY <1>1
<1>3. h[1] <= stamp[t]
  <2>1. /\ grants[k] \in Seq(Nat)
        /\ Len(h) \in Nat \ {0}
        /\ Forgotten(k) + 1 \in 1 .. Len(grants[k])
        /\ h[1] = grants[k][Forgotten(k) + 1]
    <3>1. grants[k] \in Seq(Nat)
      BY <1>1 DEF TypeOK
    <3>2. PICK n \in Nat : n = Len(grants[k])
      BY <3>1
    <3>3. PICK m \in Nat \ {0} : m = Len(h)
      BY <1>1, <1>2
    <3>4. /\ Forgotten(k) >= 0
          /\ h[1] = grants[k][Forgotten(k) + 1]
      BY <1>1, <3>3 DEF DequeInv
    <3>5. Forgotten(k) = n - m
      BY <3>2, <3>3 DEF Forgotten
    <3>6. Forgotten(k) + 1 \in 1 .. n
      BY <3>4, <3>5
    <3>. QED  BY <3>1, <3>2, <3>3, <3>4, <3>6
  <2>. QED  BY <1>1, <2>1 DEF ClockInv
<1>4. h[1] > stamp[t] - Window
  BY <1>1, <1>2 DEF HeadExpired
<1>5. left \in 1 .. Window
  <2>1. PICK a \in Nat : a = h[1]
    BY <1>2
  <2>2. PICK r \in Nat : r = stamp[t]
    BY <1>1
  <2>3. PICK w \in Nat : w = Window
    BY <1>1
  <2>4. a <= r /\ a > r - w
    BY <1>3, <1>4, <2>1, <2>2, <2>3
  <2>5. w - (r - a) \in 1 .. w
    BY <2>4
  <2>. QED  BY <2>1, <2>2, <2>3, <2>5
<1>6. /\ CeilSeconds(left) \in Int
      /\ CeilSeconds(left) * Second >= left
      /\ CeilSeconds(left) * Second < left + Second
  BY <1>5, CeilSecondsCovers
<1>7. CeilSeconds(left) \in 1 .. WindowSeconds
  <2> HIDE DEF left
  <2>1. CeilSeconds(left) >= 1
    <3>1. PICK c \in Int : c = CeilSeconds(left)
      BY <1>6
    <3>2. c * Second >= 1 /\ Second \in Nat \ {0}
      <4>1. PICK p \in Int : p = c * Second
        BY <3>1, Products
      <4>2. p >= left /\ left >= 1
        BY <1>1, <1>5, <1>6, <3>1, <4>1
      <4>. QED  BY <1>1, <1>5, <4>1, <4>2
    <3>. QED  BY <3>1, <3>2, PositiveFactor
  <2>2. CeilSeconds(left) * Second < (WindowSeconds + 1) * Second
    <3>1. (WindowSeconds + 1) * Second = Window + Second
      BY SMTT(30) DEF Window
    <3>2. CeilSeconds(left) * Second \in Int
      BY <1>6, Products
    <3>. QED  BY <1>1, <1>5, <1>6, <3>1, <3>2
  <2>3. CeilSeconds(left) < WindowSeconds + 1
    BY <1>6, <2>2, SMTT(30)
  <2>. QED  BY <1>6, <2>1, <2>3
<1>8. RetryAfter(t) = CeilSeconds(left)
  BY <1>2, <1>7 DEF RetryAfter, AtLeastOne
<1>. QED
  <2>1. RetryAfter(t) * Second >= left
    BY <1>6, <1>8
  <2>2. RetryAfter(t) * Second \in Int
    BY <1>7, <1>8, Products
  <2>3. /\ h[1] + Window <= stamp[t] + RetryAfter(t) * Second
        /\ stamp[t] + RetryAfter(t) * Second < h[1] + Window + Second
    <3>1. PICK p \in Int : p = RetryAfter(t) * Second
      BY <2>2
    <3>2. PICK r \in Nat : r = stamp[t]
      BY <1>1
    <3>3. PICK w \in Nat : w = Window
      BY <1>1
    <3>4. PICK a \in Nat : a = h[1]
      BY <1>2
    <3>5. p >= w - (r - a) /\ p < (w - (r - a)) + Second
      BY <1>6, <1>8, <2>1, <3>1, <3>2, <3>3, <3>4
    <3>6. a + w <= r + p /\ r + p < a + w + Second
      BY <3>1, <3>5
    <3>7. h[1] + Window <= stamp[t] + p /\ stamp[t] + p < h[1] + Window + Second
      BY <3>2, <3>3, <3>4, <3>6
    <3>. QED  BY <3>1, <3>7
  <2>. QED  BY <1>7, <1>8, <2>3

-----------------------------------------------------------------------------
(***************************************************************************)
(* The invariant holds initially and every step keeps it.                  *)
(***************************************************************************)
LEMMA AppendLen ==
  ASSUME NEW s \in Seq(Nat), NEW e \in Nat
  PROVE  Len(s) \in Nat /\ Len(Append(s, e)) = Len(s) + 1
OBVIOUS

LEMMA StampTypes ==
  ASSUME TypeOK
  PROVE  \A k \in Keys :
           /\ Len(history[k]) \in Nat
           /\ Len(grants[k]) \in Nat
           /\ \A i \in 1 .. Len(history[k]) : history[k][i] \in Nat
           /\ \A i \in 1 .. Len(grants[k]) : grants[k][i] \in Nat
<1> SUFFICES ASSUME NEW k \in Keys
             PROVE  /\ Len(history[k]) \in Nat
                    /\ Len(grants[k]) \in Nat
                    /\ \A i \in 1 .. Len(history[k]) : history[k][i] \in Nat
                    /\ \A i \in 1 .. Len(grants[k]) : grants[k][i] \in Nat
  OBVIOUS
<1>1. history[k] \in Seq(Nat) /\ grants[k] \in Seq(Nat)
  BY DEF TypeOK
<1>2. \A s \in Seq(Nat) : Len(s) \in Nat /\ \A i \in 1 .. Len(s) : s[i] \in Nat
  OBVIOUS
<1>. QED  BY <1>1, <1>2

LEMMA InitIInv == Init => IInv
<1> SUFFICES ASSUME Init PROVE IInv
  OBVIOUS
<1>1. TypeOK
  BY EmptySeq DEF Init, TypeOK
<1>2. \A k \in Keys : Len(grants[k]) = 0 /\ Len(history[k]) = 0
  BY DEF Init
<1>. QED
  BY <1>1, <1>2 DEF Init, IInv, LockInv, DequeInv, Forgotten, ClockInv,
     ExpiredInv, PromiseInv, SlidingWindow, RetryAfterInRange

LEMMA TickIInv == IInv /\ Tick => IInv'
<1> SUFFICES ASSUME IInv, Tick PROVE IInv'
  OBVIOUS
<1> USE DEF IInv, Tick
<1>1. TypeOK'
  BY DEF TypeOK
<1>2. LockInv' /\ DequeInv' /\ PromiseInv' /\ SlidingWindow' /\ RetryAfterInRange'
  BY DEF LockInv, DequeInv, Forgotten, PromiseInv, SlidingWindow, RetryAfterInRange
<1>3. ClockInv'
  <2>1. now \in Nat /\ now' = now + 1
    BY DEF TypeOK
  <2>2. \A k \in Keys : \A i \in 1 .. Len(grants[k]) : grants[k][i] \in Nat
    BY StampTypes
  <2>3. \A k \in Keys : \A i \in 1 .. Len(grants[k]) : grants[k][i] <= now'
    BY <2>1, <2>2 DEF ClockInv
  <2>4. \A t \in Threads : pc[t] = "pruning" => stamp[t] \in Nat /\ stamp[t] <= now'
    BY <2>1 DEF ClockInv, TypeOK
  <2>. QED  BY <2>3, <2>4 DEF ClockInv
<1>4. ExpiredInv'
  <2>1. \A k \in Keys : \A i \in 1 .. Forgotten(k) : grants[k][i] \in Nat
    <3> SUFFICES ASSUME NEW k \in Keys, NEW i \in 1 .. Forgotten(k)
                 PROVE  grants[k][i] \in Nat
      OBVIOUS
    <3>1. Len(history[k]) \in Nat /\ Len(grants[k]) \in Nat
      BY StampTypes
    <3>2. i \in 1 .. Len(grants[k])
      BY <3>1 DEF Forgotten
    <3>. QED  BY <3>2, StampTypes
  <2>2. now \in Nat /\ now' = now + 1 /\ Window \in Nat
    BY WindowIsPositive DEF TypeOK
  <2>3. \A k \in Keys : \A i \in 1 .. Forgotten(k) : grants[k][i] + Window <= now'
    BY <2>1, <2>2 DEF ExpiredInv
  <2>4. \A k \in Keys : Forgotten(k)' = Forgotten(k)
    BY DEF Forgotten
  <2>. QED  BY <2>3, <2>4 DEF ExpiredInv
<1>. QED  BY <1>1, <1>2, <1>3, <1>4

LEMMA EnterIInv ==
  ASSUME NEW t \in Threads, NEW k \in Keys, IInv, Enter(t, k)
  PROVE  IInv'
<1> USE DEF IInv, Enter
<1>1. TypeOK'
  BY DEF TypeOK
<1>2. LockInv'
  BY DEF LockInv, TypeOK
<1>3. DequeInv' /\ PromiseInv' /\ SlidingWindow' /\ RetryAfterInRange'
  BY DEF DequeInv, Forgotten, PromiseInv, SlidingWindow, RetryAfterInRange
<1>4. \A u \in Threads : pc'[u] = "pruning" => pc[u] = "pruning"
  BY DEF TypeOK
<1>5. ClockInv'
  BY <1>4 DEF ClockInv
<1>6. ExpiredInv'
  BY <1>4 DEF ExpiredInv, Forgotten
<1>. QED  BY <1>1, <1>2, <1>3, <1>5, <1>6

LEMMA ReadClockIInv ==
  ASSUME NEW t \in Threads, IInv, ReadClock(t)
  PROVE  IInv'
<1> USE DEF IInv, ReadClock
<1>1. TypeOK'
  BY DEF TypeOK
<1>2. LockInv'
  BY DEF LockInv, TypeOK
<1>3. DequeInv' /\ PromiseInv' /\ SlidingWindow' /\ RetryAfterInRange'
  BY DEF DequeInv, Forgotten, PromiseInv, SlidingWindow, RetryAfterInRange
<1>4. \A u \in Threads : pc'[u] = "pruning" =>
        stamp'[u] = now \/ (pc[u] = "pruning" /\ stamp'[u] = stamp[u])
  BY DEF TypeOK
<1>5. ClockInv'
  <2>1. /\ now' = now
        /\ grants' = grants
        /\ now \in Nat
    BY DEF TypeOK
  <2>2. ASSUME NEW u \in Threads, pc'[u] = "pruning"
        PROVE  /\ stamp'[u] <= now
               /\ \A k \in Keys : \A i \in 1 .. Len(grants[k]) : grants[k][i] <= stamp'[u]
    BY <1>4, <2>1, <2>2 DEF ClockInv
  <2>. QED  BY <2>1, <2>2 DEF ClockInv
<1>6. ExpiredInv'
  BY <1>4 DEF ExpiredInv, Forgotten
<1>. QED  BY <1>1, <1>2, <1>3, <1>5, <1>6

LEMMA PopLeftIInv ==
  ASSUME NEW t \in Threads, NEW k \in Keys, k = key[t], IInv, PopLeft(t)
  PROVE  IInv'
<1>1. /\ TypeOK /\ LockInv /\ DequeInv /\ ClockInv /\ ExpiredInv /\ PromiseInv
      /\ SlidingWindow /\ RetryAfterInRange
  BY DEF IInv
<1>2. /\ pc[t] = "pruning"
      /\ HeadExpired(t)
      /\ history' = [history EXCEPT ![k] = Tail(history[k])]
  BY DEF PopLeft
<1>3. /\ now' = now /\ owner' = owner /\ pc' = pc /\ key' = key
      /\ stamp' = stamp /\ reply' = reply /\ grants' = grants /\ promise' = promise
  BY DEF PopLeft
<1>4. /\ history[k] \in Seq(Nat)
      /\ history[k] # << >>
      /\ Len(history[k]) \in Nat \ {0}
      /\ Head(history[k]) = history[k][1]
      /\ stamp[t] \in Nat
      /\ now \in Nat
  BY <1>1, <1>2 DEF TypeOK, HeadExpired
<1>5. /\ history'[k] = Tail(history[k])
      /\ \A l \in Keys \ {k} : history'[l] = history[l]
  BY <1>1, <1>2 DEF TypeOK
<1>6. /\ history'[k] \in Seq(Nat)
      /\ Len(history'[k]) = Len(history[k]) - 1
      /\ \A i \in 1 .. Len(history'[k]) : history'[k][i] = history[k][i + 1]
  BY <1>4, <1>5, HeadTailProperties
<1>7. PICK f \in Nat : f = Forgotten(k)
  <2>1. Len(grants[k]) \in Nat /\ Len(history[k]) \in Nat
    BY <1>1, StampTypes
  <2>2. Forgotten(k) >= 0
    BY <1>1 DEF DequeInv
  <2>3. Forgotten(k) \in Int
    BY <2>1 DEF Forgotten
  <2>. QED  BY <2>2, <2>3
<1>8. /\ Forgotten(k)' = f + 1
      /\ f + 1 \in 1 .. Len(grants[k])
  <2>1. PICK n \in Nat : n = Len(grants[k])
    BY <1>1, StampTypes
  <2>2. PICK m \in Nat \ {0} : m = Len(history[k]) /\ Len(history'[k]) = m - 1
    BY <1>4, <1>6
  <2>3. f = n - m
    BY <1>7, <2>1, <2>2 DEF Forgotten
  <2>4. Forgotten(k)' = n - (m - 1)
    BY <1>3, <2>1, <2>2 DEF Forgotten
  <2>. QED  BY <2>1, <2>3, <2>4
<1>9. \A l \in Keys \ {k} : Forgotten(l)' = Forgotten(l)
  BY <1>3, <1>5 DEF Forgotten
<1>10. TypeOK'
  BY <1>1, <1>2, <1>3, <1>5, <1>6 DEF TypeOK
<1>11. LockInv' /\ ClockInv' /\ SlidingWindow' /\ RetryAfterInRange'
  BY <1>1, <1>3 DEF LockInv, ClockInv, SlidingWindow, RetryAfterInRange
<1>12. DequeInv'
  <2> SUFFICES ASSUME NEW l \in Keys
               PROVE  /\ Forgotten(l)' >= 0
                      /\ Len(history'[l]) <= Limit
                      /\ \A i \in 1 .. Len(history'[l]) :
                           history'[l][i] = grants[l][Forgotten(l)' + i]
    BY <1>3 DEF DequeInv
  <2>1. CASE l = k
    <3>1. /\ Len(history'[k]) <= Limit
          /\ Forgotten(k)' >= 0
      BY <1>1, <1>4, <1>6, <1>7, <1>8 DEF DequeInv
    <3>2. ASSUME NEW i \in 1 .. Len(history'[k])
          PROVE  history'[k][i] = grants[k][Forgotten(k)' + i]
      <4>1. i + 1 \in 1 .. Len(history[k])
        BY <1>4, <1>6
      <4>2. history[k][i + 1] = grants[k][f + (i + 1)]
        BY <1>1, <1>7, <4>1 DEF DequeInv
      <4>3. f + (i + 1) = Forgotten(k)' + i
        BY <1>4, <1>6, <1>7, <1>8
      <4>. QED  BY <1>6, <4>2, <4>3
    <3>. QED  BY <2>1, <3>1, <3>2
  <2>2. CASE l # k
    <3>1. history'[l] = history[l] /\ Forgotten(l)' = Forgotten(l)
      BY <1>5, <1>9, <2>2
    <3>. QED  BY <1>1, <3>1 DEF DequeInv
  <2>. QED  BY <2>1, <2>2
<1>13. ExpiredInv'
  <2> SUFFICES ASSUME NEW l \in Keys, NEW i \in 1 .. Forgotten(l)'
               PROVE  /\ grants[l][i] + Window <= now
                      /\ \A u \in Threads :
                           pc[u] = "pruning" => grants[l][i] + Window <= stamp[u]
    BY <1>3 DEF ExpiredInv
  <2>1. CASE i \in 1 .. Forgotten(l)
    BY <1>1, <2>1 DEF ExpiredInv
  <2>2. CASE l = k /\ i = f + 1
    <3>1. \A u \in Threads : pc[u] = "pruning" => u = t
      BY <1>1, <1>2 DEF LockInv
    <3>2. grants[k][f + 1] = history[k][1]
      <4>1. 1 \in 1 .. Len(history[k])
        BY <1>4
      <4>. QED  BY <1>1, <1>7, <4>1 DEF DequeInv
    <3>3. history[k][1] <= stamp[t] - Window
      BY <1>2, <1>4 DEF HeadExpired
    <3>4. stamp[t] <= now
      BY <1>1, <1>2 DEF ClockInv
    <3>5. history[k][1] \in Nat
      BY <1>4
    <3>6. history[k][1] + Window <= stamp[t] /\ history[k][1] + Window <= now
      BY <1>4, <3>3, <3>4, <3>5, WindowIsPositive
    <3>. QED  BY <2>2, <3>1, <3>2, <3>6
  <2>. QED  BY <1>7, <1>8, <1>9, <2>1, <2>2
<1>14. PromiseInv'
  <2>1. Len(history'[k]) < Limit
    BY <1>1, <1>4, <1>6 DEF DequeInv
  <2>. QED  BY <1>1, <1>3, <1>5, <2>1 DEF PromiseInv
<1>. QED  BY <1>10, <1>11, <1>12, <1>13, <1>14 DEF IInv

LEMMA DenyIInv ==
  ASSUME NEW t \in Threads, NEW k \in Keys, k = key[t], IInv, Deny(t)
  PROVE  IInv'
<1>1. /\ TypeOK /\ LockInv /\ DequeInv /\ ClockInv /\ ExpiredInv /\ PromiseInv
      /\ SlidingWindow /\ RetryAfterInRange
  BY DEF IInv
<1>2. /\ pc[t] = "pruning"
      /\ ~HeadExpired(t)
      /\ Len(history[k]) >= Limit
      /\ reply' = [reply EXCEPT ![t] = RetryAfter(t)]
      /\ promise' = [promise EXCEPT ![k] = stamp[t] + RetryAfter(t) * Second]
  BY DEF Deny
<1>3. /\ owner' = NoThread
      /\ pc' = [pc EXCEPT ![t] = "idle"]
      /\ stamp' = [stamp EXCEPT ![t] = 0]
      /\ now' = now /\ history' = history /\ key' = key /\ grants' = grants
  BY DEF Deny, Release
<1>4. /\ RetryAfter(t) \in 1 .. WindowSeconds
      /\ history[k][1] + Window <= stamp[t] + RetryAfter(t) * Second
  BY <1>1, <1>2, RetryAfterBounds
<1>5. stamp[t] + RetryAfter(t) * Second \in Nat
  <2>1. stamp[t] \in Nat
    BY <1>1 DEF TypeOK
  <2>2. RetryAfter(t) \in Nat
    BY <1>4
  <2>3. RetryAfter(t) * Second \in Nat
    BY <2>2, SMTT(30)
  <2>4. PICK p \in Nat : p = RetryAfter(t) * Second
    BY <2>3
  <2>. QED  BY <2>1, <2>4
<1>6. \A u \in Threads : pc'[u] = "pruning" => pc[u] = "pruning" /\ stamp'[u] = stamp[u]
  BY <1>1, <1>3 DEF TypeOK
<1>7. TypeOK'
  <2>1. PICK p \in Nat : p = stamp[t] + RetryAfter(t) * Second
    BY <1>5
  <2>2. PICK q \in Nat : q = RetryAfter(t)
    BY <1>4
  <2>3. reply' \in [Threads -> Nat] /\ promise' \in [Keys -> Nat]
    BY <1>1, <1>2, <2>1, <2>2 DEF TypeOK
  <2>. QED  BY <1>1, <1>3, <2>3 DEF TypeOK
<1>8. LockInv'
  BY <1>1, <1>2, <1>3 DEF LockInv, TypeOK
<1>9. DequeInv' /\ SlidingWindow'
  BY <1>1, <1>3 DEF DequeInv, Forgotten, SlidingWindow
<1>10. ClockInv'
  BY <1>1, <1>3, <1>6 DEF ClockInv
<1>11. ExpiredInv'
  BY <1>1, <1>3, <1>6 DEF ExpiredInv, Forgotten
<1>12. PromiseInv'
  BY <1>1, <1>2, <1>3, <1>4 DEF PromiseInv, TypeOK
<1>13. RetryAfterInRange'
  BY <1>1, <1>2, <1>4 DEF RetryAfterInRange, TypeOK
<1>. QED  BY <1>7, <1>8, <1>9, <1>10, <1>11, <1>12, <1>13 DEF IInv

LEMMA GrantIInv ==
  ASSUME NEW t \in Threads, NEW k \in Keys, k = key[t], IInv, Grant(t)
  PROVE  IInv'
<1>1. /\ TypeOK /\ LockInv /\ DequeInv /\ ClockInv /\ ExpiredInv /\ PromiseInv
      /\ SlidingWindow /\ RetryAfterInRange
  BY DEF IInv
<1>2. /\ pc[t] = "pruning"
      /\ Len(history[k]) < Limit
      /\ history' = [history EXCEPT ![k] = Append(history[k], stamp[t])]
      /\ reply' = [reply EXCEPT ![t] = 0]
      /\ grants' = [grants EXCEPT ![k] = Append(grants[k], stamp[t])]
      /\ promise' = [promise EXCEPT ![k] = 0]
  BY DEF Grant
<1>3. /\ owner' = NoThread
      /\ pc' = [pc EXCEPT ![t] = "idle"]
      /\ stamp' = [stamp EXCEPT ![t] = 0]
      /\ now' = now /\ key' = key
  BY DEF Grant, Release
<1>4. /\ stamp[t] \in Nat
      /\ now \in Nat
      /\ stamp[t] <= now
      /\ history[k] \in Seq(Nat)
      /\ grants[k] \in Seq(Nat)
  BY <1>1, <1>2 DEF TypeOK, ClockInv
<1>5. /\ history'[k] = Append(history[k], stamp[t])
      /\ grants'[k] = Append(grants[k], stamp[t])
      /\ \A l \in Keys \ {k} : history'[l] = history[l] /\ grants'[l] = grants[l]
  BY <1>1, <1>2 DEF TypeOK
<1>a. PICK m \in Nat : m = Len(history[k]) /\ Len(history'[k]) = m + 1
  <2>1. /\ Len(history[k]) \in Nat
        /\ Len(Append(history[k], stamp[t])) = Len(history[k]) + 1
    BY <1>4, AppendLen
  <2>2. history'[k] = Append(history[k], stamp[t])
    BY <1>5
  <2>. QED  BY <2>1, <2>2
<1>b. PICK n \in Nat : n = Len(grants[k]) /\ Len(grants'[k]) = n + 1
  <2>1. /\ Len(grants[k]) \in Nat
        /\ Len(Append(grants[k], stamp[t])) = Len(grants[k]) + 1
    BY <1>4, AppendLen
  <2>2. grants'[k] = Append(grants[k], stamp[t])
    BY <1>5
  <2>. QED  BY <2>1, <2>2
<1>6. /\ m = Len(history[k]) /\ Len(history'[k]) = m + 1
      /\ n = Len(grants[k]) /\ Len(grants'[k]) = n + 1
  BY <1>a, <1>b
<1>7. /\ history'[k] \in Seq(Nat)
      /\ \A i \in 1 .. m : history'[k][i] = history[k][i]
      /\ history'[k][m + 1] = stamp[t]
  BY <1>4, <1>5, <1>6, AppendProperties
<1>8. /\ grants'[k] \in Seq(Nat)
      /\ \A i \in 1 .. n : grants'[k][i] = grants[k][i]
      /\ grants'[k][n + 1] = stamp[t]
  BY <1>4, <1>5, <1>6, AppendProperties
<1>9. /\ Forgotten(k) = n - m
      /\ Forgotten(k)' = n - m
      /\ n - m >= 0
      /\ \A l \in Keys \ {k} : Forgotten(l)' = Forgotten(l)
  <2>1. Forgotten(k) = n - m /\ Forgotten(k) >= 0
    BY <1>1, <1>6 DEF Forgotten, DequeInv
  <2>2. Forgotten(k)' = (n + 1) - (m + 1)
    BY <1>6 DEF Forgotten
  <2>3. \A l \in Keys \ {k} : Forgotten(l)' = Forgotten(l)
    BY <1>5 DEF Forgotten
  <2>. QED  BY <2>1, <2>2, <2>3
<1>10. \A i \in 1 .. n : grants[k][i] <= stamp[t] /\ grants[k][i] \in Nat
  BY <1>1, <1>2, <1>4, <1>6, StampTypes DEF ClockInv
<1>11. \A u \in Threads : pc'[u] # "pruning"
  BY <1>1, <1>2, <1>3 DEF TypeOK, LockInv
<1>12. TypeOK'
  BY <1>1, <1>2, <1>3, <1>5, <1>7, <1>8 DEF TypeOK
<1>13. LockInv'
  BY <1>1, <1>2, <1>3 DEF LockInv, TypeOK
<1>14. DequeInv'
  <2> SUFFICES ASSUME NEW l \in Keys
               PROVE  /\ Forgotten(l)' >= 0
                      /\ Len(history'[l]) <= Limit
                      /\ \A i \in 1 .. Len(history'[l]) :
                           history'[l][i] = grants'[l][Forgotten(l)' + i]
    BY DEF DequeInv
  <2>1. CASE l = k
    <3>1. Len(history'[k]) <= Limit /\ Forgotten(k)' >= 0
      BY <1>2, <1>6, <1>9
    <3>2. ASSUME NEW i \in 1 .. m
          PROVE  history'[k][i] = grants'[k][Forgotten(k)' + i]
      <4>1. history[k][i] = grants[k][(n - m) + i]
        BY <1>1, <1>6, <1>9 DEF DequeInv
      <4>2. n - m >= 0
        BY <1>9
      <4>3. (n - m) + i \in 1 .. n
        BY <4>2
      <4>. QED  BY <1>7, <1>8, <1>9, <4>1, <4>3
    <3>3. history'[k][m + 1] = grants'[k][Forgotten(k)' + (m + 1)]
      <4>1. (n - m) + (m + 1) = n + 1
        OBVIOUS
      <4>. QED  BY <1>7, <1>8, <1>9, <4>1
    <3>4. \A i \in 1 .. m + 1 : i \in 1 .. m \/ i = m + 1
      BY <1>6
    <3>. QED  BY <1>6, <2>1, <3>1, <3>2, <3>3, <3>4
  <2>2. CASE l # k
    <3>1. /\ history'[l] = history[l]
          /\ grants'[l] = grants[l]
          /\ Forgotten(l)' = Forgotten(l)
      BY <1>5, <1>9, <2>2
    <3>. QED  BY <1>1, <3>1 DEF DequeInv
  <2>. QED  BY <2>1, <2>2
<1>15. ClockInv'
  <2>1. ASSUME NEW l \in Keys
        PROVE  /\ \A i, j \in 1 .. Len(grants'[l]) : i <= j => grants'[l][i] <= grants'[l][j]
               /\ \A i \in 1 .. Len(grants'[l]) : grants'[l][i] <= now
    <3>1. CASE l = k
      <4>1. \A i \in 1 .. n + 1 : i \in 1 .. n \/ i = n + 1
        OBVIOUS
      <4>2. \A i, j \in 1 .. n : i <= j => grants'[k][i] <= grants'[k][j]
        <5>1. \A i, j \in 1 .. n : i <= j => grants[k][i] <= grants[k][j]
          BY <1>1, <1>6 DEF ClockInv
        <5>2. \A i \in 1 .. n : grants'[k][i] = grants[k][i]
          BY <1>8
        <5>. QED  BY <5>1, <5>2
      <4>3. \A i \in 1 .. n + 1 : grants'[k][i] <= stamp[t]
        <5>1. \A i \in 1 .. n : grants'[k][i] <= stamp[t]
          BY <1>8, <1>10
        <5>2. grants'[k][n + 1] <= stamp[t]
          BY <1>4, <1>8
        <5>. QED  BY <4>1, <5>1, <5>2
      <4>4. \A i \in 1 .. n + 1 : grants'[k][i] \in Nat
        BY <1>4, <1>8, <1>10, <4>1
      <4>5. \A i, j \in 1 .. n + 1 : i <= j => grants'[k][i] <= grants'[k][j]
        <5> SUFFICES ASSUME NEW i \in 1 .. n + 1, NEW j \in 1 .. n + 1, i <= j
                     PROVE  grants'[k][i] <= grants'[k][j]
          OBVIOUS
        <5>1. CASE j = n + 1
          BY <1>8, <4>3, <5>1
        <5>2. CASE j \in 1 .. n
          <6>1. i \in 1 .. n
            BY <5>2
          <6>. QED  BY <4>2, <5>2, <6>1
        <5>. QED  BY <4>1, <5>1, <5>2
      <4>6. \A i \in 1 .. n + 1 : grants'[k][i] <= now
        BY <1>4, <4>3, <4>4
      <4>. QED  BY <1>6, <3>1, <4>5, <4>6
    <3>2. CASE l # k
      BY <1>1, <1>5, <3>2 DEF ClockInv
    <3>. QED  BY <3>1, <3>2
  <2>. QED  BY <1>3, <1>11, <2>1 DEF ClockInv
<1>16. ExpiredInv'
  <2> SUFFICES ASSUME NEW l \in Keys, NEW i \in 1 .. Forgotten(l)'
               PROVE  grants'[l][i] + Window <= now
    BY <1>3, <1>11 DEF ExpiredInv
  <2>1. CASE l = k
    <3>1. i \in 1 .. Forgotten(k)
      BY <1>9, <2>1
    <3>2. i \in 1 .. n
      <4>1. i \in 1 .. n - m
        BY <1>9, <2>1
      <4>. QED  BY <4>1
    <3>. QED  BY <1>1, <1>8, <2>1, <3>1, <3>2 DEF ExpiredInv
  <2>2. CASE l # k
    BY <1>1, <1>5, <1>9, <2>2 DEF ExpiredInv
  <2>. QED  BY <2>1, <2>2
<1>17. SlidingWindow'
  <2> SUFFICES ASSUME NEW l \in Keys, NEW i \in 1 .. Len(grants'[l]) - Limit
               PROVE  grants'[l][i + Limit] - grants'[l][i] >= Window
    BY DEF SlidingWindow
  <2>1. CASE l = k /\ i + Limit <= n
    <3>1. i \in 1 .. n - Limit /\ i \in 1 .. n /\ i + Limit \in 1 .. n
      BY <1>6, <2>1
    <3>. QED  BY <1>1, <1>6, <1>8, <2>1, <3>1 DEF SlidingWindow
  <2>2. CASE l = k /\ i + Limit = n + 1
    \* The deque holds fewer than Limit stamps, so the grant that lies Limit
    \* positions back is one that it has forgotten.
    <3>1. i \in 1 .. Forgotten(k) /\ i \in 1 .. n
      <4>1. i \in Int /\ i >= 1 /\ i = n + 1 - Limit
        BY <1>6, <2>2
      <4>2. m < Limit
        BY <1>2, <1>6
      <4>3. m \in Nat /\ n \in Nat /\ Limit \in Nat
        BY <1>a, <1>b
      <4>4. i <= n - m
        BY <4>1, <4>2, <4>3
      <4>5. i \in 1 .. n - m /\ i \in 1 .. n
        BY <4>1, <4>3, <4>4
      <4>. QED  BY <1>9, <4>5
    <3>2. grants[k][i] + Window <= stamp[t]
      BY <1>1, <1>2, <3>1 DEF ExpiredInv
    <3>3. grants'[k][i + Limit] = stamp[t] /\ grants'[k][i] = grants[k][i]
      BY <1>8, <2>2, <3>1
    <3>4. grants[k][i] \in Nat
      BY <1>10, <3>1
    <3>5. PICK a \in Nat : a = grants[k][i]
      BY <3>4
    <3>6. PICK b \in Nat : b = stamp[t]
      BY <1>4
    <3>7. PICK w \in Nat : w = Window
      BY WindowIsPositive
    <3>8. b - a >= w
      BY <3>2, <3>5, <3>6, <3>7
    <3>9. grants'[k][i + Limit] - grants'[k][i] >= Window
      BY <3>3, <3>5, <3>6, <3>7, <3>8
    <3>. QED  BY <2>2, <3>9
  <2>3. CASE l # k
    BY <1>1, <1>5, <2>3 DEF SlidingWindow
  <2>4. l = k => i + Limit <= n \/ i + Limit = n + 1
    BY <1>6
  <2>. QED  BY <2>1, <2>2, <2>3, <2>4
<1>18. PromiseInv'
  <2>1. promise'[k] = 0 /\ \A l \in Keys \ {k} : promise'[l] = promise[l]
    BY <1>1, <1>2 DEF TypeOK
  <2>. QED  BY <1>1, <1>5, <2>1 DEF PromiseInv
<1>19. RetryAfterInRange'
  BY <1>1, <1>2 DEF RetryAfterInRange, TypeOK
<1>. QED  BY <1>12, <1>13, <1>14, <1>15, <1>16, <1>17, <1>18, <1>19 DEF IInv

-----------------------------------------------------------------------------
(***************************************************************************)
(* Theorems.                                                               *)
(***************************************************************************)
LEMMA NextIInv == IInv /\ [Next]_vars => IInv'
<1> SUFFICES ASSUME IInv, [Next]_vars PROVE IInv'
  OBVIOUS
<1>1. \A t \in Threads : key[t] \in Keys
  BY DEF IInv, TypeOK
<1>2. CASE Tick
  BY <1>2, TickIInv
<1>3. ASSUME NEW t \in Threads, NEW k \in Keys, Enter(t, k) PROVE IInv'
  BY <1>3, EnterIInv
<1>4. ASSUME NEW t \in Threads, ReadClock(t) PROVE IInv'
  BY <1>4, ReadClockIInv
<1>5. ASSUME NEW t \in Threads, PopLeft(t) PROVE IInv'
  BY <1>1, <1>5, PopLeftIInv
<1>6. ASSUME NEW t \in Threads, Deny(t) PROVE IInv'
  BY <1>1, <1>6, DenyIInv
<1>7. ASSUME NEW t \in Threads, Grant(t) PROVE IInv'
  BY <1>1, <1>7, GrantIInv
<1>8. CASE UNCHANGED vars
  BY <1>8 DEF vars, IInv, TypeOK, LockInv, DequeInv, Forgotten, ClockInv,
     ExpiredInv, PromiseInv, SlidingWindow, RetryAfterInRange
<1>. QED  BY <1>2, <1>3, <1>4, <1>5, <1>6, <1>7, <1>8 DEF Next, Inside

LEMMA SpecIInv == Spec => []IInv
BY InitIInv, NextIInv, PTL DEF Spec

\* Every variable of the limiter keeps its type.
THEOREM LimiterTypeOK == Spec => []TypeOK
<1>1. IInv => TypeOK
  BY DEF IInv
<1>. QED  BY <1>1, SpecIInv, PTL

\* No window ever holds more than Limit grants of a key, however many threads
\* call acquire() and however the clock moves between their steps.
THEOREM LimiterSlidingWindow == Spec => []SlidingWindow
<1>1. IInv => SlidingWindow
  BY DEF IInv
<1>. QED  BY <1>1, SpecIInv, PTL

\* Retry-After is between one second and a whole window.
THEOREM LimiterRetryAfterInRange == Spec => []RetryAfterInRange
<1>1. IInv => RetryAfterInRange
  BY DEF IInv
<1>. QED  BY <1>1, SpecIInv, PTL

\* What a thread about to deny sees: the head of the deque is a grant inside
\* its window, with at least Limit - 1 younger ones after it.
LEMMA DenialSees ==
  ASSUME IInv, NEW t \in Threads, NEW k \in Keys, k = key[t], Deny(t)
  PROVE  /\ history[k][1] \in Nat
         /\ history[k][1] > stamp[t] - Window
         /\ Forgotten(k) + 1 \in 1 .. Len(grants[k])
         /\ Forgotten(k) + Limit <= Len(grants[k])
         /\ grants[k][Forgotten(k) + 1] = history[k][1]
<1>1. TypeOK /\ DequeInv
  BY DEF IInv
<1>2. ~HeadExpired(t) /\ Len(history[k]) >= Limit
  BY DEF Deny
<1>3. /\ history[k] \in Seq(Nat)
      /\ history[k] # << >>
      /\ Head(history[k]) = history[k][1]
      /\ history[k][1] \in Nat
      /\ 1 \in 1 .. Len(history[k])
  <2>1. PICK s \in Seq(Nat) : s = history[k]
    BY <1>1 DEF TypeOK
  <2>2. Len(s) \in Nat /\ Len(s) >= 1
    BY <1>2, <2>1
  <2>3. s # << >> /\ Head(s) = s[1] /\ s[1] \in Nat /\ 1 \in 1 .. Len(s)
    BY <2>2
  <2>. QED  BY <2>1, <2>3
<1>4. stamp[t] \in Nat
  BY <1>1 DEF TypeOK
<1>5. history[k][1] > stamp[t] - Window
  BY <1>2, <1>3, <1>4, WindowIsPositive DEF HeadExpired
<1>6. PICK m \in Nat : m = Len(history[k])
  BY <1>1, StampTypes
<1>7. PICK n \in Nat : n = Len(grants[k])
  BY <1>1, StampTypes
<1>8. Forgotten(k) = n - m /\ n - m >= 0
  BY <1>1, <1>6, <1>7 DEF Forgotten, DequeInv
<1>9. (n - m) + 1 \in 1 .. n /\ (n - m) + Limit <= n
  BY <1>2, <1>6, <1>8
<1>10. grants[k][Forgotten(k) + 1] = history[k][1]
  BY <1>1, <1>3 DEF DequeInv
<1>. QED  BY <1>3, <1>5, <1>7, <1>8, <1>9, <1>10

\* Nobody is denied while the window of the call still has room.
THEOREM LimiterNoSpuriousDenial == Spec => NoSpuriousDenial
<1>1. ASSUME IInv, NEW t \in Threads, Deny(t)
      PROVE  \E i \in 1 .. Len(grants[key[t]]) :
               /\ i + Limit - 1 <= Len(grants[key[t]])
               /\ grants[key[t]][i] > stamp[t] - Window
  <2>1. PICK k \in Keys : k = key[t]
    BY <1>1 DEF IInv, TypeOK
  <2>2. PICK n \in Nat : n = Len(grants[k])
    BY <1>1, StampTypes DEF IInv
  <2>3. PICK i \in 1 .. n : i = Forgotten(k) + 1
    BY <1>1, <2>1, <2>2, DenialSees
  <2>4. grants[k][i] > stamp[t] - Window
    BY <1>1, <2>1, <2>3, DenialSees
  <2>5. Forgotten(k) \in Int /\ Forgotten(k) + Limit <= n
    <3>1. Len(history[k]) \in Nat
      BY <1>1, StampTypes DEF IInv
    <3>2. Forgotten(k) \in Int
      BY <2>2, <3>1 DEF Forgotten
    <3>. QED  BY <1>1, <2>1, <2>2, <3>2, DenialSees
  <2>6. i + Limit - 1 <= n
    BY <2>3, <2>5
  <2>. QED  BY <2>1, <2>2, <2>4, <2>6
<1>2. IInv => [\A t \in Threads : Deny(t) =>
                 \E i \in 1 .. Len(grants[key[t]]) :
                   /\ i + Limit - 1 <= Len(grants[key[t]])
                   /\ grants[key[t]][i] > stamp[t] - Window]_vars
  BY <1>1
<1>. QED  BY <1>2, SpecIInv, PTL DEF NoSpuriousDenial

\* A caller that waits the seconds it was told to is granted, unless another
\* grant of its key came in between.
THEOREM LimiterRetryAfterHonoured == Spec => RetryAfterHonoured
<1>1. ASSUME IInv, NEW t \in Threads, Deny(t), promise[key[t]] # 0
      PROVE  stamp[t] < promise[key[t]]
  <2>1. PICK k \in Keys : k = key[t]
    BY <1>1 DEF IInv, TypeOK
  <2>2. Len(history[k]) >= Limit /\ Len(history[k]) \in Nat
    BY <1>1, <2>1, StampTypes DEF Deny, IInv
  <2>3. history[k][1] + Window <= promise[k]
    BY <1>1, <2>1, <2>2 DEF IInv, PromiseInv
  <2>4. /\ history[k][1] \in Nat
        /\ history[k][1] > stamp[t] - Window
    BY <1>1, <2>1, DenialSees
  <2>5. stamp[t] \in Nat /\ promise[k] \in Nat
    BY <1>1, <2>1 DEF IInv, TypeOK
  <2>. QED  BY <2>1, <2>3, <2>4, <2>5, WindowIsPositive
<1>2. IInv => [\A t \in Threads : Deny(t) /\ promise[key[t]] # 0 =>
                 stamp[t] < promise[key[t]]]_vars
  BY <1>1
<1>. QED  BY <1>2, SpecIInv, PTL DEF RetryAfterHonoured

-----------------------------------------------------------------------------
(***************************************************************************)
(* The limiter implements AtomicLimiter: reading the clock and pruning are *)
(* stutters, and the step that leaves the lock is the answer, as of the    *)
(* stamp read before.                                                      *)
(***************************************************************************)
\* The mapping of AtomicLimiter's call.
Calls == [t \in Threads |-> IF pc[t] = "idle" THEN NoKey ELSE key[t]]

absVars == <<now, Calls, grants, reply>>

LEMMA WindowCoversSeconds == WindowSeconds <= Window
<1>1. \A m, n \in Nat \ {0} : m <= m * n
  BY SMTT(30)
<1>. QED  BY <1>1 DEF Window

LEMMA SmallerProduct ==
  ASSUME NEW n \in Nat \ {0}, NEW m \in 0 .. n - 1
  PROVE  /\ m * Second \in Nat
         /\ n * Second \in Nat
         /\ m * Second + Second <= n * Second
<1>1. \A a, b, c \in Nat : a < b => a * c + c <= b * c
  BY SMTT(30)
<1>2. m \in Nat /\ m < n
  OBVIOUS
<1>3. \A a, b \in Nat : a * b \in Nat
  BY SMTT(30)
<1>. QED  BY <1>1, <1>2, <1>3

\* With room in the deque, the grants that could fill the window are among
\* those the deque has forgotten, and these have expired.
LEMMA RoomMeansNotFull ==
  ASSUME IInv, NEW t \in Threads, pc[t] = "pruning",
         Len(history[key[t]]) < Limit
  PROVE  ~Atomic!Full(key[t], stamp[t])
<1>1. PICK k \in Keys : k = key[t]
  BY DEF IInv, TypeOK
<1>2. PICK n \in Nat : n = Len(grants[k])
  BY StampTypes DEF IInv
<1>3. PICK m \in Nat : m = Len(history[k])
  BY StampTypes DEF IInv
<1>4. Forgotten(k) = n - m
  BY <1>2, <1>3 DEF Forgotten
<1>5. SUFFICES ASSUME NEW i \in 1 .. n - Limit + 1
               PROVE  ~(grants[k][i] > stamp[t] - Window)
  BY <1>1, <1>2 DEF Atomic!Full
<1>6. i \in 1 .. n - m /\ i \in 1 .. n
  BY <1>1, <1>3
<1>7. grants[k][i] + Window <= stamp[t]
  BY <1>4, <1>6 DEF IInv, ExpiredInv
<1>8. grants[k][i] \in Nat /\ stamp[t] \in Nat
  BY <1>2, <1>6, StampTypes DEF IInv, TypeOK
<1>. QED  BY <1>7, <1>8, WindowIsPositive

\* A denial sees the Limit-th youngest grant at the head of its deque: the
\* window is full until that one expires, and the answer says when.
LEMMA DenialIsOfAFullWindow ==
  ASSUME IInv, NEW t \in Threads, Deny(t)
  PROVE  /\ Atomic!Full(key[t], stamp[t])
         /\ Atomic!Wait(key[t], stamp[t], RetryAfter(t))
         /\ RetryAfter(t) \in 1 .. Window
<1>1. PICK k \in Keys : k = key[t]
  BY DEF IInv, TypeOK
<1>2. PICK n \in Nat : n = Len(grants[k])
  BY StampTypes DEF IInv
<1>3. PICK f \in Nat : f = Forgotten(k)
  <2>1. Forgotten(k) \in Int
    BY <1>2, StampTypes DEF IInv, Forgotten
  <2>. QED  BY <2>1 DEF IInv, DequeInv
<1>4. PICK a \in Nat : a = history[k][1]
  BY <1>1, DenialSees
<1>5. PICK s \in Nat : s = stamp[t]
  BY DEF IInv, TypeOK
<1>6. PICK w \in Nat \ {0} : w = Window
  BY WindowIsPositive
<1>7. f = n - Limit /\ grants[k][f + 1] = a /\ a > s - w
  <2>1. Len(history[k]) = Limit
    BY <1>1, StampTypes DEF Deny, IInv, DequeInv
  <2>2. f = n - Limit
    BY <1>2, <1>3, <2>1 DEF Forgotten
  <2>. QED  BY <1>1, <1>3, <1>4, <1>5, <1>6, <2>2, DenialSees
<1>8. f + 1 \in 1 .. n - Limit + 1
  BY <1>7
<1>9. PICK r \in 1 .. WindowSeconds : r = RetryAfter(t)
  BY RetryAfterBounds DEF IInv, Deny
<1>10. /\ r * Second \in Nat
       /\ a + w <= s + r * Second
       /\ s + r * Second < a + w + Second
  <2>1. r * Second \in Nat
    <3>1. r \in Nat \ {0} /\ 0 \in 0 .. r - 1
      BY SecondAssumption
    <3>. QED  BY <3>1, SmallerProduct
  <2>2. /\ history[key[t]][1] + Window <= stamp[t] + RetryAfter(t) * Second
        /\ stamp[t] + RetryAfter(t) * Second
             < history[key[t]][1] + Window + Second
    BY RetryAfterBounds DEF IInv, Deny
  <2>. QED  BY <1>1, <1>4, <1>5, <1>6, <1>9, <2>1, <2>2
<1>11. Atomic!Full(k, s)
  BY <1>2, <1>6, <1>7, <1>8 DEF Atomic!Full
<1>12. ~Atomic!Full(k, s + r * Second)
  <2>1. SUFFICES ASSUME NEW i \in 1 .. n - Limit + 1
                 PROVE  ~(grants[k][i] > s + r * Second - w)
    BY <1>2, <1>6 DEF Atomic!Full
  <2>2. i \in 1 .. n /\ f + 1 \in 1 .. n /\ i <= f + 1
    BY <1>7
  <2>3. grants[k][i] <= a
    BY <1>2, <1>7, <2>2 DEF IInv, ClockInv
  <2>4. grants[k][i] \in Nat
    BY <1>2, <2>2, StampTypes DEF IInv
  <2>. QED  BY <1>10, <2>3, <2>4
<1>13. ASSUME NEW m \in 0 .. r - 1 PROVE Atomic!Full(k, s + m * Second)
  <2>1. m * Second \in Nat /\ m * Second + Second <= r * Second
    BY SmallerProduct
  <2>2. a > s + m * Second - w
    BY <1>10, <2>1
  <2>. QED  BY <1>2, <1>6, <1>7, <1>8, <2>2 DEF Atomic!Full
<1>14. Atomic!Wait(k, s, r)
  BY <1>12, <1>13 DEF Atomic!Wait
<1>15. r \in 1 .. w
  BY <1>6, <1>9, WindowCoversSeconds
<1>. QED  BY <1>1, <1>5, <1>6, <1>9, <1>11, <1>14, <1>15

\* What leaving the lock with an answer means to the caller.
LEMMA AnswerRefines ==
  ASSUME IInv, NEW t \in Threads, Deny(t) \/ Grant(t)
  PROVE  Atomic!Answer(t)
<1>1. PICK k \in Keys : k = key[t]
  BY DEF IInv, TypeOK
<1>2. pc[t] = "pruning" /\ pc' = [pc EXCEPT ![t] = "idle"]
      /\ UNCHANGED <<now, key>>
  BY DEF Deny, Grant, Release
<1>3. /\ Calls[t] = k
      /\ Calls[t] # NoKey
      /\ Calls' = [Calls EXCEPT ![t] = NoKey]
  BY <1>1, <1>2 DEF Calls, IInv, TypeOK
<1>4. stamp[t] \in 0 .. now
  BY <1>2 DEF IInv, TypeOK, ClockInv
<1>5. \A i \in 1 .. Len(grants[k]) : grants[k][i] <= stamp[t]
  BY <1>2 DEF IInv, ClockInv
<1>6. Atomic!Grant(t, stamp[t]) \/ Atomic!Deny(t, stamp[t])
  <2>1. CASE Deny(t)
    BY <1>1, <1>3, <2>1, DenialIsOfAFullWindow DEF Deny, Atomic!Deny, Calls
  <2>2. CASE Grant(t)
    BY <1>1, <1>3, <2>2, RoomMeansNotFull DEF Grant, Atomic!Grant, Calls
  <2>. QED  BY <2>1, <2>2
<1>. QED  BY <1>2, <1>3, <1>4, <1>5, <1>6 DEF Atomic!Answer, Calls

LEMMA StepRefinesAtomic == IInv /\ [Next]_vars => [Atomic!Next]_absVars
<1> SUFFICES ASSUME IInv, [Next]_vars PROVE [Atomic!Next]_absVars
  OBVIOUS
<1>1. CASE Tick
  BY <1>1 DEF Tick, Atomic!Next, Atomic!Tick, Calls
<1>2. ASSUME NEW t \in Threads, NEW k \in Keys, Enter(t, k)
      PROVE  Atomic!Next
  <2>1. Calls[t] = NoKey /\ Calls' = [Calls EXCEPT ![t] = k]
    BY <1>2 DEF Enter, Calls, IInv, TypeOK
  <2>. QED  BY <1>2, <2>1 DEF Enter, Atomic!Next, Atomic!Begin, Calls
<1>3. ASSUME NEW t \in Threads, ReadClock(t) \/ PopLeft(t)
      PROVE  UNCHANGED absVars
  BY <1>3 DEF ReadClock, PopLeft, absVars, Calls, IInv, TypeOK
<1>4. ASSUME NEW t \in Threads, Deny(t) \/ Grant(t) PROVE Atomic!Next
  BY <1>4, AnswerRefines DEF Atomic!Next
<1>5. CASE UNCHANGED vars
  BY <1>5 DEF vars, absVars, Calls
<1>. QED  BY <1>1, <1>2, <1>3, <1>4, <1>5 DEF Next, Inside

LEMMA InitRefinesAtomic == Init => Atomic!Init
  BY DEF Init, Atomic!Init

\* Behind the lock, the pruning and the deque, callers see a limiter that
\* answers each call at one instant, denies exactly when the window is full,
\* and announces the shortest wait in whole seconds.
THEOREM LimiterImplementsAtomicLimiter == Spec => ImplementsAtomicLimiter
<1>1. IInv /\ [Next]_vars => [Atomic!Next]_Atomic!vars
  BY StepRefinesAtomic DEF absVars, Calls, Atomic!vars
<1>. QED
  BY <1>1, InitRefinesAtomic, SpecIInv, PTL
     DEF Spec, ImplementsAtomicLimiter, Atomic!Spec

=============================================================================
