---------------------------- MODULE RateLimiter ----------------------------
(***************************************************************************)
(* The process-local sliding-window limiter, api/rate_limit.py.            *)
(*                                                                         *)
(* acquire() runs under one lock: it reads the clock, pops the expired     *)
(* head of the caller's deque as often as it can, and then either denies   *)
(* (returning the seconds to wait) or appends the stamp and grants.  The   *)
(* steps of one call are separate actions here, so that the clock, and the *)
(* calls of other threads waiting for the lock, may move between them.     *)
(*                                                                         *)
(* Time is counted in ticks, Second of them in a second, so that a stamp   *)
(* may fall between two whole seconds and the ceiling in the answer does   *)
(* something.                                                              *)
(***************************************************************************)
EXTENDS Integers, Sequences

CONSTANTS
  Threads,        \* threads that call acquire()
  NoThread,       \* nobody holds the lock
  Keys,           \* values of api_key_id
  NoKey,          \* no call is under way (only for the mapping below)
  Limit,          \* requests_per_minute
  WindowSeconds,  \* 60 in the code
  Second,         \* ticks of the clock in a second
  MaxTime         \* bound on the clock, in ticks

ASSUME ThreadsAssumption == NoThread \notin Threads
ASSUME KeysAssumption == NoKey \notin Keys
ASSUME LimitAssumption == Limit \in Nat \ {0}
ASSUME WindowAssumption == WindowSeconds \in Nat \ {0}
ASSUME SecondAssumption == Second \in Nat \ {0}
ASSUME MaxTimeAssumption == MaxTime \in Nat

VARIABLES
  now,      \* the monotonic clock
  history,  \* _requests: per key, the stamps still in the deque
  owner,    \* the thread inside "with self._lock"
  pc,       \* where each thread is in acquire()
  key,      \* api_key_id of the thread's call
  stamp,    \* the local variable "now" of the thread's call
  reply,    \* what the thread's last call returned: 0 stands for None
  \* History variables, for the properties only.
  grants,   \* per key, the stamp of every call ever granted
  promise   \* per key, when the last denial said to come back; 0 when a
            \* grant came after it or nobody was ever denied

vars == <<now, history, owner, pc, key, stamp, reply, grants, promise>>

Window == WindowSeconds * Second

\* Faulty: rounding that a test with whole seconds, or with a full window
\* left, does not tell from the right one.
CeilSecondsDown(ticks) == ticks \div Second

\* Whole seconds, rounded up.
CeilSeconds(ticks) == (ticks + Second - 1) \div Second

AtLeastOne(n) == IF n < 1 THEN 1 ELSE n

Init ==
  /\ now = 0
  /\ history = [k \in Keys |-> << >>]
  /\ owner = NoThread
  /\ pc = [t \in Threads |-> "idle"]
  /\ key \in [Threads -> Keys]
  /\ stamp = [t \in Threads |-> 0]
  /\ reply = [t \in Threads |-> 0]
  /\ grants = [k \in Keys |-> << >>]
  /\ promise = [k \in Keys |-> 0]

Tick ==
  /\ now < MaxTime
  /\ now' = now + 1
  /\ UNCHANGED <<history, owner, pc, key, stamp, reply, grants, promise>>

(***************************************************************************)
(* One call of acquire(k) by thread t.                                     *)
(***************************************************************************)

Enter(t, k) ==
  /\ pc[t] = "idle"
  /\ owner = NoThread
  /\ owner' = t
  /\ pc' = [pc EXCEPT ![t] = "locked"]
  /\ key' = [key EXCEPT ![t] = k]
  /\ UNCHANGED <<now, history, stamp, reply, grants, promise>>

ReadClock(t) ==
  /\ pc[t] = "locked"
  /\ stamp' = [stamp EXCEPT ![t] = now]
  /\ pc' = [pc EXCEPT ![t] = "pruning"]
  /\ UNCHANGED <<now, history, owner, key, reply, grants, promise>>

\* Faulty: a stamp expires one tick early.
HeadExpiredEarly(t) ==
  /\ history[key[t]] # << >>
  /\ Head(history[key[t]]) <= stamp[t] - Window + 1

\* The condition of the while loop.
HeadExpired(t) ==
  /\ history[key[t]] # << >>
  /\ Head(history[key[t]]) <= stamp[t] - Window

PopLeft(t) ==
  /\ pc[t] = "pruning"
  /\ HeadExpired(t)
  /\ history' = [history EXCEPT ![key[t]] = Tail(@)]
  /\ UNCHANGED <<now, owner, pc, key, stamp, reply, grants, promise>>

RetryAfter(t) ==
  AtLeastOne(CeilSeconds(Window - (stamp[t] - Head(history[key[t]]))))

\* Leaving the with block; the locals of the call are gone with it.
Release(t) ==
  /\ owner' = NoThread
  /\ pc' = [pc EXCEPT ![t] = "idle"]
  /\ stamp' = [stamp EXCEPT ![t] = 0]

Deny(t) ==
  /\ pc[t] = "pruning"
  /\ ~HeadExpired(t)
  /\ Len(history[key[t]]) >= Limit
  /\ reply' = [reply EXCEPT ![t] = RetryAfter(t)]
  /\ promise' = [promise EXCEPT ![key[t]] = stamp[t] + RetryAfter(t) * Second]
  /\ Release(t)
  /\ UNCHANGED <<now, history, key, grants>>

Grant(t) ==
  /\ pc[t] = "pruning"
  /\ ~HeadExpired(t)
  /\ Len(history[key[t]]) < Limit
  /\ history' = [history EXCEPT ![key[t]] = Append(@, stamp[t])]
  /\ reply' = [reply EXCEPT ![t] = 0]
  /\ grants' = [grants EXCEPT ![key[t]] = Append(@, stamp[t])]
  /\ promise' = [promise EXCEPT ![key[t]] = 0]
  /\ Release(t)
  /\ UNCHANGED <<now, key>>

Inside(t) == ReadClock(t) \/ PopLeft(t) \/ Deny(t) \/ Grant(t)

Next ==
  \/ Tick
  \/ \E t \in Threads : Inside(t) \/ \E k \in Keys : Enter(t, k)

Spec == Init /\ [][Next]_vars

-----------------------------------------------------------------------------
(***************************************************************************)
(* Properties.                                                             *)
(***************************************************************************)

TypeOK ==
  /\ now \in Nat
  /\ history \in [Keys -> Seq(Nat)]
  /\ owner \in Threads \cup {NoThread}
  /\ pc \in [Threads -> {"idle", "locked", "pruning"}]
  /\ key \in [Threads -> Keys]
  /\ stamp \in [Threads -> Nat]
  /\ reply \in [Threads -> Nat]
  /\ grants \in [Keys -> Seq(Nat)]
  /\ promise \in [Keys -> Nat]

\* The promise of the limiter: a grant and the Limit-th one after it for the
\* same key lie at least a window apart, whichever threads made the calls and
\* however the clock moved between their steps, so no window ever holds more
\* than Limit grants of a key.
SlidingWindow ==
  \A k \in Keys : \A i \in 1 .. Len(grants[k]) - Limit :
    grants[k][i + Limit] - grants[k][i] >= Window

\* A call is denied only when the window that ends at its stamp really holds
\* Limit grants of its key: quota is not lost to earlier denials, to calls of
\* other keys, or to grants that have expired.
NoSpuriousDenial ==
  [][\A t \in Threads : Deny(t) =>
       \E i \in 1 .. Len(grants[key[t]]) :
         /\ i + Limit - 1 <= Len(grants[key[t]])
         /\ grants[key[t]][i] > stamp[t] - Window]_vars

\* The limiter is one that answers each call at an instant: behind the lock,
\* the pruning and the deque, a call of another thread or a moving clock never
\* shows.  A call is denied exactly when its window is full, whatever happened
\* to earlier denials and to other keys, and told the fewest seconds to wait.
Atomic ==
  INSTANCE AtomicLimiter WITH
    call <- [t \in Threads |-> IF pc[t] = "idle" THEN NoKey ELSE key[t]],
    granted <- grants

ImplementsAtomicLimiter == Atomic!Spec

\* The Retry-After header is honest: after a denial that said to wait s
\* seconds, a call with the same key that reads the clock at least s seconds
\* later is granted, unless another call was granted in the meantime.
RetryAfterHonoured ==
  [][\A t \in Threads : Deny(t) /\ promise[key[t]] # 0 =>
       stamp[t] < promise[key[t]]]_vars

\* A denied caller is told to wait between one second and a whole window.
RetryAfterInRange ==
  \A t \in Threads : reply[t] \in 0 .. WindowSeconds

=============================================================================
