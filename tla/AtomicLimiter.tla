--------------------------- MODULE AtomicLimiter ---------------------------
(***************************************************************************)
(* What a caller of api/rate_limit.py may rely on: a limiter that answers  *)
(* each call at one instant, from a complete log of what it granted.  The  *)
(* log of a key is in the order of time, so a window holds Limit grants    *)
(* when it holds the Limit-th youngest.  There is no deque to prune, no    *)
(* lock, and the answer to a denied call is not computed but described.    *)
(***************************************************************************)
EXTENDS Integers, Sequences

CONSTANTS Threads, Keys, NoKey, Limit, Window, Second

VARIABLES
  now,      \* the monotonic clock
  call,     \* the key a thread is waiting for an answer to, or NoKey
  granted,  \* per key, when each of its grants was made
  reply     \* the last answer to each thread: 0, or seconds to wait

vars == <<now, call, granted, reply>>

Init ==
  /\ now = 0
  /\ call = [t \in Threads |-> NoKey]
  /\ granted = [k \in Keys |-> << >>]
  /\ reply = [t \in Threads |-> 0]

\* The window that ends at s holds Limit grants of k.
Full(k, s) ==
  \E i \in 1 .. Len(granted[k]) - Limit + 1 : granted[k][i] > s - Window

\* The fewest whole seconds after which k has room again.
Wait(k, s, n) ==
  /\ ~Full(k, s + n * Second)
  /\ \A m \in 0 .. n - 1 : Full(k, s + m * Second)

Tick == now' = now + 1 /\ UNCHANGED <<call, granted, reply>>

Begin(t, k) ==
  /\ call[t] = NoKey
  /\ call' = [call EXCEPT ![t] = k]
  /\ UNCHANGED <<now, granted, reply>>

Grant(t, s) ==
  /\ ~Full(call[t], s)
  /\ granted' = [granted EXCEPT ![call[t]] = Append(@, s)]
  /\ reply' = [reply EXCEPT ![t] = 0]

Deny(t, s) ==
  /\ Full(call[t], s)
  /\ \E n \in 1 .. Window : Wait(call[t], s, n) /\ reply' = [reply EXCEPT ![t] = n]
  /\ UNCHANGED granted

\* A call is answered as of an instant that has come, and that does not lie
\* before a grant made already.
Answer(t) ==
  /\ call[t] # NoKey
  /\ \E s \in 0 .. now :
       /\ \A i \in 1 .. Len(granted[call[t]]) : granted[call[t]][i] <= s
       /\ Grant(t, s) \/ Deny(t, s)
  /\ call' = [call EXCEPT ![t] = NoKey]
  /\ UNCHANGED now

Next == Tick \/ \E t \in Threads : Answer(t) \/ \E k \in Keys : Begin(t, k)

Spec == Init /\ [][Next]_vars

=============================================================================
