---------------------------- MODULE RateLimiter ----------------------------
(***************************************************************************)
(* security.rate_limit: one deque of times per client and bucket, shared   *)
(* without a lock.  The handlers are plain functions, run by a pool of     *)
(* threads; a statement on the deque is atomic under the interpreter lock, *)
(* and another thread may run between any two.  The module follows the     *)
(* deque of one key.  Its Init, Next and Spec are named for the limiter, so *)
(* that a module can extend the API and it.                                *)
(***************************************************************************)
EXTENDS Integers, Sequences, FiniteSets

CONSTANTS
  Threads,
  limit, window_s,
  LastTick          \* bound: the last tick of time.monotonic()

ASSUME RateLimiterAssumptions ==
  /\ IsFiniteSet(Threads) /\ Threads # {}
  /\ limit \in Nat \ {0} /\ window_s \in Nat /\ LastTick \in Nat

VARIABLES
  clock,        \* time.monotonic()
  q,            \* the deque: when the requests it holds were made
  pc,           \* per thread, the statement it is at
  thread_now    \* per thread, its local now

limiterVars == <<clock, q, pc, thread_now>>

Statements == {"idle", "test", "peek", "pop", "count", "append"}

InitLimiter ==
  /\ clock = 0
  /\ q = << >>
  /\ pc = [t \in Threads |-> "idle"]
  /\ thread_now = [t \in Threads |-> 0]

GoTo(t, from, to) ==
  /\ pc[t] = from
  /\ pc' = [pc EXCEPT ![t] = to]

Tick ==
  /\ clock < LastTick
  /\ clock' = clock + 1
  /\ UNCHANGED <<q, pc, thread_now>>

(* now, q = time.monotonic(), _hits[key] *)
Start(t) ==
  /\ GoTo(t, "idle", "test")
  /\ thread_now' = [thread_now EXCEPT ![t] = clock]
  /\ UNCHANGED <<clock, q>>

(* while q and ... *)
Test(t) ==
  /\ GoTo(t, "test", IF q = << >> THEN "count" ELSE "peek")
  /\ UNCHANGED <<clock, q, thread_now>>

Expired(t) == thread_now[t] - Head(q) > window_s

(* ... now - q[0] > window_s *)
Peek(t) ==
  /\ q # << >>
  /\ GoTo(t, "peek", IF Expired(t) THEN "pop" ELSE "count")
  /\ UNCHANGED <<clock, q, thread_now>>

(* Mutant: the head is read and left in its place. *)
Peeked == q

Popped == Tail(q)

(* q.popleft(): not the head that was peeked, if another thread popped it. *)
Pop(t) ==
  /\ q # << >>
  /\ GoTo(t, "pop", "test")
  /\ q' = Popped
  /\ UNCHANGED <<clock, thread_now>>

(* q[0] or q.popleft() when another thread has emptied q: an IndexError,   *)
(* and the request ends in a 500.                                          *)
EmptiedMeanwhile(t) ==
  /\ q = << >>
  /\ GoTo(t, "peek", "idle") \/ GoTo(t, "pop", "idle")
  /\ UNCHANGED <<clock, q, thread_now>>

(* Mutant: refused only when the deque holds more than the limit. *)
OverFull == Len(q) > limit

Full == Len(q) >= limit

(* if len(q) >= limit: 429 *)
Count(t) ==
  /\ GoTo(t, "count", IF Full THEN "idle" ELSE "append")
  /\ UNCHANGED <<clock, q, thread_now>>

(* q.append(now), and the request is admitted. *)
Admit(t) ==
  /\ GoTo(t, "append", "idle")
  /\ q' = Append(q, thread_now[t])
  /\ UNCHANGED <<clock, thread_now>>

Continue(t) ==
  Test(t) \/ Peek(t) \/ Pop(t) \/ EmptiedMeanwhile(t) \/ Count(t) \/ Admit(t)

NextLimiter == Tick \/ \E t \in Threads : Start(t) \/ Continue(t)

SpecLimiter == InitLimiter /\ [][NextLimiter]_limiterVars

(* A thread of the pool that is inside rate_limit is given its turns. *)
FairSpecLimiter == SpecLimiter /\ \A t \in Threads : WF_limiterVars(Continue(t))

-----------------------------------------------------------------------------
(* Properties. *)

(* The test of the length and the append are two statements, and a stale   *)
(* popleft may remove a hit that still counts; yet a deque never grows by  *)
(* more than one hit for every other thread over the limit.                *)
BurstBounded == Len(q) <= limit + Cardinality(Threads) - 1

(* The while loop ends for every request, although other threads append to *)
(* the deque it empties: what they append is as young as they are.         *)
EveryRequestDecided == \A t \in Threads : pc[t] # "idle" ~> pc[t] = "idle"
=============================================================================
