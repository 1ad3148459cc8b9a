------------------------------- MODULE TSQueue -------------------------------
(***************************************************************************)
(* tsqueue<T> of common/tsqueue.hpp: a std::deque behind the mutex         *)
(* muxQueue, and a condition variable with a mutex of its own, muxBlocking,*)
(* for wait().  push_back and push_front take muxBlocking while they hold  *)
(* muxQueue; wait() never holds the two together.                          *)
(*                                                                         *)
(* A step runs an operation from one lock, unlock or wait to the next.     *)
(* The std::deque is not atomic: a thread reads it when it enters its      *)
(* critical section and writes it back, changed, in a later step, so that  *)
(* two threads inside at once would lose an element.                       *)
(***************************************************************************)
EXTENDS Naturals, SequencesExt

CONSTANTS
  Producers,  \* threads that push
  Consumer,   \* the one thread that tests, waits, pops and clears
  Nobody,     \* the owner of an unlocked mutex
  Values,     \* the elements
  NoValue,    \* "no element"
  MaxLen      \* bound: no push is called while the queue is this long

Threads == Producers \cup {Consumer}

ASSUME QueueAssumption ==
  /\ Consumer \notin Producers
  /\ Nobody \notin Threads
  /\ NoValue \notin Values
  /\ MaxLen \in Nat

VARIABLES
  deqQueue,     \* the std::deque
  muxQueue,     \* the owner of that mutex, or Nobody
  muxBlocking,  \* likewise
  cvBlocking,   \* the threads blocked in cvBlocking.wait() and not notified
  at,           \* where each thread continues
  op,           \* the operation it has called and that has no effect yet
  item,         \* its argument, or the result of the last pop
  view,         \* the deque as the thread found it, while it is changing it
  ready         \* the consumer has seen an element and has not popped since

queueVars == <<deqQueue, muxQueue, muxBlocking, cvBlocking, at, op, item, view, ready>>
locks     == <<muxQueue, muxBlocking, cvBlocking>>
call      == <<op, item, view>>

Pushes     == {"push_back", "push_front"}
Pops       == {"pop_front", "pop_back"}
Operations == Pushes \cup Pops \cup {"clear", "wait"}
Places     == {"idle", "lock", "modify", "notify",
               "test", "block", "sleep", "asleep", "unblock"}

Init ==
  /\ deqQueue = <<>>
  /\ muxQueue = Nobody /\ muxBlocking = Nobody /\ cvBlocking = {}
  /\ at = [t \in Threads |-> "idle"]
  /\ op = [t \in Threads |-> "none"]
  /\ item = [t \in Threads |-> NoValue]
  /\ view = [t \in Threads |-> <<>>]
  /\ ready = FALSE

From(t, here, there) == at[t] = here /\ at' = [at EXCEPT ![t] = there]

-----------------------------------------------------------------------------
(* Calls, as the users of the class make them.                              *)

Calls(t, operation, x, place) ==
  /\ From(t, "idle", place)
  /\ op' = [op EXCEPT ![t] = operation]
  /\ item' = [item EXCEPT ![t] = x]
  /\ UNCHANGED <<deqQueue, locks, view>>

CallPush(t, operation, x) ==
  /\ Len(deqQueue) < MaxLen
  /\ Calls(t, operation, x, "lock") /\ UNCHANGED ready

\* The caller makes sure that there is an element: pop_front() on an empty
\* std::deque is undefined.
CallPop(t, operation) == ready /\ Calls(t, operation, NoValue, "lock") /\ ready' = FALSE
CallClear(t) == Calls(t, "clear", NoValue, "lock") /\ ready' = FALSE
CallWait(t)  == Calls(t, "wait", NoValue, "test") /\ UNCHANGED ready

\* empty(), the answer kept by the caller.
Empty(t) ==
  /\ at[t] = "idle" /\ muxQueue = Nobody
  /\ ready' = (deqQueue # <<>>)
  /\ UNCHANGED <<deqQueue, locks, at, call>>

\* size() takes no lock.  While another thread is changing the deque, the read
\* is a data race and may return anything (the pointers that size() subtracts
\* are not written together).
Racing(t) == \E u \in Threads \ {t} : at[u] = "modify"

SizeAbove(t, n)  == Racing(t) \/ Len(deqQueue) > n
SizeAtMost(t, n) == Racing(t) \/ Len(deqQueue) <= n

-----------------------------------------------------------------------------
(* push_back, push_front, pop_front, pop_back, clear.                       *)

\* Faulty variant: the lock is missing.
AcquireAnyway(t) ==
  /\ From(t, "lock", "modify")
  /\ muxQueue' = t
  /\ view' = [view EXCEPT ![t] = deqQueue]
  /\ UNCHANGED <<deqQueue, muxBlocking, cvBlocking, op, item, ready>>

Acquire(t) ==
  /\ From(t, "lock", "modify")
  /\ muxQueue = Nobody /\ muxQueue' = t
  /\ view' = [view EXCEPT ![t] = deqQueue]
  /\ UNCHANGED <<deqQueue, muxBlocking, cvBlocking, op, item, ready>>

\* The operation of t takes effect on the deque it found.
Modify(t, operation, q, x) ==
  /\ op[t] = operation
  /\ op' = [op EXCEPT ![t] = "none"]
  /\ deqQueue' = q
  /\ item' = [item EXCEPT ![t] = x]
  /\ view' = [view EXCEPT ![t] = <<>>]
  /\ UNCHANGED <<muxBlocking, cvBlocking, ready>>

Emplace(t) ==
  /\ From(t, "modify", "notify")
  /\ \/ Modify(t, "push_back", Append(view[t], item[t]), NoValue)
     \/ Modify(t, "push_front", <<item[t]>> \o view[t], NoValue)
  /\ UNCHANGED muxQueue

Take(t) ==
  /\ From(t, "modify", "idle")
  /\ view[t] # <<>>
  /\ \/ Modify(t, "pop_front", Tail(view[t]), Head(view[t]))
     \/ Modify(t, "pop_back", Front(view[t]), Last(view[t]))
  /\ muxQueue' = Nobody

Clear(t) ==
  /\ From(t, "modify", "idle")
  /\ Modify(t, "clear", <<>>, NoValue)
  /\ muxQueue' = Nobody

\* Faulty variant: the notification is forgotten.
NotifyNobody(t) ==
  /\ From(t, "notify", "idle")
  /\ muxBlocking = Nobody
  /\ muxQueue' = Nobody
  /\ UNCHANGED <<deqQueue, muxBlocking, cvBlocking, call, ready>>

\* notify_one under both mutexes; the scopes then end in reverse order.
Notify(t) ==
  /\ From(t, "notify", "idle")
  /\ muxBlocking = Nobody
  /\ IF cvBlocking = {} THEN UNCHANGED cvBlocking
     ELSE \E u \in cvBlocking : cvBlocking' = cvBlocking \ {u}
  /\ muxQueue' = Nobody
  /\ UNCHANGED <<deqQueue, muxBlocking, call, ready>>

-----------------------------------------------------------------------------
(* wait().                                                                  *)

\* while (empty()): the test is made before muxBlocking is taken.
TestFull(t) ==
  /\ From(t, "test", "idle")
  /\ muxQueue = Nobody /\ deqQueue # <<>>
  /\ op' = [op EXCEPT ![t] = "none"]
  /\ ready' = TRUE
  /\ UNCHANGED <<deqQueue, locks, item, view>>

TestEmpty(t) ==
  /\ From(t, "test", "block")
  /\ muxQueue = Nobody /\ deqQueue = <<>>
  /\ UNCHANGED <<deqQueue, locks, call, ready>>

Block(t) ==
  /\ From(t, "block", "sleep")
  /\ muxBlocking = Nobody /\ muxBlocking' = t
  /\ UNCHANGED <<deqQueue, muxQueue, cvBlocking, call, ready>>

Sleep(t) ==
  /\ From(t, "sleep", "asleep")
  /\ muxBlocking' = Nobody
  /\ cvBlocking' = cvBlocking \cup {t}
  /\ UNCHANGED <<deqQueue, muxQueue, call, ready>>

Awake(t) ==
  /\ From(t, "asleep", "unblock")
  /\ t \notin cvBlocking
  /\ muxBlocking = Nobody /\ muxBlocking' = t
  /\ UNCHANGED <<deqQueue, muxQueue, cvBlocking, call, ready>>

\* A condition variable may wake a thread that nobody has notified.
SpuriousWake(t) ==
  /\ at[t] = "asleep" /\ t \in cvBlocking
  /\ cvBlocking' = cvBlocking \ {t}
  /\ UNCHANGED <<deqQueue, muxQueue, muxBlocking, at, call, ready>>

\* Faulty variant: "if" instead of "while".
UnblockReturns(t) ==
  /\ From(t, "unblock", "idle")
  /\ muxBlocking' = Nobody /\ ready' = TRUE
  /\ UNCHANGED <<deqQueue, muxQueue, cvBlocking, call>>

\* Faulty variant: the unique_lock is declared before the loop.
UnblockLater(t) ==
  /\ From(t, "unblock", "test")
  /\ UNCHANGED <<deqQueue, locks, call, ready>>

\* The unique_lock belongs to the loop's body: it ends before the next test.
Unblock(t) ==
  /\ From(t, "unblock", "test")
  /\ muxBlocking' = Nobody
  /\ UNCHANGED <<deqQueue, muxQueue, cvBlocking, call, ready>>

-----------------------------------------------------------------------------
Caller(t) ==
  \/ \E operation \in Pushes, x \in Values : CallPush(t, operation, x)
  \/ /\ t = Consumer
     /\ \/ \E operation \in Pops : CallPop(t, operation)
        \/ CallClear(t) \/ CallWait(t) \/ Empty(t)

Step(t) ==
  \/ Acquire(t) \/ Emplace(t) \/ Take(t) \/ Clear(t) \/ Notify(t)
  \/ TestFull(t) \/ TestEmpty(t) \/ Block(t) \/ Sleep(t) \/ Awake(t) \/ Unblock(t)

Next == \E t \in Threads : Caller(t) \/ Step(t) \/ SpuriousWake(t)

Spec == Init /\ [][Next]_queueVars

\* The scheduler runs every thread that can go on.  Callers are never obliged
\* to call, and std::mutex promises no order among the threads that wait.
Fairness == \A t \in Threads : WF_queueVars(Step(t))

FairSpec == Spec /\ Fairness

-----------------------------------------------------------------------------
(* Properties.                                                              *)

\* The variables have their types, and a thread is where its operation is.
\* wait() in particular leaves only through its test (tsqueue.hpp:78).
TypeOK ==
  /\ deqQueue \in Seq(Values)
  /\ muxQueue \in Threads \cup {Nobody} /\ muxBlocking \in Threads \cup {Nobody}
  /\ cvBlocking \subseteq Threads
  /\ at \in [Threads -> Places]
  /\ op \in [Threads -> Operations \cup {"none"}]
  /\ item \in [Threads -> Values \cup {NoValue}]
  /\ view \in [Threads -> Seq(Values)]
  /\ ready \in BOOLEAN
  /\ \A t \in Threads :
       /\ op[t] = "none" <=> at[t] \in {"idle", "notify"}
       /\ op[t] = "wait" <=> at[t] \in {"test", "block", "sleep", "asleep", "unblock"}
       /\ op[t] \in Pushes => item[t] \in Values

\* A thread is between a lock and its unlock exactly when it owns the mutex:
\* no two threads are in a critical section together, and the deque a thread
\* found on entry is the deque it changes.
MutualExclusion ==
  \A t \in Threads :
    /\ at[t] \in {"modify", "notify"} <=> muxQueue = t
    /\ at[t] \in {"sleep", "unblock"} <=> muxBlocking = t
    /\ at[t] = "modify" => view[t] = deqQueue

\* With one consumer, "not empty, so pop" is safe although test and pop are two
\* critical sections: an element seen by empty() or wait() is still there when
\* the pop runs, whatever the producers do in between.
NeverEmptyPop ==
  /\ ready => deqQueue # <<>>
  /\ \A t \in Threads : op[t] \in Pops => deqQueue # <<>>

AtomicDeque == INSTANCE Deque WITH queue <- deqQueue, called <- op, value <- item

\* The queue behaves as a double-ended queue whose operations are atomic:
\* nothing is lost, doubled or reordered by threads that interleave.
DequeImplemented == AtomicDeque!Spec

\* muxQueue is always given back: push_back, which waits for muxBlocking while
\* it holds muxQueue, and wait(), which waits for each, do not wait for one
\* another.
QueueReleased == \A t \in Threads : muxQueue = t ~> muxQueue # t

\* A push called while the consumer is blocked in wait() wakes it.  (An element
\* pushed between the consumer's test and its going to sleep does not; only
\* the next push does.)
PushWakes ==
  \A t \in Threads :
    op[t] \in Pushes /\ Consumer \in cvBlocking ~> Consumer \notin cvBlocking

=============================================================================
