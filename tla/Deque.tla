-------------------------------- MODULE Deque --------------------------------
(***************************************************************************)
(* What a tsqueue promises its callers, without mutexes: a double-ended    *)
(* queue.  A thread calls an operation and the operation takes effect in   *)
(* one step, some time before it returns.  pop_front() and pop_back() are  *)
(* undefined on an empty std::deque, so they must find an element; wait()  *)
(* returns when there is one.                                              *)
(***************************************************************************)
EXTENDS Naturals, SequencesExt

CONSTANTS Threads, Consumer, Values, NoValue

VARIABLES
  queue,   \* the elements, front first
  called,  \* the operation each thread has called and that has no effect yet
  value    \* the argument of that operation, or the result of the last pop

dequeVars == <<queue, called, value>>

Pushes     == {"push_back", "push_front"}
Pops       == {"pop_front", "pop_back"}
Operations == Pushes \cup Pops \cup {"clear", "wait"}

Init ==
  /\ queue = <<>>
  /\ called = [t \in Threads |-> "none"]
  /\ value = [t \in Threads |-> NoValue]

Calls(t, operation, x) ==
  /\ called[t] = "none"
  /\ called' = [called EXCEPT ![t] = operation]
  /\ value' = [value EXCEPT ![t] = x]
  /\ UNCHANGED queue

\* The effect of the operation t has called: q is the queue and x the value
\* afterwards.
Effect(t, q, x) ==
  /\ called' = [called EXCEPT ![t] = "none"]
  /\ queue' = q
  /\ value' = [value EXCEPT ![t] = x]

PushBack(t)  == called[t] = "push_back"  /\ Effect(t, Append(queue, value[t]), NoValue)
PushFront(t) == called[t] = "push_front" /\ Effect(t, <<value[t]>> \o queue, NoValue)

\* Only the consumer removes elements.
PopFront(t) ==
  t = Consumer /\ called[t] = "pop_front" /\ queue # <<>> /\ Effect(t, Tail(queue), Head(queue))
PopBack(t) ==
  t = Consumer /\ called[t] = "pop_back" /\ queue # <<>> /\ Effect(t, Front(queue), Last(queue))
Clear(t) == t = Consumer /\ called[t] = "clear" /\ Effect(t, <<>>, NoValue)
Wait(t)  == t = Consumer /\ called[t] = "wait" /\ queue # <<>> /\ Effect(t, queue, value[t])

Next ==
  \E t \in Threads :
    \/ \E operation \in Pushes, x \in Values : Calls(t, operation, x)
    \/ t = Consumer /\ queue # <<>> /\ \E operation \in Pops : Calls(t, operation, NoValue)
    \/ t = Consumer /\ \E operation \in {"clear", "wait"} : Calls(t, operation, NoValue)
    \/ PushBack(t) \/ PushFront(t) \/ PopFront(t) \/ PopBack(t) \/ Clear(t) \/ Wait(t)

Spec == Init /\ [][Next]_dequeVars
=============================================================================
