---------------------------- MODULE TSQueueProofs ----------------------------
(* What TSQueue promises for every number of producers and every length.    *)
EXTENDS TSQueue, SequenceTheorems, TLAPS

\* Only the consumer pops, clears and waits, and while it removes elements it
\* does not rely on having seen one.
ConsumerInv ==
  /\ \A t \in Threads : op[t] \in Pops \cup {"clear", "wait"} => t = Consumer
  /\ op[Consumer] \in Pops \cup {"clear"} => ~ready

-----------------------------------------------------------------------------
(* Sequences.                                                               *)

\* The two ends of a non-empty sequence.
LEMMA EndsOfSeq ==
  ASSUME NEW S, NEW s \in Seq(S), s # <<>>
  PROVE  /\ Head(s) \in S /\ Tail(s) \in Seq(S)
         /\ Last(s) \in S /\ Front(s) \in Seq(S)
<1>1. Len(s) \in Nat /\ Len(s) - 1 \in Nat /\ Len(s) > 0 /\ Len(s) - 1 <= Len(s)
  BY EmptySeq, LenProperties
<1>2. \A i \in 1..Len(s) : s[i] \in S
  BY ElementOfSeq
<1>3. Front(s) \in Seq(S)
  BY <1>1, <1>2, SubSeqProperties DEF Front
<1>4. Head(s) \in S /\ Tail(s) \in Seq(S)
  BY HeadTailProperties
<1>5. Last(s) \in S
  BY <1>1, <1>2 DEF Last
<1>6. QED
  BY <1>3, <1>4, <1>5

\* The two ways to add an element.
LEMMA AddToSeq ==
  ASSUME NEW S, NEW s \in Seq(S), NEW x \in S
  PROVE  /\ Append(s, x) \in Seq(S) /\ Append(s, x) # <<>>
         /\ <<x>> \o s \in Seq(S) /\ <<x>> \o s # <<>>
<1>1. Append(s, x) \in Seq(S) /\ Append(s, x) # <<>>
  BY AppendProperties
<1>2. <<x>> \in Seq(S) /\ Len(<<x>>) = 1
  OBVIOUS
<1>3. <<x>> \o s \in Seq(S) /\ Len(<<x>> \o s) = 1 + Len(s)
  BY <1>2, ConcatProperties
<1>4. Len(s) \in Nat
  BY LenProperties
<1>5. <<x>> \o s # <<>>
  BY <1>3, <1>4, EmptySeq
<1>6. QED
  BY <1>1, <1>3, <1>5

-----------------------------------------------------------------------------
(* Type correctness.                                                        *)

LEMMA TypeStep == TypeOK /\ [Next]_queueVars => TypeOK'
<1> SUFFICES ASSUME TypeOK, [Next]_queueVars PROVE TypeOK'
  OBVIOUS
<1> USE DEF Pushes, Pops, Operations, Places
<1>1. CASE UNCHANGED queueVars
  BY <1>1 DEF TypeOK, queueVars
<1>2. ASSUME NEW t \in Threads, Caller(t) PROVE TypeOK'
  <2>1. ASSUME NEW o \in Operations, NEW x \in Values \cup {NoValue}, NEW place,
               Calls(t, o, x, place), o \in Pushes => x \in Values,
               place = IF o = "wait" THEN "test" ELSE "lock", ready' \in BOOLEAN
        PROVE  TypeOK'
    <3>1. /\ at' \in [Threads -> Places]
          /\ op' \in [Threads -> Operations \cup {"none"}]
          /\ item' \in [Threads -> Values \cup {NoValue}]
      BY <2>1 DEF Calls, From, TypeOK
    <3>2. ASSUME NEW u \in Threads
          PROVE  /\ op'[u] = "none" <=> at'[u] \in {"idle", "notify"}
                 /\ op'[u] = "wait" <=>
                      at'[u] \in {"test", "block", "sleep", "asleep", "unblock"}
                 /\ op'[u] \in Pushes => item'[u] \in Values
      <4>1. CASE u = t
        BY <2>1, <4>1 DEF Calls, From, TypeOK
      <4>2. CASE u # t
        BY <2>1, <4>2 DEF Calls, From, TypeOK
      <4>3. QED
        BY <4>1, <4>2
    <3>3. QED
      BY <2>1, <3>1, <3>2 DEF Calls, TypeOK, locks
  <2>2. CASE \E operation \in Pushes, x \in Values : CallPush(t, operation, x)
    BY <2>1, <2>2 DEF CallPush, TypeOK
  <2>3. CASE \E operation \in Pops : CallPop(t, operation)
    BY <2>1, <2>3 DEF CallPop
  <2>4. CASE CallClear(t) \/ CallWait(t)
    BY <2>1, <2>4 DEF CallClear, CallWait, TypeOK
  <2>5. CASE Empty(t)
    BY <2>5 DEF Empty, TypeOK, locks, call
  <2>6. QED
    BY <1>2, <2>2, <2>3, <2>4, <2>5 DEF Caller
<1>3. ASSUME NEW t \in Threads, Acquire(t) PROVE TypeOK'
  BY <1>3 DEF Acquire, From, TypeOK
<1>4. ASSUME NEW t \in Threads, NEW o \in Operations, NEW q \in Seq(Values),
             NEW x \in Values \cup {NoValue}, NEW place \in {"idle", "notify"},
             Modify(t, o, q, x), From(t, "modify", place),
             muxQueue' \in Threads \cup {Nobody}
      PROVE  TypeOK'
  <2>1. /\ at' \in [Threads -> Places]
        /\ op' \in [Threads -> Operations \cup {"none"}]
        /\ item' \in [Threads -> Values \cup {NoValue}]
        /\ view' \in [Threads -> Seq(Values)]
    BY <1>4 DEF Modify, From, TypeOK
  <2>2. ASSUME NEW u \in Threads
        PROVE  /\ op'[u] = "none" <=> at'[u] \in {"idle", "notify"}
               /\ op'[u] = "wait" <=>
                    at'[u] \in {"test", "block", "sleep", "asleep", "unblock"}
               /\ op'[u] \in Pushes => item'[u] \in Values
    <3>1. CASE u = t
      BY <1>4, <3>1 DEF Modify, From, TypeOK
    <3>2. CASE u # t
      BY <1>4, <3>2 DEF Modify, From, TypeOK
    <3>3. QED
      BY <3>1, <3>2
  <2>3. QED
    BY <1>4, <2>1, <2>2 DEF Modify, TypeOK
<1>5. ASSUME NEW t \in Threads, Emplace(t) PROVE TypeOK'
  <2>1. view[t] \in Seq(Values) /\ item[t] \in Values
    BY <1>5 DEF Emplace, Modify, TypeOK
  <2>2. Append(view[t], item[t]) \in Seq(Values) /\ <<item[t]>> \o view[t] \in Seq(Values)
    BY <2>1, AddToSeq
  <2>3. muxQueue' \in Threads \cup {Nobody}
    BY <1>5 DEF Emplace, TypeOK
  <2>4. QED
    BY <1>4, <1>5, <2>2, <2>3 DEF Emplace
<1>6. ASSUME NEW t \in Threads, Take(t) \/ Clear(t) PROVE TypeOK'
  <2>1. CASE Take(t)
    <3>1. view[t] \in Seq(Values) /\ view[t] # <<>>
      BY <2>1 DEF Take, TypeOK
    <3>2. /\ Head(view[t]) \in Values /\ Tail(view[t]) \in Seq(Values)
          /\ Last(view[t]) \in Values /\ Front(view[t]) \in Seq(Values)
      BY <3>1, EndsOfSeq
    <3>3. QED
      BY <1>4, <2>1, <3>2 DEF Take
  <2>2. CASE Clear(t)
    BY <1>4, <2>2, EmptySeq DEF Clear
  <2>3. QED
    BY <1>6, <2>1, <2>2
<1>7. ASSUME NEW t \in Threads, Notify(t) PROVE TypeOK'
  BY <1>7 DEF Notify, From, TypeOK, call
<1>8. ASSUME NEW t \in Threads,
             NEW here \in {"test", "block", "sleep", "asleep", "unblock"},
             NEW there \in {"test", "block", "sleep", "asleep", "unblock"},
             From(t, here, there), UNCHANGED <<deqQueue, muxQueue, op, item, view, ready>>,
             muxBlocking' \in Threads \cup {Nobody}, cvBlocking' \subseteq Threads
      PROVE  TypeOK'
  <2>1. at' \in [Threads -> Places]
    BY <1>8 DEF From, TypeOK
  <2>2. QED
    BY <1>8, <2>1 DEF From, TypeOK
<1>9. ASSUME NEW t \in Threads,
             TestEmpty(t) \/ Block(t) \/ Sleep(t) \/ Awake(t) \/ Unblock(t)
      PROVE  TypeOK'
  <2>1. muxBlocking' \in Threads \cup {Nobody} /\ cvBlocking' \subseteq Threads
    BY <1>9 DEF TestEmpty, Block, Sleep, Awake, Unblock, TypeOK, locks
  <2>2. CASE TestEmpty(t) \/ Block(t)
    BY <1>8, <2>1, <2>2 DEF TestEmpty, Block, locks, call
  <2>3. CASE Sleep(t) \/ Awake(t) \/ Unblock(t)
    BY <1>8, <2>1, <2>3 DEF Sleep, Awake, Unblock, call
  <2>4. QED
    BY <1>9, <2>2, <2>3
<1>10. ASSUME NEW t \in Threads, TestFull(t) PROVE TypeOK'
  BY <1>10 DEF TestFull, From, TypeOK, locks
<1>11. ASSUME NEW t \in Threads, SpuriousWake(t) PROVE TypeOK'
  BY <1>11 DEF SpuriousWake, TypeOK, call
<1>12. QED
  BY <1>1, <1>2, <1>3, <1>5, <1>6, <1>7, <1>9, <1>10, <1>11 DEF Next, Step

LEMMA InitType == Init => TypeOK
<1> SUFFICES ASSUME Init PROVE TypeOK
  OBVIOUS
<1>1. <<>> \in Seq(Values)
  BY EmptySeq
<1>2. ASSUME NEW t \in Threads PROVE op[t] = "none" /\ at[t] = "idle"
  BY DEF Init
<1>3. /\ at \in [Threads -> Places] /\ op \in [Threads -> Operations \cup {"none"}]
      /\ item \in [Threads -> Values \cup {NoValue}] /\ view \in [Threads -> Seq(Values)]
  BY <1>1 DEF Init, Places
<1>4. QED
  BY <1>1, <1>2, <1>3 DEF Init, TypeOK, Pushes

\* Every variable keeps its type, and every thread is where its operation is.
THEOREM QueueTypeCorrect == Spec => []TypeOK
BY InitType, TypeStep, PTL DEF Spec

-----------------------------------------------------------------------------
(* Mutual exclusion.                                                        *)

LEMMA ExclusionStep ==
  TypeOK /\ MutualExclusion /\ [Next]_queueVars => MutualExclusion'
<1> SUFFICES ASSUME TypeOK, MutualExclusion, [Next]_queueVars PROVE MutualExclusion'
  OBVIOUS
<1> USE QueueAssumption
<1>1. CASE UNCHANGED queueVars
  BY <1>1 DEF MutualExclusion, queueVars
<1>2. ASSUME NEW t \in Threads, Caller(t) PROVE MutualExclusion'
  <2>1. ASSUME NEW o, NEW x, NEW place \in {"lock", "test"}, Calls(t, o, x, place)
        PROVE  MutualExclusion'
    BY <2>1 DEF Calls, From, TypeOK, MutualExclusion, locks
  <2>2. CASE Empty(t)
    BY <2>2 DEF Empty, MutualExclusion, locks, call
  <2>3. QED
    BY <1>2, <2>1, <2>2 DEF Caller, CallPush, CallPop, CallClear, CallWait
<1>3. ASSUME NEW t \in Threads, Acquire(t) PROVE MutualExclusion'
  BY <1>3 DEF Acquire, From, TypeOK, MutualExclusion
<1>4. ASSUME NEW t \in Threads, NEW o, NEW q, NEW x, Modify(t, o, q, x),
             \/ From(t, "modify", "notify") /\ UNCHANGED muxQueue
             \/ From(t, "modify", "idle") /\ muxQueue' = Nobody
      PROVE  MutualExclusion'
  \* Nobody else is at "modify", so nobody's view is out of date.
  BY <1>4 DEF Modify, From, TypeOK, MutualExclusion
<1>5. ASSUME NEW t \in Threads, Emplace(t) \/ Take(t) \/ Clear(t) PROVE MutualExclusion'
  BY <1>4, <1>5 DEF Emplace, Take, Clear
<1>6. ASSUME NEW t \in Threads, Notify(t) PROVE MutualExclusion'
  BY <1>6 DEF Notify, From, TypeOK, MutualExclusion, call
<1>7. ASSUME NEW t \in Threads, TestFull(t) \/ TestEmpty(t) PROVE MutualExclusion'
  BY <1>7 DEF TestFull, TestEmpty, From, TypeOK, MutualExclusion, locks, call
<1>8. ASSUME NEW t \in Threads, Block(t) \/ Awake(t) PROVE MutualExclusion'
  BY <1>8 DEF Block, Awake, From, TypeOK, MutualExclusion, call
<1>9. ASSUME NEW t \in Threads, Sleep(t) \/ Unblock(t) PROVE MutualExclusion'
  BY <1>9 DEF Sleep, Unblock, From, TypeOK, MutualExclusion, call
<1>10. ASSUME NEW t \in Threads, SpuriousWake(t) PROVE MutualExclusion'
  BY <1>10 DEF SpuriousWake, MutualExclusion, call
<1>11. QED
  BY <1>1, <1>2, <1>3, <1>5, <1>6, <1>7, <1>8, <1>9, <1>10 DEF Next, Step

\* The two mutexes are owned by the threads between their locks and unlocks.
THEOREM QueueExclusion == Spec => []MutualExclusion
<1>1. Init => MutualExclusion
  BY QueueAssumption DEF Init, MutualExclusion
<1>2. QED
  BY <1>1, QueueTypeCorrect, ExclusionStep, PTL DEF Spec

-----------------------------------------------------------------------------
(* Pops find an element.                                                    *)

PopInv == TypeOK /\ MutualExclusion /\ ConsumerInv /\ NeverEmptyPop

LEMMA PopStep ==
  PopInv /\ [Next]_queueVars => ConsumerInv' /\ NeverEmptyPop'
<1> SUFFICES ASSUME PopInv, [Next]_queueVars PROVE ConsumerInv' /\ NeverEmptyPop'
  OBVIOUS
<1> Consumer \in Threads
  BY DEF Threads
<1> USE DEF Pops
<1>1. CASE UNCHANGED queueVars
  BY <1>1 DEF PopInv, ConsumerInv, NeverEmptyPop, queueVars
<1>2. ASSUME NEW t \in Threads, Caller(t) PROVE ConsumerInv' /\ NeverEmptyPop'
  <2>1. CASE \E o \in Pushes, x \in Values : CallPush(t, o, x)
    BY <2>1 DEF CallPush, Calls, From, PopInv, ConsumerInv, NeverEmptyPop, TypeOK, Pushes
  <2>2. CASE t = Consumer /\ \E o \in Pops : CallPop(t, o)
    BY <2>2 DEF CallPop, Calls, From, PopInv, ConsumerInv, NeverEmptyPop, TypeOK
  <2>3. CASE t = Consumer /\ (CallClear(t) \/ CallWait(t))
    BY <2>3 DEF CallClear, CallWait, Calls, From, PopInv, ConsumerInv, NeverEmptyPop, TypeOK
  <2>4. CASE t = Consumer /\ Empty(t)
    BY <2>4 DEF Empty, PopInv, ConsumerInv, NeverEmptyPop, TypeOK, call
  <2>5. QED
    BY <1>2, <2>1, <2>2, <2>3, <2>4 DEF Caller
<1>3. ASSUME NEW t \in Threads, Emplace(t) PROVE ConsumerInv' /\ NeverEmptyPop'
  <2>1. view[t] \in Seq(Values) /\ item[t] \in Values
    BY <1>3 DEF PopInv, Emplace, Modify, TypeOK, Pushes
  <2>2. deqQueue' # <<>>
    BY <1>3, <2>1, AddToSeq DEF Emplace, Modify
  <2>3. QED
    BY <1>3, <2>2 DEF Emplace, Modify, From, PopInv, ConsumerInv, NeverEmptyPop, TypeOK
<1>4. ASSUME NEW t \in Threads, Take(t) \/ Clear(t) PROVE ConsumerInv' /\ NeverEmptyPop'
  \* Only the consumer has such an operation, and it is not ready.
  <2>1. t = Consumer /\ ~ready
    BY <1>4 DEF Take, Clear, Modify, PopInv, ConsumerInv
  <2>2. /\ op' = [op EXCEPT ![t] = "none"] /\ ready' = ready
    BY <1>4 DEF Take, Clear, Modify
  <2>3. QED
    BY <2>1, <2>2 DEF PopInv, ConsumerInv, NeverEmptyPop, TypeOK
<1>5. ASSUME NEW t \in Threads, TestFull(t) PROVE ConsumerInv' /\ NeverEmptyPop'
  <2>1. op[t] = "wait"
    BY <1>5 DEF TestFull, From, PopInv, TypeOK
  <2>2. QED
    BY <1>5, <2>1 DEF TestFull, PopInv, ConsumerInv, NeverEmptyPop, TypeOK
<1>6. ASSUME UNCHANGED <<deqQueue, op, ready>> PROVE ConsumerInv' /\ NeverEmptyPop'
  BY <1>6 DEF PopInv, ConsumerInv, NeverEmptyPop
<1>7. QED
  BY <1>1, <1>2, <1>3, <1>4, <1>5, <1>6
  DEF Next, Step, Acquire, Notify, TestEmpty, Block, Sleep, Awake, SpuriousWake,
      Unblock, call

LEMMA PopInvariant == Spec => []PopInv
<1>1. Init => ConsumerInv /\ NeverEmptyPop
  BY DEF Init, ConsumerInv, NeverEmptyPop, Threads, Pops
<1>2. PopInv /\ [Next]_queueVars => PopInv'
  BY TypeStep, ExclusionStep, PopStep DEF PopInv
<1>3. Init => PopInv
  <2>1. Init => MutualExclusion
    BY QueueAssumption DEF Init, MutualExclusion
  <2>2. QED
    BY <1>1, <2>1, InitType DEF PopInv
<1>4. QED
  BY <1>2, <1>3, PTL DEF Spec

\* A pop never meets an empty deque, whatever the producers do between the
\* consumer's test and its pop.
THEOREM QueueNeverEmptyPop == Spec => []NeverEmptyPop
<1>1. PopInv => NeverEmptyPop
  BY DEF PopInv
<1>2. QED
  BY <1>1, PopInvariant, PTL

-----------------------------------------------------------------------------
(* Refinement.                                                              *)

\* Every step of a tsqueue is a step of a deque with atomic operations, or
\* leaves that deque as it is.
LEMMA RefinementStep ==
  PopInv /\ [Next]_queueVars => [AtomicDeque!Next]_(AtomicDeque!dequeVars)
<1> SUFFICES ASSUME PopInv, [Next]_queueVars
             PROVE  [AtomicDeque!Next]_(AtomicDeque!dequeVars)
  OBVIOUS
<1>1. ASSUME UNCHANGED <<deqQueue, op, item>>
      PROVE  [AtomicDeque!Next]_(AtomicDeque!dequeVars)
  BY <1>1 DEF AtomicDeque!dequeVars
<1>2. ASSUME NEW t \in Threads, NEW o, NEW q, NEW x, Modify(t, o, q, x)
      PROVE  AtomicDeque!Effect(t, q, x)
  BY <1>2 DEF Modify, AtomicDeque!Effect
<1>3. ASSUME NEW t \in Threads, Emplace(t) PROVE AtomicDeque!Next
  <2>1. view[t] = deqQueue
    BY <1>3 DEF Emplace, From, PopInv, MutualExclusion
  <2>2. AtomicDeque!PushBack(t) \/ AtomicDeque!PushFront(t)
    BY <1>2, <1>3, <2>1 DEF Emplace, Modify, AtomicDeque!PushBack, AtomicDeque!PushFront
  <2>3. QED
    BY <2>2 DEF AtomicDeque!Next
<1>4. ASSUME NEW t \in Threads, Take(t) PROVE AtomicDeque!Next
  <2>1. view[t] = deqQueue /\ deqQueue # <<>>
    BY <1>4 DEF Take, From, PopInv, MutualExclusion
  <2>2. t = Consumer
    BY <1>4 DEF Take, Modify, PopInv, ConsumerInv, Pops
  <2>3. CASE Modify(t, "pop_front", Tail(view[t]), Head(view[t]))
    <3>1. op[t] = "pop_front" /\ AtomicDeque!Effect(t, Tail(deqQueue), Head(deqQueue))
      BY <1>2, <2>1, <2>3 DEF Modify
    <3>2. AtomicDeque!PopFront(t)
      BY <2>1, <2>2, <3>1 DEF AtomicDeque!PopFront
    <3>3. QED
      BY <3>2 DEF AtomicDeque!Next
  <2>4. CASE Modify(t, "pop_back", Front(view[t]), Last(view[t]))
    <3>1. op[t] = "pop_back" /\ AtomicDeque!Effect(t, Front(deqQueue), Last(deqQueue))
      BY <1>2, <2>1, <2>4 DEF Modify
    <3>2. AtomicDeque!PopBack(t)
      BY <2>1, <2>2, <3>1 DEF AtomicDeque!PopBack, AtomicDeque!Front, AtomicDeque!Last, Front, Last
    <3>3. QED
      BY <3>2 DEF AtomicDeque!Next
  <2>5. QED
    BY <1>4, <2>3, <2>4 DEF Take
<1>5. ASSUME NEW t \in Threads, Clear(t) PROVE AtomicDeque!Next
  <2>1. t = Consumer
    BY <1>5 DEF Clear, Modify, PopInv, ConsumerInv
  <2>2. AtomicDeque!Clear(t)
    BY <1>2, <1>5, <2>1 DEF Clear, Modify, AtomicDeque!Clear
  <2>3. QED
    BY <2>2 DEF AtomicDeque!Next
<1>6. ASSUME NEW t \in Threads, TestFull(t) PROVE AtomicDeque!Next
  <2>1. op[t] = "wait"
    BY <1>6 DEF TestFull, From, PopInv, TypeOK
  <2>2. t = Consumer
    BY <2>1 DEF PopInv, ConsumerInv
  <2>3. item' = [item EXCEPT ![t] = item[t]]
    BY <1>6 DEF TestFull, PopInv, TypeOK
  <2>4. AtomicDeque!Wait(t)
    BY <1>6, <2>1, <2>2, <2>3 DEF TestFull, AtomicDeque!Wait, AtomicDeque!Effect
  <2>5. QED
    BY <2>4 DEF AtomicDeque!Next
<1>7. ASSUME NEW t \in Threads, Caller(t)
      PROVE  [AtomicDeque!Next]_(AtomicDeque!dequeVars)
  <2>1. ASSUME NEW o, NEW x, NEW place, Calls(t, o, x, place)
        PROVE  AtomicDeque!Calls(t, o, x)
    BY <2>1 DEF Calls, From, PopInv, TypeOK, AtomicDeque!Calls
  <2>2. CASE \E o \in Pushes, x \in Values : CallPush(t, o, x)
    BY <2>1, <2>2 DEF CallPush, AtomicDeque!Next, AtomicDeque!Pushes, Pushes
  <2>3. CASE t = Consumer /\ \E o \in Pops : CallPop(t, o)
    BY <2>1, <2>3 DEF CallPop, PopInv, NeverEmptyPop, AtomicDeque!Next,
                      AtomicDeque!Pops, Pops
  <2>4. CASE t = Consumer /\ (CallClear(t) \/ CallWait(t))
    BY <2>1, <2>4 DEF CallClear, CallWait, AtomicDeque!Next
  <2>5. CASE Empty(t)
    BY <1>1, <2>5 DEF Empty, call
  <2>6. QED
    BY <1>7, <2>2, <2>3, <2>4, <2>5 DEF Caller
<1>8. QED
  BY <1>1, <1>3, <1>4, <1>5, <1>6, <1>7
  DEF Next, Step, Acquire, Notify, TestEmpty, Block, Sleep, Awake, SpuriousWake,
      Unblock, call, queueVars

\* A tsqueue is a double-ended queue with atomic operations.
THEOREM QueueIsDeque == Spec => DequeImplemented
<1>1. Init => AtomicDeque!Init
  BY DEF Init, AtomicDeque!Init
<1>2. QED
  BY <1>1, PopInvariant, RefinementStep, PTL
  DEF Spec, DequeImplemented, AtomicDeque!Spec

=============================================================================
