--------------------------- MODULE ChatClientProofs ---------------------------
(* What ChatClient promises for every cap, and every number of chunks and    *)
(* lines.                                                                    *)
EXTENDS ChatClient, SequenceTheorems, TLAPS

\* The proofs about the queue, for this client's queue.
QueueTheory == INSTANCE TSQueueProofs WITH
  Producers <- {Reader}, Consumer <- Gui, Values <- Chunks, MaxLen <- MaxQueue + 2

\* A chunk whose size test is due has been read and has arrived.
ReadInv ==
  /\ arrived \in 0..MaxChunks /\ read \in 0..arrived
  /\ reader = "size" => read # 0

\* A push that was admitted finds at most MaxQueue lines, unless the window
\* thread is removing one at this moment: then the push waits for it.
BoundInv ==
  /\ op[Reader] \in {"none", "push_back"} /\ op[Gui] \in {"none", "pop_front", "clear"}
  /\ Len(deqQueue) <= MaxQueue + 1
  /\ op[Reader] = "push_back" => Len(deqQueue) <= MaxQueue \/ at[Gui] = "modify"

\* Nothing is sent before the username: either it has been sent, or it is the
\* next thing to be sent, or nothing will be sent any more.
WireInv ==
  /\ wire \in Seq({"username", "text"})
  /\ UsernameFirst
  /\ wire = <<>> => gui = "register" \/ ~m_connected

\* A chunk was read after m_connected had been cleared only if it is never set
\* again and the reader is past its last read.
LateInv ==
  /\ late \in 0..1
  /\ late = 1 => reader # "read" /\ ~m_connected
  /\ gui \in {"connect", "register"} => reader = "none" /\ late = 0

\* The line being pushed is the chunk read last, and the queue's part of the
\* state belongs to the reader's place.
PushInv ==
  /\ reader \in ReaderPlaces
  /\ op[Reader] # "none" =>
       /\ op[Reader] = "push_back" /\ reader = "push" /\ item[Reader] = read
       /\ read \in Chunks
  /\ dropped \subseteq 1..read /\ Pending \cap dropped = {}

\* LinesInOrder, and what its proof needs of the other variables.
OrderInv ==
  /\ PushInv
  /\ m_messages \in Seq(Chunks \cup {Own})
  /\ LinesInOrder

\* The client's own part of TypeOK.
TypeInv ==
  /\ gui \in GuiPlaces
  /\ m_connected \in BOOLEAN /\ socket \in {"none", "open", "shut", "closed"}
  /\ presses \in 0..MaxSends /\ dropped \subseteq Chunks

-----------------------------------------------------------------------------
(* The reader's position.                                                   *)

LEMMA ReadStep == ReadInv /\ [Next]_vars => ReadInv'
<1> SUFFICES ASSUME ReadInv, [Next]_vars PROVE ReadInv'
  OBVIOUS
<1> USE ClientAssumption DEF ReadInv
<1>1. CASE UNCHANGED vars
  BY <1>1 DEF vars, readVars
<1>2. CASE Connect
  BY <1>2 DEF Connect, Connects, ConnectFails, Register, GuiGoes, readVars
<1>3. CASE Drain
  BY <1>3 DEF Drain, SeesMessage, SeesNone, PopCalled, PopLocks, Pops, readVars
<1>4. CASE Input
  BY <1>4 DEF Input, PressSend, NoInput, NextFrame, CloseWindow, readVars
<1>5. CASE Destroy
  BY <1>5 DEF Destroy, DestroySocket, ClearLocks, Exit, readVars
<1>6. CASE ReaderStep
  BY <1>6 DEF ReaderStep, TestConnected, ReadsChunk, ReadFails, ReadCrashes, Drops,
              PushCalled, PushLocks, PushReturns, ReaderGoes, readVars
<1>7. CASE ChunkArrives \/ ServerCloses
  BY <1>7 DEF ChunkArrives, ServerCloses, readVars
<1>8. QED
  BY <1>1, <1>2, <1>3, <1>4, <1>5, <1>6, <1>7 DEF Next

LEMMA ReadInvariant == Spec => []ReadInv
<1>1. Init => ReadInv
  BY ClientAssumption DEF Init, ReadInv
<1>2. QED
  BY <1>1, ReadStep, PTL DEF Spec

-----------------------------------------------------------------------------
(* The client is a correct user of its queue.                               *)

LEMMA QueueThreads == Queue!Threads = {Reader, Gui}
BY DEF Queue!Threads

LEMMA QueueStep == ReadInv /\ [Next]_vars => [Queue!Next]_(Queue!queueVars)
<1> SUFFICES ASSUME ReadInv, [Next]_vars PROVE [Queue!Next]_(Queue!queueVars)
  OBVIOUS
<1> Reader \in Queue!Threads /\ Gui \in Queue!Threads
  BY QueueThreads
<1>1. ASSUME UNCHANGED queueVars PROVE [Queue!Next]_(Queue!queueVars)
  BY <1>1 DEF queueVars, Queue!queueVars
<1>2. ASSUME NEW t \in Queue!Threads, Queue!Step(t) PROVE Queue!Next
  BY <1>2 DEF Queue!Next
<1>3. CASE UNCHANGED vars
  BY <1>1, <1>3 DEF vars
<1>4. CASE Connect
  BY <1>1, <1>4 DEF Connect, Connects, ConnectFails, Register
<1>5. CASE Drain
  <2>1. CASE SeesMessage \/ SeesNone
    BY <2>1 DEF SeesMessage, SeesNone, Queue!Next, Queue!Caller
  <2>2. CASE PopCalled
    BY <2>2 DEF PopCalled, Queue!Next, Queue!Caller, Queue!Pops
  <2>3. CASE PopLocks \/ Pops
    BY <1>2, <2>3 DEF PopLocks, Pops, Queue!Step
  <2>4. QED
    BY <1>5, <2>1, <2>2, <2>3 DEF Drain
<1>6. CASE Input
  BY <1>1, <1>6 DEF Input, PressSend, NoInput, NextFrame, CloseWindow
<1>7. CASE Destroy
  <2>1. CASE DestroySocket
    BY <2>1 DEF DestroySocket, Queue!Next, Queue!Caller
  <2>2. CASE ClearLocks \/ Exit
    BY <1>2, <2>2 DEF ClearLocks, Exit, Queue!Step
  <2>3. QED
    BY <1>7, <2>1, <2>2 DEF Destroy
<1>8. CASE ReaderStep
  <2>1. CASE TestConnected \/ ReadsChunk \/ ReadFails \/ ReadCrashes \/ Drops
    BY <1>1, <2>1 DEF TestConnected, ReadsChunk, ReadFails, ReadCrashes, Drops
  <2>2. CASE PushCalled
    <3>1. read \in Chunks
      BY <2>2, ClientAssumption DEF PushCalled, ReaderGoes, ReadInv, Chunks
    <3>2. QED
      BY <2>2, <3>1 DEF PushCalled, Queue!Next, Queue!Caller, Queue!Pushes
  <2>3. CASE PushLocks \/ PushReturns
    BY <1>2, <2>3 DEF PushLocks, PushReturns, Queue!Step
  <2>4. QED
    BY <1>8, <2>1, <2>2, <2>3 DEF ReaderStep
<1>9. CASE ChunkArrives \/ ServerCloses
  BY <1>1, <1>9 DEF ChunkArrives, ServerCloses
<1>10. QED
  BY <1>3, <1>4, <1>5, <1>6, <1>7, <1>8, <1>9 DEF Next

\* Every behaviour of the client is, for its queue, a behaviour of a tsqueue
\* used as it must be.
THEOREM ClientUsesQueue == Spec => QueueProtocol
<1>1. Init => Queue!Init
  BY DEF Init
<1>2. QED
  BY <1>1, ReadInvariant, QueueStep, PTL DEF Spec, QueueProtocol, Queue!Spec

-----------------------------------------------------------------------------
(* What that gives for the queue of the client.                             *)

LEMMA SameAssumption == QueueTheory!QueueAssumption
BY ClientAssumption DEF QueueTheory!QueueAssumption, QueueTheory!Threads

\* TSQueueProofs has a copy of TSQueue of its own; the two are the same.
LEMMA SameQueue ==
  /\ Queue!Init => QueueTheory!Init
  /\ [Queue!Next]_(Queue!queueVars) => [QueueTheory!Next]_(QueueTheory!queueVars)
<1>1. Queue!Threads = QueueTheory!Threads
  BY DEF Queue!Threads, QueueTheory!Threads
<1>2. ASSUME NEW t, NEW o, NEW x, NEW place, Queue!Calls(t, o, x, place)
      PROVE  QueueTheory!Calls(t, o, x, place)
  BY <1>2 DEF Queue!Calls, QueueTheory!Calls, Queue!From, QueueTheory!From,
         Queue!locks, QueueTheory!locks
<1>3. ASSUME NEW t, Queue!Caller(t) PROVE QueueTheory!Caller(t)
  <2>1. Queue!Empty(t) => QueueTheory!Empty(t)
    BY DEF Queue!Empty, QueueTheory!Empty, Queue!locks, QueueTheory!locks,
           Queue!call, QueueTheory!call
  <2>2. ASSUME NEW o, NEW x, Queue!CallPush(t, o, x) PROVE QueueTheory!CallPush(t, o, x)
    BY <1>2, <2>2 DEF Queue!CallPush, QueueTheory!CallPush
  <2>3. ASSUME NEW o, Queue!CallPop(t, o) PROVE QueueTheory!CallPop(t, o)
    BY <1>2, <2>3 DEF Queue!CallPop, QueueTheory!CallPop
  <2>4. /\ Queue!CallClear(t) => QueueTheory!CallClear(t)
        /\ Queue!CallWait(t) => QueueTheory!CallWait(t)
    BY <1>2 DEF Queue!CallClear, QueueTheory!CallClear, Queue!CallWait,
           QueueTheory!CallWait
  <2>5. QED
    BY <1>3, <2>1, <2>2, <2>3, <2>4 DEF Queue!Caller, QueueTheory!Caller,
           Queue!Pushes, QueueTheory!Pushes, Queue!Pops, QueueTheory!Pops
<1>4. ASSUME NEW t, NEW o, NEW q, NEW x, Queue!Modify(t, o, q, x)
      PROVE  QueueTheory!Modify(t, o, q, x)
  BY <1>4 DEF Queue!Modify, QueueTheory!Modify
<1>5. ASSUME NEW t, Queue!Step(t) PROVE QueueTheory!Step(t)
  <2>1. Queue!Acquire(t) => QueueTheory!Acquire(t)
    BY DEF Queue!Acquire, QueueTheory!Acquire, Queue!From, QueueTheory!From
  <2>2. /\ Queue!Emplace(t) => QueueTheory!Emplace(t)
        /\ Queue!Clear(t) => QueueTheory!Clear(t)
    BY <1>4 DEF Queue!Emplace, QueueTheory!Emplace, Queue!Clear,
           QueueTheory!Clear, Queue!From, QueueTheory!From
  <2>3. Queue!Take(t) => QueueTheory!Take(t)
    BY <1>4 DEF Queue!Take, QueueTheory!Take, Queue!From, QueueTheory!From,
           Queue!Front, QueueTheory!Front, Queue!Last, QueueTheory!Last
  <2>4. Queue!Notify(t) => QueueTheory!Notify(t)
    BY DEF Queue!Notify, QueueTheory!Notify, Queue!From, QueueTheory!From,
           Queue!call, QueueTheory!call
  <2>5. /\ Queue!TestFull(t) => QueueTheory!TestFull(t)
        /\ Queue!TestEmpty(t) => QueueTheory!TestEmpty(t)
    BY DEF Queue!TestFull, QueueTheory!TestFull, Queue!TestEmpty,
           QueueTheory!TestEmpty, Queue!From, QueueTheory!From, Queue!locks,
           QueueTheory!locks, Queue!call, QueueTheory!call
  <2>6. /\ Queue!Block(t) => QueueTheory!Block(t)
        /\ Queue!Sleep(t) => QueueTheory!Sleep(t)
    BY DEF Queue!Block, QueueTheory!Block, Queue!Sleep, QueueTheory!Sleep,
           Queue!From, QueueTheory!From, Queue!call, QueueTheory!call
  <2>7. /\ Queue!Awake(t) => QueueTheory!Awake(t)
        /\ Queue!Unblock(t) => QueueTheory!Unblock(t)
    BY DEF Queue!Awake, QueueTheory!Awake, Queue!Unblock, QueueTheory!Unblock,
           Queue!From, QueueTheory!From, Queue!call, QueueTheory!call
  <2>8. QED
    BY <1>5, <2>1, <2>2, <2>3, <2>4, <2>5, <2>6, <2>7 DEF Queue!Step,
           QueueTheory!Step
<1>6. ASSUME NEW t, Queue!SpuriousWake(t) PROVE QueueTheory!SpuriousWake(t)
  BY <1>6 DEF Queue!SpuriousWake, QueueTheory!SpuriousWake, Queue!call,
         QueueTheory!call
<1>7. Queue!Init => QueueTheory!Init
  BY DEF Queue!Init, QueueTheory!Init, Queue!Threads, QueueTheory!Threads
<1>8. Queue!Next => QueueTheory!Next
  BY <1>1, <1>3, <1>5, <1>6 DEF Queue!Next, QueueTheory!Next
<1>9. QED
  BY <1>7, <1>8 DEF Queue!queueVars, QueueTheory!queueVars

LEMMA QueueInvariant == Spec => []QueueTheory!PopInv
<1>1. Queue!Spec => QueueTheory!Spec
  BY SameQueue, PTL DEF Queue!Spec, QueueTheory!Spec
<1>2. QED
  BY <1>1, ClientUsesQueue, SameAssumption, QueueTheory!PopInvariant, PTL
  DEF QueueProtocol

-----------------------------------------------------------------------------
(* The length of the queue.                                                 *)

\* What the proofs about the queue say of its two threads.
LEMMA QueueFacts ==
  ASSUME QueueTheory!PopInv
  PROVE  /\ at \in [{Reader, Gui} -> Queue!Places]
         /\ op \in [{Reader, Gui} -> Queue!Operations \cup {"none"}]
         /\ deqQueue \in Seq(Chunks)
         /\ item \in [{Reader, Gui} -> Chunks \cup {NoValue}]
         /\ at[Reader] = "notify" => op[Reader] = "none"
         /\ \A t \in {Reader, Gui} : at[t] = "modify" => muxQueue = t /\ view[t] = deqQueue
<1>1. QueueTheory!Threads = {Reader, Gui}
  BY DEF QueueTheory!Threads
<1>2. QueueTheory!TypeOK /\ QueueTheory!MutualExclusion
  BY DEF QueueTheory!PopInv
<1>3. QED
  BY <1>1, <1>2
  DEF QueueTheory!TypeOK, QueueTheory!MutualExclusion, QueueTheory!Places, Queue!Places,
      QueueTheory!Operations, Queue!Operations, QueueTheory!Pushes, Queue!Pushes,
      QueueTheory!Pops, Queue!Pops

\* Appending and removing an element.
LEMMA LengthFacts ==
  ASSUME NEW S, NEW s \in Seq(S)
  PROVE  /\ Len(s) \in Nat /\ Len(<<>>) = 0
         /\ \A x : Len(Append(s, x)) = Len(s) + 1
         /\ s # <<>> => Len(Tail(s)) = Len(s) - 1 /\ Len(s) > 0
<1>1. Len(s) \in Nat
  BY LenProperties
<1>2. \A x : Len(Append(s, x)) = Len(s) + 1
  OBVIOUS
<1>3. s # <<>> => Len(Tail(s)) = Len(s) - 1 /\ Len(s) > 0
  BY <1>1, EmptySeq, HeadTailProperties
<1>4. QED
  BY <1>1, <1>2, <1>3, EmptySeq

LEMMA BoundStep ==
  BoundInv /\ QueueTheory!PopInv /\ [Next]_vars => BoundInv'
<1> SUFFICES ASSUME BoundInv, QueueTheory!PopInv, [Next]_vars PROVE BoundInv'
  OBVIOUS
<1> DEFINE Types == /\ at \in [{Reader, Gui} -> Queue!Places]
                    /\ op \in [{Reader, Gui} -> Queue!Operations \cup {"none"}]
                    /\ deqQueue \in Seq(Chunks)
                    /\ \A t \in {Reader, Gui} :
                         at[t] = "modify" => muxQueue = t /\ view[t] = deqQueue
<1>1. Types /\ Len(deqQueue) \in Nat
  BY QueueFacts, LengthFacts
<1> USE ClientAssumption DEF BoundInv
<1>2. ASSUME UNCHANGED <<deqQueue, at, op>> PROVE BoundInv'
  BY <1>2
<1>3. ASSUME Queue!Empty(Gui) \/ UNCHANGED queueVars PROVE BoundInv'
  BY <1>2, <1>3 DEF Queue!Empty, queueVars, Queue!call
<1>4. CASE PopCalled \/ DestroySocket
  BY <1>1, <1>4 DEF PopCalled, DestroySocket, Queue!CallPop, Queue!CallClear,
                    Queue!Calls, Queue!From
<1>5. CASE PopLocks \/ ClearLocks
  BY <1>1, <1>5 DEF PopLocks, ClearLocks, Queue!Acquire, Queue!From
<1>6. CASE Pops
  <2>1. view[Gui] = deqQueue /\ deqQueue # <<>> /\ op[Gui] # "push_back"
    BY <1>1, <1>6 DEF Pops, Queue!Take, Queue!From
  <2>2. op' = [op EXCEPT ![Gui] = "none"] /\ at' = [at EXCEPT ![Gui] = "idle"]
    BY <1>6 DEF Pops, Queue!Take, Queue!Modify, Queue!From
  <2>3. Len(deqQueue') <= MaxQueue
    <3>1. op[Gui] = "pop_front" => deqQueue' = Tail(deqQueue)
      BY <1>6, <2>1 DEF Pops, Queue!Take, Queue!Modify
    <3>2. op[Gui] = "pop_front"
      BY <1>6 DEF Pops, Queue!Take, Queue!Modify
    <3>3. QED
      BY <1>1, <2>1, <3>1, <3>2, LengthFacts
  <2>4. QED
    BY <1>1, <2>2, <2>3
<1>7. CASE Exit
  <2>1. /\ deqQueue' = <<>> /\ op' = [op EXCEPT ![Gui] = "none"]
        /\ at' = [at EXCEPT ![Gui] = "idle"]
    BY <1>7 DEF Exit, Queue!Clear, Queue!Modify, Queue!From
  <2>2. Len(deqQueue') = 0
    BY <2>1, EmptySeq
  <2>3. QED
    BY <1>1, <2>1, <2>2
<1>8. CASE PushCalled
  <2>1. /\ op' = [op EXCEPT ![Reader] = "push_back"]
        /\ at' = [at EXCEPT ![Reader] = "lock"] /\ UNCHANGED deqQueue
    BY <1>8 DEF PushCalled, Queue!CallPush, Queue!Calls, Queue!From
  \* The size test was true of the queue, or raced with a removal.
  <2>2. Len(deqQueue) <= MaxQueue \/ at[Gui] = "modify"
    BY <1>8, QueueThreads DEF PushCalled, Queue!SizeAtMost, Queue!Racing
  <2>3. QED
    BY <1>1, <2>1, <2>2
<1>9. CASE PushLocks
  <2>1. CASE Queue!Acquire(Reader)
    <3>1. at[Gui] # "modify"
      BY <1>1, <2>1 DEF Queue!Acquire
    <3>2. QED
      BY <1>1, <2>1, <3>1 DEF Queue!Acquire, Queue!From
  <2>2. CASE Queue!Emplace(Reader)
    <3>1. op[Reader] = "push_back" /\ view[Reader] = deqQueue /\ at[Gui] # "modify"
      BY <1>1, <2>2 DEF Queue!Emplace, Queue!From, Queue!Modify
    <3>2. /\ deqQueue' = Append(deqQueue, item[Reader])
          /\ op' = [op EXCEPT ![Reader] = "none"]
      BY <2>2, <3>1 DEF Queue!Emplace, Queue!Modify
    <3>3. Len(deqQueue') <= MaxQueue + 1
      BY <1>1, <3>1, <3>2, LengthFacts
    <3>4. QED
      BY <1>1, <3>2, <3>3
  <2>3. QED
    BY <1>9, <2>1, <2>2 DEF PushLocks
<1>10. CASE PushReturns
  BY <1>1, <1>10 DEF PushReturns, Queue!Notify, Queue!From, Queue!call
<1>11. QED
  BY <1>3, <1>4, <1>5, <1>6, <1>7, <1>8, <1>9, <1>10
  DEF Next, vars, Connect, Connects, ConnectFails, Register, Drain, SeesMessage, SeesNone,
      Input, PressSend, NoInput, NextFrame, CloseWindow, Destroy, ReaderStep,
      TestConnected, ReadsChunk, ReadFails, ReadCrashes, Drops, ChunkArrives, ServerCloses

LEMMA BoundInvariant == Spec => []BoundInv
<1>1. Init => BoundInv
  <2>1. Init => op[Reader] = "none" /\ op[Gui] = "none" /\ deqQueue = <<>>
    BY QueueThreads DEF Init, Queue!Init
  <2>2. QED
    BY <2>1, ClientAssumption, EmptySeq DEF BoundInv
<1>2. QED
  BY <1>1, BoundStep, QueueInvariant, PTL DEF Spec

\* The queue holds at most one line beyond the cap, for every cap.
THEOREM ClientQueueBounded == Spec => []QueueBounded
<1>1. BoundInv => QueueBounded
  BY DEF BoundInv, QueueBounded
<1>2. QED
  BY <1>1, BoundInvariant, PTL

-----------------------------------------------------------------------------
(* What the server receives first, and when the reader stops.               *)

\* Pops that find an element: the queue's theorem, for this client.
THEOREM ClientPopsSafely == Spec => []Queue!NeverEmptyPop
<1>1. QueueTheory!PopInv => Queue!NeverEmptyPop
  BY DEF QueueTheory!PopInv, QueueTheory!NeverEmptyPop, Queue!NeverEmptyPop,
         QueueTheory!Threads, Queue!Threads, QueueTheory!Pops, Queue!Pops
<1>2. QED
  BY <1>1, QueueInvariant, PTL

LEMMA WireStep == WireInv /\ [Next]_vars => WireInv'
<1> SUFFICES ASSUME WireInv, [Next]_vars PROVE WireInv'
  OBVIOUS
<1> USE DEF WireInv, UsernameFirst
<1>1. ASSUME UNCHANGED wire, gui' = "register" \/ ~m_connected' \/ wire # <<>>
      PROVE  WireInv'
  BY <1>1
<1>2. ASSUME NEW text \in {"username", "text"}, SendMessage(text),
             gui = "register" => text = "username", gui # "register" => text = "text"
      PROVE  WireInv'
  <2>1. CASE wire' = Append(wire, text) /\ m_connected
    <3>1. wire' \in Seq({"username", "text"}) /\ wire' # <<>>
      BY <2>1, AppendProperties
    <3>2. wire'[1] = "username"
      <4>1. CASE wire = <<>>
        BY <1>2, <2>1, <4>1
      <4>2. CASE wire # <<>>
        <5>1. Len(wire) \in Nat /\ Len(wire) > 0
          BY <4>2, EmptySeq, LenProperties
        <5>2. wire'[1] = wire[1]
          BY <2>1, <5>1, AppendProperties
        <5>3. QED
          BY <4>2, <5>2
      <4>3. QED
        BY <4>1, <4>2
    <3>3. QED
      BY <3>1, <3>2
  <2>2. CASE UNCHANGED wire /\ ~m_connected'
    BY <1>1, <2>2
  <2>3. QED
    BY <1>2, <2>1, <2>2 DEF SendMessage
<1>3. CASE UNCHANGED vars
  BY <1>3 DEF vars, guiVars
<1>4. CASE Connects
  BY <1>4, <1>1 DEF Connects, GuiGoes, guiVars
<1>5. CASE Register
  BY <1>5, <1>2 DEF Register, GuiGoes
<1>6. CASE PressSend
  BY <1>6, <1>2 DEF PressSend, GuiGoes
<1>7. CASE ConnectFails \/ Drain \/ NoInput \/ NextFrame \/ CloseWindow \/ Destroy
  <2>1. gui # "register" /\ UNCHANGED <<wire, m_connected>>
    BY <1>7 DEF ConnectFails, Drain, SeesMessage, SeesNone, PopCalled, PopLocks, Pops,
                NoInput, NextFrame, CloseWindow, Destroy, DestroySocket, ClearLocks, Exit,
                GuiGoes, guiVars
  <2>2. QED
    BY <1>1, <2>1
<1>8. CASE ReaderStep \/ ChunkArrives \/ ServerCloses
  <2>1. /\ UNCHANGED wire /\ (m_connected' => m_connected)
        /\ gui = "register" => gui' = "register"
    BY <1>8 DEF ReaderStep, TestConnected, ReadsChunk, ReadFails, ReadCrashes, Drops,
                PushCalled, PushLocks, PushReturns, ChunkArrives, ServerCloses,
                ReaderGoes, guiVars
  <2>2. QED
    BY <1>1, <2>1
<1>9. QED
  BY <1>3, <1>4, <1>5, <1>6, <1>7, <1>8 DEF Next, Connect, Input

LEMMA WireInvariant == Spec => []WireInv
<1>1. Init => WireInv
  BY EmptySeq DEF Init, WireInv, UsernameFirst
<1>2. QED
  BY <1>1, WireStep, PTL DEF Spec

\* The first text the server receives from a client is its username, whatever
\* fails.
THEOREM ClientUsernameFirst == Spec => []UsernameFirst
<1>1. WireInv => UsernameFirst
  BY DEF WireInv
<1>2. QED
  BY <1>1, WireInvariant, PTL

LEMMA LateStep == LateInv /\ [Next]_vars => LateInv'
<1> SUFFICES ASSUME LateInv, [Next]_vars PROVE LateInv'
  OBVIOUS
<1> USE DEF LateInv
<1>1. CASE UNCHANGED vars
  BY <1>1 DEF vars, readVars
<1>2. CASE Connects \/ ConnectFails
  BY <1>2 DEF Connects, ConnectFails, GuiGoes, readVars
<1>3. CASE Register
  BY <1>3 DEF Register, GuiGoes, SendMessage, readVars
<1>4. CASE PressSend
  BY <1>4 DEF PressSend, GuiGoes, SendMessage, readVars
<1>5. CASE Drain
  BY <1>5 DEF Drain, SeesMessage, SeesNone, PopCalled, PopLocks, Pops, GuiGoes, readVars
<1>6. CASE NoInput \/ NextFrame \/ CloseWindow \/ Destroy
  BY <1>6 DEF NoInput, NextFrame, CloseWindow, Destroy, DestroySocket, ClearLocks, Exit,
              GuiGoes, readVars
<1>7. CASE ReaderStep
  BY <1>7 DEF ReaderStep, TestConnected, ReadsChunk, ReadFails, ReadCrashes, Drops,
              PushCalled, PushLocks, PushReturns, ReaderGoes, readVars
<1>8. CASE ChunkArrives \/ ServerCloses
  BY <1>8 DEF ChunkArrives, ServerCloses, readVars
<1>9. QED
  BY <1>1, <1>2, <1>3, <1>4, <1>5, <1>6, <1>7, <1>8 DEF Next, Connect, Input

LEMMA LateInvariant == Spec => []LateInv
<1>1. Init => LateInv
  BY DEF Init, LateInv
<1>2. QED
  BY <1>1, LateStep, PTL DEF Spec

\* After a failed send the reader reads at most one more chunk.
THEOREM ClientReaderGivesUp == Spec => []ReaderGivesUp
<1>1. LateInv => ReaderGivesUp
  BY DEF LateInv, ReaderGivesUp
<1>2. QED
  BY <1>1, LateInvariant, PTL

-----------------------------------------------------------------------------
(* What is shown and queued.                                                *)

\* The lines typed here do not count.
LEMMA RisingAppend ==
  ASSUME NEW s \in Seq(Nat), NEW x \in Nat,
         \A i, j \in DOMAIN s : i < j /\ Own \notin {s[i], s[j]} => s[i] < s[j],
         \A i \in DOMAIN s : s[i] < x
  PROVE  LET t == Append(s, x) IN
         /\ \A i, j \in DOMAIN t : i < j /\ Own \notin {t[i], t[j]} => t[i] < t[j]
         /\ Range(t) = Range(s) \cup {x}
<1> DEFINE t == Append(s, x)
           n == Len(s)
<1>1. /\ n \in Nat /\ DOMAIN s = 1..n /\ DOMAIN t = 1..(n + 1)
      /\ \A i \in 1..n : t[i] = s[i] /\ s[i] \in Nat
      /\ t[n + 1] = x
  BY LenProperties, AppendProperties, ElementOfSeq
<1> HIDE DEF t, n
<1>2. ASSUME NEW i \in DOMAIN t, NEW j \in DOMAIN t, i < j, Own \notin {t[i], t[j]}
      PROVE  t[i] < t[j]
  <2>1. i \in 1..n
    BY <1>1, <1>2
  <2>2. CASE j \in 1..n
    BY <1>1, <1>2, <2>1, <2>2
  <2>3. CASE j = n + 1
    BY <1>1, <2>1, <2>3
  <2>4. QED
    BY <1>1, <2>2, <2>3
<1>3. Range(t) = Range(s) \cup {x}
  <2>1. Range(t) \subseteq Range(s) \cup {x}
    BY <1>1 DEF Range
  <2>2. Range(s) \cup {x} \subseteq Range(t)
    <3>1. n + 1 \in DOMAIN t
      BY <1>1
    <3>2. \A i \in DOMAIN s : i \in DOMAIN t /\ t[i] = s[i]
      BY <1>1
    <3>3. QED
      BY <1>1, <3>1, <3>2 DEF Range
  <2>3. QED
    BY <2>1, <2>2
<1>4. QED
  BY <1>2, <1>3 DEF t

\* A line typed here is shown before the lines still queued.
LEMMA RisingOwn ==
  ASSUME NEW a \in Seq(Nat), NEW b \in Seq(Nat),
         \A i, j \in DOMAIN (a \o b) :
           i < j /\ Own \notin {(a \o b)[i], (a \o b)[j]} => (a \o b)[i] < (a \o b)[j]
  PROVE  LET t == Append(a, Own) \o b IN
         /\ \A i, j \in DOMAIN t : i < j /\ Own \notin {t[i], t[j]} => t[i] < t[j]
         /\ Range(t) \ {Own} = Range(a \o b) \ {Own}
<1> DEFINE s == a \o b
           t == Append(a, Own) \o b
           n == Len(a)
           k == Len(b)
           Old(i) == IF i <= n THEN i ELSE i - 1
<1>1. /\ n \in Nat /\ k \in Nat
      /\ DOMAIN s = 1..(n + k) /\ DOMAIN t = 1..(n + k + 1)
      /\ \A i \in 1..(n + k) : s[i] \in Nat
      /\ t[n + 1] = Own
      /\ \A i \in 1..(n + k + 1) : i <= n => t[i] = s[i]
      /\ \A i \in 1..(n + k + 1) : i > n + 1 => t[i] = s[i - 1]
  BY SMTT(30)
<1>2. \A i, j \in DOMAIN s : i < j /\ Own \notin {s[i], s[j]} => s[i] < s[j]
  OBVIOUS
<1> HIDE DEF s, t, n, k
<1>3. \A i \in DOMAIN t : t[i] # Own => Old(i) \in DOMAIN s /\ t[i] = s[Old(i)]
  BY <1>1, SMTT(30)
<1>4. ASSUME NEW i \in DOMAIN t, NEW j \in DOMAIN t, i < j, Own \notin {t[i], t[j]}
      PROVE  t[i] < t[j]
  <2>1. i # n + 1 /\ j # n + 1 /\ i \in Nat /\ j \in Nat
    BY <1>1, <1>4
  <2>2. Old(i) < Old(j)
    BY <1>1, <1>4, <2>1
  <2>3. QED
    BY <1>2, <1>3, <1>4, <2>2
<1>5. Range(t) \ {Own} \subseteq Range(s)
  BY <1>3 DEF Range
<1>6. Range(s) \subseteq Range(t)
  <2>1. ASSUME NEW i \in DOMAIN s PROVE \E j \in DOMAIN t : t[j] = s[i]
    <3>1. CASE i <= n
      BY <1>1, <3>1, SMTT(30)
    <3>2. CASE i > n
      <4>1. i + 1 \in DOMAIN t /\ t[i + 1] = s[i]
        BY <1>1, <3>2
      <4>2. QED
        BY <4>1
    <3>3. QED
      BY <1>1, <3>1, <3>2
  <2>2. QED
    BY <2>1 DEF Range
<1>7. QED
  BY <1>4, <1>5, <1>6 DEF s, t

\* Moving the first of the queued lines to those shown changes no order.
LEMMA PassedOn ==
  ASSUME NEW a \in Seq(Nat), NEW b \in Seq(Nat), b # <<>>
  PROVE  Append(a, Head(b)) \o Tail(b) = a \o b
OBVIOUS

LEMMA PushedOn ==
  ASSUME NEW a \in Seq(Nat), NEW b \in Seq(Nat), NEW x \in Nat
  PROVE  a \o Append(b, x) = Append(a \o b, x)
OBVIOUS

\* Two lists of lines with the same chunks in them.
LEMMA OrderKept ==
  ASSUME LinesInOrder, gui # "exit",
         \A i, j \in DOMAIN Lines' :
           i < j /\ Own \notin {Lines'[i], Lines'[j]} => Lines'[i] < Lines'[j],
         Range(Lines') \ {Own} = Range(Lines) \ {Own},
         UNCHANGED <<read, dropped, Pending>>
  PROVE  LinesInOrder'
BY DEF LinesInOrder

LEMMA OrderUnchanged ==
  ASSUME LinesInOrder, gui # "exit",
         UNCHANGED <<Lines, read, dropped, Pending>>
  PROVE  LinesInOrder'
BY DEF LinesInOrder

LEMMA LineTypes ==
  /\ \A s \in Seq(Chunks) : s \in Seq(Nat)
  /\ \A s \in Seq(Chunks \cup {Own}) : s \in Seq(Nat)
  /\ Chunks \subseteq Nat /\ Own \in Nat /\ Own \notin Chunks
<1>1. Chunks \subseteq Nat /\ Own \in Nat /\ Own \notin Chunks
  BY ClientAssumption DEF Chunks, Own
<1>2. ASSUME NEW S, S \subseteq Nat, NEW s \in Seq(S) PROVE s \in Seq(Nat)
  <2>1. Len(s) \in Nat /\ s \in [1..Len(s) -> S]
    BY LenProperties
  <2>2. s \in [1..Len(s) -> Nat]
    BY <1>2, <2>1
  <2>3. QED
    BY <2>1, <2>2, SeqDef
<1>3. Chunks \cup {Own} \subseteq Nat
  BY <1>1
<1>4. QED
  BY <1>1, <1>2, <1>3

\* The steps that touch neither the lines nor what becomes of a chunk.
LEMMA OrderAside ==
  ASSUME OrderInv,
         UNCHANGED <<m_messages, deqQueue, read, dropped, reader, item>>,
         gui = "exit" => gui' = "exit", UNCHANGED op
  PROVE  OrderInv'
BY DEF OrderInv, PushInv, LinesInOrder, Lines, Pending

\* The calls of the window thread leave the reader's call alone.
LEMMA OrderGui ==
  ASSUME OrderInv, gui # "exit",
         UNCHANGED <<m_messages, deqQueue, read, dropped, reader>>,
         op'[Reader] = op[Reader], item'[Reader] = item[Reader]
  PROVE  OrderInv'
<1>1. PushInv'
  BY DEF OrderInv, PushInv, Pending
<1>2. UNCHANGED <<Lines, Pending>>
  BY DEF Lines, Pending
<1>3. QED
  BY <1>1, <1>2, OrderUnchanged DEF OrderInv

LEMMA OrderStep ==
  OrderInv /\ ReadInv /\ BoundInv /\ LateInv /\ QueueTheory!PopInv /\ [Next]_vars => OrderInv'
<1> SUFFICES ASSUME OrderInv, ReadInv, BoundInv, LateInv, QueueTheory!PopInv, [Next]_vars
             PROVE  OrderInv'
  OBVIOUS
<1> DEFINE Types == /\ at \in [{Reader, Gui} -> Queue!Places]
                    /\ op \in [{Reader, Gui} -> Queue!Operations \cup {"none"}]
                    /\ deqQueue \in Seq(Chunks)
                    /\ \A t \in {Reader, Gui} :
                         at[t] = "modify" => muxQueue = t /\ view[t] = deqQueue
<1>1. Types
  BY QueueFacts
<1>2. CASE UNCHANGED vars
  BY <1>2, OrderAside DEF vars, queueVars, guiVars, readVars
<1>3. CASE Connects \/ ConnectFails \/ NoInput \/ NextFrame
  BY <1>3, OrderAside DEF Connects, ConnectFails, NoInput, NextFrame, GuiGoes,
                          queueVars, guiVars, readVars
<1>4. CASE SeesMessage \/ SeesNone
  BY <1>4, OrderAside DEF SeesMessage, SeesNone, Queue!Empty, Queue!call, GuiGoes,
                          guiVars, readVars
<1>5. CASE CloseWindow
  BY <1>5, OrderAside DEF CloseWindow, GuiGoes, queueVars, guiVars, readVars
<1>6. CASE ServerCloses \/ ChunkArrives
  BY <1>6, OrderAside DEF ServerCloses, ChunkArrives, queueVars, guiVars, readVars
<1>7. CASE ReadCrashes
  BY <1>7, OrderAside DEF ReadCrashes, queueVars, guiVars, readVars
<1>8. CASE PopCalled \/ DestroySocket
  <2>1. /\ gui # "exit" /\ UNCHANGED <<m_messages, deqQueue, read, dropped, reader>>
        /\ op'[Reader] = op[Reader] /\ item'[Reader] = item[Reader]
    <3>1. gui # "exit" /\ UNCHANGED <<m_messages, deqQueue, read, dropped, reader>>
      BY <1>8 DEF PopCalled, DestroySocket, Queue!CallPop, Queue!CallClear, Queue!Calls,
                  GuiGoes, guiVars, readVars
    <3>2. \E o, x : op' = [op EXCEPT ![Gui] = o] /\ item' = [item EXCEPT ![Gui] = x]
      BY <1>8 DEF PopCalled, DestroySocket, Queue!CallPop, Queue!CallClear, Queue!Calls
    <3>3. op'[Reader] = op[Reader] /\ item'[Reader] = item[Reader]
      BY <3>2, ClientAssumption
    <3>4. QED
      BY <3>1, <3>3
  <2>2. QED
    BY <2>1, OrderGui
<1>9. CASE PopLocks \/ ClearLocks
  BY <1>9, OrderAside DEF PopLocks, ClearLocks, Queue!Acquire, guiVars, readVars
<1>10. CASE Pops
  <2>1. view[Gui] = deqQueue /\ deqQueue # <<>> /\ gui # "exit"
    BY <1>1, <1>10 DEF Pops, Queue!Take, Queue!From, GuiGoes
  <2>2. op[Gui] = "pop_front"
    BY <1>10 DEF BoundInv, Pops, Queue!Take, Queue!Modify
  <2>3. /\ op' = [op EXCEPT ![Gui] = "none"]
        /\ item' = [item EXCEPT ![Gui] = Head(deqQueue)]
        /\ deqQueue' = Tail(deqQueue)
        /\ UNCHANGED <<read, dropped, reader>>
    BY <1>10, <2>1, <2>2 DEF Pops, Queue!Take, Queue!Modify, readVars
  <2>4. item'[Gui] = Head(deqQueue)
    BY <2>3, QueueFacts
  <2>5. m_messages' = Append(m_messages, Head(deqQueue))
    BY <1>10, <2>4 DEF Pops
  <2>6. PushInv'
    BY <2>3, ClientAssumption DEF OrderInv, PushInv, Pending
  <2>7. UNCHANGED Pending
    BY <2>3, ClientAssumption DEF Pending
  <2>8. UNCHANGED Lines
    BY <1>1, <2>1, <2>3, <2>5, PassedOn, LineTypes DEF OrderInv, Lines
  <2>9. m_messages' \in Seq(Chunks \cup {Own})
    BY <1>1, <2>1, <2>5, HeadTailProperties, AppendProperties DEF OrderInv
  <2>10. QED
    BY <2>1, <2>3, <2>6, <2>7, <2>8, <2>9, OrderUnchanged DEF OrderInv
<1>11. CASE Exit
  <2>1. gui' = "exit" /\ op' = [op EXCEPT ![Gui] = "none"]
        /\ UNCHANGED <<reader, read, dropped, m_messages>>
    BY <1>11 DEF Exit, GuiGoes, Queue!Clear, Queue!Modify, guiVars, readVars
  <2>2. \E x : item' = [item EXCEPT ![Gui] = x]
    BY <1>11 DEF Exit, Queue!Clear, Queue!Modify
  <2>3. op'[Reader] = op[Reader] /\ item'[Reader] = item[Reader]
    BY <2>1, <2>2, ClientAssumption
  <2>4. QED
    BY <2>1, <2>3 DEF OrderInv, PushInv, LinesInOrder, Pending
<1>12. CASE Register
  <2>1. /\ gui = "register" /\ gui' = "frame" /\ reader' = "test"
        /\ UNCHANGED <<m_messages, deqQueue, op, read, dropped>>
    BY <1>12 DEF Register, GuiGoes, queueVars, readVars
  <2>2. reader = "none"
    BY <2>1 DEF LateInv
  <2>3. PushInv' /\ UNCHANGED Pending /\ UNCHANGED Lines
    BY <2>1, <2>2 DEF OrderInv, PushInv, Pending, Lines, ReaderPlaces
  <2>4. QED
    BY <2>1, <2>3, OrderUnchanged DEF OrderInv
<1>13. CASE PressSend
  <2>1. /\ gui # "exit" /\ UNCHANGED <<deqQueue, op, item, read, dropped, reader>>
        /\ m_messages' = Append(m_messages, Own)
    BY <1>13 DEF PressSend, GuiGoes, queueVars, readVars
  <2>2. PushInv' /\ UNCHANGED Pending
    BY <2>1 DEF OrderInv, PushInv, Pending
  <2>3. m_messages' \in Seq(Chunks \cup {Own})
    BY <2>1, AppendProperties DEF OrderInv
  <2>4. m_messages \in Seq(Nat) /\ deqQueue \in Seq(Nat)
    BY <1>1, LineTypes DEF OrderInv
  <2>5. Lines' = Append(m_messages, Own) \o deqQueue
    BY <2>1 DEF Lines
  <2>6. \A i, j \in DOMAIN Lines :
          i < j /\ Own \notin {Lines[i], Lines[j]} => Lines[i] < Lines[j]
    BY <2>1 DEF OrderInv, LinesInOrder
  <2>7. /\ \A i, j \in DOMAIN Lines' :
             i < j /\ Own \notin {Lines'[i], Lines'[j]} => Lines'[i] < Lines'[j]
        /\ Range(Lines') \ {Own} = Range(Lines) \ {Own}
    BY <2>4, <2>5, <2>6, RisingOwn DEF Lines
  <2>8. QED
    BY <2>1, <2>2, <2>3, <2>7, OrderKept DEF OrderInv
<1>14. CASE TestConnected \/ ReadFails
  <2>1. /\ gui # "exit" /\ reader \in {"test", "read"} /\ reader' \in {"read", "done"}
        /\ UNCHANGED <<m_messages, deqQueue, op, read, dropped>>
    BY <1>14 DEF TestConnected, ReadFails, ReaderGoes, queueVars, guiVars, readVars
  <2>2. PushInv' /\ UNCHANGED Pending /\ UNCHANGED Lines
    BY <2>1 DEF OrderInv, PushInv, Pending, Lines, ReaderPlaces
  <2>3. QED
    BY <2>1, <2>2, OrderUnchanged DEF OrderInv
<1>15. CASE ReadsChunk
  <2>1. /\ gui # "exit" /\ reader = "read" /\ reader' = "size" /\ read' = read + 1
        /\ UNCHANGED <<m_messages, deqQueue, op, dropped>>
    BY <1>15 DEF ReadsChunk, ReaderGoes, queueVars, guiVars
  <2>2. /\ dropped \subseteq 1..(read + 1) /\ read + 1 \notin dropped
    BY ClientAssumption DEF OrderInv, PushInv, ReadInv
  <2>3. PushInv' /\ Pending = {} /\ Pending' = {read + 1} /\ UNCHANGED Lines
    BY <2>1, <2>2 DEF OrderInv, PushInv, Pending, Lines, ReaderPlaces
  <2>4. (1..(read + 1)) \ (dropped \cup {read + 1}) = (1..read) \ dropped
    BY ClientAssumption DEF ReadInv
  <2>5. QED
    BY <2>1, <2>3, <2>4 DEF OrderInv, LinesInOrder
<1>16. CASE Drops
  <2>1. /\ gui # "exit" /\ reader = "size" /\ reader' = "test"
        /\ dropped' = dropped \cup {read}
        /\ UNCHANGED <<m_messages, deqQueue, op, read>>
    BY <1>16 DEF Drops, ReaderGoes, queueVars, guiVars
  <2>2. read \in 1..read
    BY <2>1, ClientAssumption DEF ReadInv
  <2>3. PushInv' /\ Pending = {read} /\ Pending' = {} /\ UNCHANGED Lines
    BY <2>1, <2>2 DEF OrderInv, PushInv, Pending, Lines, ReaderPlaces
  <2>4. QED
    BY <2>1, <2>3 DEF OrderInv, LinesInOrder
<1>17. CASE PushCalled
  <2>1. /\ gui # "exit" /\ reader = "size" /\ reader' = "push"
        /\ op' = [op EXCEPT ![Reader] = "push_back"]
        /\ item' = [item EXCEPT ![Reader] = read]
        /\ UNCHANGED <<m_messages, deqQueue, read, dropped>>
    BY <1>17 DEF PushCalled, ReaderGoes, Queue!CallPush, Queue!Calls, guiVars, readVars
  <2>2. op'[Reader] = "push_back" /\ item'[Reader] = read
    BY <1>1, <2>1, QueueFacts
  <2>3. read \in Chunks
    BY <2>1, ClientAssumption DEF ReadInv, Chunks
  <2>4. PushInv' /\ UNCHANGED Pending /\ UNCHANGED Lines
    BY <2>1, <2>2, <2>3 DEF OrderInv, PushInv, Pending, Lines, ReaderPlaces
  <2>5. QED
    BY <2>1, <2>4, OrderUnchanged DEF OrderInv
<1>18. CASE PushLocks
  <2>1. /\ gui # "exit" /\ reader = "push"
        /\ UNCHANGED <<reader, m_messages, read, dropped>>
    BY <1>18 DEF PushLocks, guiVars, readVars
  <2>2. CASE Queue!Acquire(Reader)
    BY <2>1, <2>2, OrderGui DEF Queue!Acquire
  <2>3. CASE Queue!Emplace(Reader)
    <3>1. /\ op[Reader] = "push_back" /\ item[Reader] = read /\ read \in Chunks
          /\ view[Reader] = deqQueue
      BY <1>1, <2>3 DEF Queue!Emplace, Queue!Modify, Queue!From, OrderInv, PushInv
    <3>2. /\ deqQueue' = Append(deqQueue, read)
          /\ op' = [op EXCEPT ![Reader] = "none"]
      BY <2>3, <3>1 DEF Queue!Emplace, Queue!Modify
    <3>3. op'[Reader] = "none"
      BY <1>1, <3>2
    <3>4. PushInv' /\ Pending = {read} /\ Pending' = {}
      BY <2>1, <3>1, <3>3 DEF OrderInv, PushInv, Pending
    <3>5. m_messages \in Seq(Nat) /\ deqQueue \in Seq(Nat) /\ read \in Nat
      BY <1>1, <3>1, LineTypes DEF OrderInv
    <3>6. Lines \in Seq(Nat)
      BY <3>5 DEF Lines
    <3>7. Lines' = Append(Lines, read)
      BY <2>1, <3>2, <3>5, PushedOn DEF Lines
    <3>8. /\ \A i, j \in DOMAIN Lines :
               i < j /\ Own \notin {Lines[i], Lines[j]} => Lines[i] < Lines[j]
          /\ Range(Lines) \ {Own} = (1..read) \ (dropped \cup {read})
      BY <2>1, <3>4 DEF OrderInv, LinesInOrder
    <3>9. \A i \in DOMAIN Lines : Lines[i] < read
      <4>1. ASSUME NEW i \in DOMAIN Lines PROVE Lines[i] < read
        <5>1. Lines[i] \in Range(Lines)
          BY DEF Range
        <5>2. CASE Lines[i] = Own
          BY <3>1, <5>2, ClientAssumption DEF Own, Chunks
        <5>3. CASE Lines[i] # Own
          BY <3>5, <3>8, <5>1, <5>3
        <5>4. QED
          BY <5>2, <5>3
      <4>2. QED
        BY <4>1
    <3>10. /\ \A i, j \in DOMAIN Lines' :
                i < j /\ Own \notin {Lines'[i], Lines'[j]} => Lines'[i] < Lines'[j]
           /\ Range(Lines') = Range(Lines) \cup {read}
      BY <3>5, <3>6, <3>7, <3>8, <3>9, RisingAppend
    <3>11. read # Own /\ read \in 1..read /\ read \notin dropped
      BY <3>1, <3>4, ClientAssumption DEF OrderInv, PushInv, Own, Chunks
    <3>12. Range(Lines') \ {Own} = (1..read) \ dropped
      BY <3>8, <3>10, <3>11
    <3>13. LinesInOrder'
      BY <2>1, <3>4, <3>10, <3>12 DEF LinesInOrder
    <3>14. QED
      BY <2>1, <3>4, <3>13 DEF OrderInv
  <2>4. QED
    BY <1>18, <2>2, <2>3 DEF PushLocks
<1>19. CASE PushReturns
  <2>1. /\ gui # "exit" /\ reader = "push" /\ reader' = "test" /\ at[Reader] = "notify"
        /\ UNCHANGED <<m_messages, deqQueue, op, read, dropped>>
    BY <1>19 DEF PushReturns, ReaderGoes, Queue!Notify, Queue!From, Queue!call, guiVars,
                 readVars
  <2>2. op[Reader] = "none"
    BY <2>1, QueueFacts
  <2>3. PushInv' /\ UNCHANGED Pending /\ UNCHANGED Lines
    BY <2>1, <2>2 DEF OrderInv, PushInv, Pending, Lines, ReaderPlaces
  <2>4. QED
    BY <2>1, <2>3, OrderUnchanged DEF OrderInv
<1>20. QED
  BY <1>2, <1>3, <1>4, <1>5, <1>6, <1>7, <1>8, <1>9, <1>10, <1>11, <1>12, <1>13,
     <1>14, <1>15, <1>16, <1>17, <1>18, <1>19
  DEF Next, Connect, Drain, Input, Destroy, ReaderStep

LEMMA OrderInvariant == Spec => []OrderInv
<1>1. Init => OrderInv
  <2>1. SUFFICES ASSUME Init PROVE OrderInv
    OBVIOUS
  <2>2. /\ reader = "none" /\ op[Reader] = "none" /\ read = 0 /\ dropped = {}
        /\ m_messages = <<>> /\ deqQueue = <<>>
    <3>1. op[Reader] = "none" /\ deqQueue = <<>>
      BY <2>1, QueueThreads DEF Init, Queue!Init
    <3>2. QED
      BY <2>1, <3>1 DEF Init
  <2>3. Lines = <<>> /\ 1..read = {}
    BY <2>2 DEF Lines
  <2>4. DOMAIN Lines = {} /\ Range(Lines) = {}
    BY <2>3 DEF Range
  <2>5. Pending = {}
    BY <2>2 DEF Pending
  <2>6. QED
    BY <2>2, <2>3, <2>4, <2>5, EmptySeq, ClientAssumption DEF OrderInv, PushInv, LinesInOrder, ReaderPlaces
<1>2. QED
  BY <1>1, OrderStep, ReadInvariant, BoundInvariant, LateInvariant, QueueInvariant, PTL
  DEF Spec

\* The window shows the chunks the reader kept, each once and in the order of
\* their arrival, for every cap and every number of chunks.
THEOREM ClientLinesInOrder == Spec => []LinesInOrder
<1>1. OrderInv => LinesInOrder
  BY DEF OrderInv
<1>2. QED
  BY <1>1, OrderInvariant, PTL

-----------------------------------------------------------------------------
(* The types.                                                               *)

LEMMA TypeStep ==
  TypeInv /\ ReadInv /\ [Next]_vars => TypeInv'
<1> SUFFICES ASSUME TypeInv, ReadInv, [Next]_vars PROVE TypeInv'
  OBVIOUS
<1> USE ClientAssumption DEF TypeInv, GuiPlaces
<1>1. CASE UNCHANGED vars
  BY <1>1 DEF vars, guiVars, readVars
<1>2. CASE Connects \/ ConnectFails
  BY <1>2 DEF Connects, ConnectFails, GuiGoes, guiVars, readVars
<1>3. CASE Register
  BY <1>3 DEF Register, GuiGoes, SendMessage, readVars
<1>4. CASE PressSend
  <2>1. presses' \in 0..MaxSends
    BY <1>4 DEF PressSend
  <2>2. QED
    BY <1>4, <2>1 DEF PressSend, GuiGoes, SendMessage, readVars
<1>5. CASE Drain
  BY <1>5 DEF Drain, SeesMessage, SeesNone, PopCalled, PopLocks, Pops, GuiGoes, guiVars,
              readVars
<1>6. CASE NoInput \/ NextFrame \/ CloseWindow \/ Destroy
  BY <1>6 DEF NoInput, NextFrame, CloseWindow, Destroy, DestroySocket, ClearLocks, Exit,
              GuiGoes, guiVars, readVars
<1>7. CASE Drops
  <2>1. read \in Chunks
    BY <1>7 DEF Drops, ReaderGoes, ReadInv, Chunks
  <2>2. QED
    BY <1>7, <2>1 DEF Drops, ReaderGoes, guiVars
<1>8. CASE TestConnected \/ ReadsChunk \/ ReadFails \/ ReadCrashes \/ PushCalled
           \/ PushLocks \/ PushReturns
  BY <1>8 DEF TestConnected, ReadsChunk, ReadFails, ReadCrashes, PushCalled, PushLocks,
              PushReturns, ReaderGoes, guiVars, readVars
<1>9. CASE ChunkArrives \/ ServerCloses
  BY <1>9 DEF ChunkArrives, ServerCloses, guiVars, readVars
<1>10. QED
  BY <1>1, <1>2, <1>3, <1>4, <1>5, <1>6, <1>7, <1>8, <1>9
  DEF Next, Connect, Input, ReaderStep

\* Every variable keeps its type, those of the queue included.
THEOREM ClientTypeCorrect == Spec => []TypeOK
<1>1. Init => TypeInv
  <2>1. 0 \in 0..MaxSends
    BY ClientAssumption
  <2>2. QED
    BY <2>1 DEF Init, TypeInv, GuiPlaces
<1>2. QueueTheory!PopInv => Queue!TypeOK
  BY DEF QueueTheory!PopInv, QueueTheory!TypeOK, Queue!TypeOK, QueueTheory!Threads,
         Queue!Threads, QueueTheory!Places, Queue!Places, QueueTheory!Operations,
         Queue!Operations, QueueTheory!Pushes, Queue!Pushes, QueueTheory!Pops, Queue!Pops
<1>3. Queue!TypeOK /\ ReadInv /\ OrderInv /\ WireInv /\ LateInv /\ TypeInv => TypeOK
  BY DEF TypeOK, ReadInv, OrderInv, PushInv, WireInv, LateInv, TypeInv
<1>4. QED
  BY <1>1, <1>2, <1>3, TypeStep, QueueInvariant, ReadInvariant, OrderInvariant,
     WireInvariant, LateInvariant, PTL
  DEF Spec

=============================================================================
