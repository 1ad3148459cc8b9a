--------------------------- MODULE ChatSystemProofs ---------------------------
(***************************************************************************)
(* The server and its clients together: what the server promises by itself *)
(* it promises to these clients, and their windows agree.                  *)
(***************************************************************************)
EXTENDS ChatSystem, SequenceTheorems, TLAPS

\* The proofs about the server, for this server.
ServerTheory == INSTANCE ChatServerStory

\* What WindowsAgree says of one client, and what its proof needs.
Sorted(chunks) ==
  /\ \A chunk \in Range(chunks) : Increasing(chunk)
  /\ \A i, j \in DOMAIN chunks :
       i < j => \A x \in Range(chunks[i]), y \in Range(chunks[j]) : x < y

Lines(chunks) == UNION {Range(chunk) : chunk \in Range(chunks)}

WindowInv(c) ==
  /\ shown[c] \in Seq(Nat) /\ queue[c] \in Seq(Seq(Nat))
  /\ seen[c] \in 0..Len(inbox[c])
  /\ dropped[c] \subseteq HasRead(c)
  /\ Sorted(Received(c))
  /\ Lines(Received(c)) = HasRead(c) \ dropped[c]

SystemInv ==
  /\ shown \in [Conns -> Seq(Nat)] /\ queue \in [Conns -> Seq(Seq(Nat))]
  /\ DOMAIN dropped = Conns
  /\ \A c \in Conns : WindowInv(c)

-----------------------------------------------------------------------------
(* ChatServerStory has a copy of ChatServer of its own; the two are the     *)
(* same.                                                                    *)

LEMMA SameAssumption == ServerTheory!ConstantsAssumption
<1>1. Server!ConstantsAssumption
  BY SystemAssumption
<1>2. QED
  BY <1>1, Zenon
  DEF Server!ConstantsAssumption, ServerTheory!ConstantsAssumption, Server!Threads,
      ServerTheory!Threads, Server!Message, ServerTheory!Message, Server!FaultKinds,
      ServerTheory!FaultKinds

LEMMA SameInit == ASSUME Server!Init PROVE ServerTheory!Init
BY Zenon DEF Server!Init, ServerTheory!Init, Server!Idle, ServerTheory!Idle, Server!Threads,
      ServerTheory!Threads, Server!FrameAt, ServerTheory!FrameAt

LEMMA SameAccepting == ASSUME Server!Accepting PROVE ServerTheory!Accepting
BY Zenon DEF Server!Accepting, ServerTheory!Accepting, Server!Start, ServerTheory!Start,
      Server!At, ServerTheory!At, Server!Top, ServerTheory!Top, Server!Last,
      ServerTheory!Last, Server!AcceptConnections, ServerTheory!AcceptConnections,
      Server!Return, ServerTheory!Return, Server!Front, ServerTheory!Front, Server!net,
      ServerTheory!net, Server!hist, ServerTheory!hist, Server!OnAccept,
      ServerTheory!OnAccept, Server!IoIdle, ServerTheory!IoIdle, Server!Push,
      ServerTheory!Push, Server!FrameAt, ServerTheory!FrameAt, Server!data,
      ServerTheory!data, Server!OnAcceptError, ServerTheory!OnAcceptError,
      Server!RejectClient, ServerTheory!RejectClient, Server!CanLock,
      ServerTheory!CanLock, Server!Full, ServerTheory!Full, Server!CloseSockets,
      ServerTheory!CloseSockets, Server!Armed, ServerTheory!Armed, Server!Eof,
      ServerTheory!Eof, Server!AdmitClient, ServerTheory!AdmitClient, Server!Goto,
      ServerTheory!Goto, Server!ReplaceAt, ServerTheory!ReplaceAt, Server!asio,
      ServerTheory!asio, Server!PushClient, ServerTheory!PushClient, Server!GreetClient,
      ServerTheory!GreetClient, Server!ReadClientMessage, ServerTheory!ReadClientMessage,
      Server!GreetThrows, ServerTheory!GreetThrows, Server!WriteFails,
      ServerTheory!WriteFails

LEMMA SameDirect == ASSUME Server!Direct PROVE ServerTheory!Direct
BY Zenon DEF Server!Direct, ServerTheory!Direct, Server!StartDirect, ServerTheory!StartDirect,
      Server!Top, ServerTheory!Top, Server!Last, ServerTheory!Last, Server!FindClient,
      ServerTheory!FindClient, Server!SelectInSeq, ServerTheory!SelectInSeq, Server!Min,
      ServerTheory!Min, Server!At, ServerTheory!At, Server!Lock, ServerTheory!Lock,
      Server!CanLock, ServerTheory!CanLock, Server!Goto, ServerTheory!Goto,
      Server!ReplaceAt, ServerTheory!ReplaceAt, Server!net, ServerTheory!net, Server!asio,
      ServerTheory!asio, Server!data, ServerTheory!data, Server!SendDirect,
      ServerTheory!SendDirect, Server!WriteDirect, ServerTheory!WriteDirect,
      Server!CanWrite, ServerTheory!CanWrite, Server!Deliver, ServerTheory!Deliver,
      Server!WriteFails, ServerTheory!WriteFails, Server!Target, ServerTheory!Target,
      Server!Unlock, ServerTheory!Unlock, Server!Return, ServerTheory!Return,
      Server!Front, ServerTheory!Front, Server!SendNotFound, ServerTheory!SendNotFound

LEMMA SameBroadcasting == ASSUME NEW t, Server!Broadcasting(t) PROVE ServerTheory!Broadcasting(t)
BY Zenon DEF Server!Broadcasting, ServerTheory!Broadcasting, Server!StartBroadcast,
      ServerTheory!StartBroadcast, Server!Top, ServerTheory!Top, Server!Last,
      ServerTheory!Last, Server!At, ServerTheory!At, Server!Lock, ServerTheory!Lock,
      Server!CanLock, ServerTheory!CanLock, Server!Range, ServerTheory!Range, Server!Goto,
      ServerTheory!Goto, Server!ReplaceAt, ServerTheory!ReplaceAt, Server!net,
      ServerTheory!net, Server!asio, ServerTheory!asio, Server!data, ServerTheory!data,
      Server!SkipExcluded, ServerTheory!SkipExcluded, Server!Sending,
      ServerTheory!Sending, Server!Excluded, ServerTheory!Excluded, Server!Target,
      ServerTheory!Target, Server!Advanced, ServerTheory!Advanced, Server!hist,
      ServerTheory!hist, Server!SendLine, ServerTheory!SendLine, Server!CanWrite,
      ServerTheory!CanWrite, Server!Deliver, ServerTheory!Deliver, Server!SendLineFails,
      ServerTheory!SendLineFails, Server!WriteFails, ServerTheory!WriteFails, Server!Call,
      ServerTheory!Call, Server!FrameAt, ServerTheory!FrameAt, Server!EndBroadcast,
      ServerTheory!EndBroadcast, Server!Unlock, ServerTheory!Unlock, Server!Return,
      ServerTheory!Return, Server!Front, ServerTheory!Front, Server!RemoveClient,
      ServerTheory!RemoveClient, Server!EraseClient, ServerTheory!EraseClient,
      Server!CloseSockets, ServerTheory!CloseSockets, Server!Armed, ServerTheory!Armed,
      Server!Eof, ServerTheory!Eof, Server!RemoveFirst, ServerTheory!RemoveFirst,
      Server!RemoveAt, ServerTheory!RemoveAt, Server!SelectInSeq,
      ServerTheory!SelectInSeq, Server!Min, ServerTheory!Min

LEMMA SameReading == ASSUME NEW c, Server!Reading(c) PROVE ServerTheory!Reading(c)
BY Zenon DEF Server!Reading, ServerTheory!Reading, Server!OnReadError, ServerTheory!OnReadError,
      Server!ReadDone, ServerTheory!ReadDone, Server!IoIdle, ServerTheory!IoIdle,
      Server!Idle, ServerTheory!Idle, Server!Push, ServerTheory!Push, Server!FrameAt,
      ServerTheory!FrameAt, Server!net, ServerTheory!net, Server!data, ServerTheory!data,
      Server!hist, ServerTheory!hist, Server!OnBlank, ServerTheory!OnBlank,
      Server!ReadClientMessage, ServerTheory!ReadClientMessage, Server!Armed,
      ServerTheory!Armed, Server!Eof, ServerTheory!Eof, Server!OnUnparsable,
      ServerTheory!OnUnparsable, Server!OnOddMessage, ServerTheory!OnOddMessage,
      Server!OnFirstText, ServerTheory!OnFirstText, Server!Handle, ServerTheory!Handle,
      Server!OnText, ServerTheory!OnText, Server!OnDirectMessage,
      ServerTheory!OnDirectMessage

LEMMA SameCompletion == ASSUME NEW c, Server!Completion(c) PROVE ServerTheory!Completion(c)
BY Zenon DEF Server!Completion, ServerTheory!Completion, Server!AcceptCompletes,
      ServerTheory!AcceptCompletes, Server!net, ServerTheory!net, Server!data,
      ServerTheory!data, Server!hist, ServerTheory!hist, Server!ReadCompletes,
      ServerTheory!ReadCompletes, Server!Armed, ServerTheory!Armed, Server!Chunk,
      ServerTheory!Chunk, Server!Solid, ServerTheory!Solid, Server!Blank,
      ServerTheory!Blank, Server!Raw, ServerTheory!Raw, Server!ReadSplits,
      ServerTheory!ReadSplits, Server!ReadFails, ServerTheory!ReadFails, Server!Eof,
      ServerTheory!Eof

LEMMA SamePeers == ASSUME NEW c, Server!Peers(c) PROVE ServerTheory!Peers(c)
BY Zenon DEF Server!Peers, ServerTheory!Peers, Server!PeerConnect, ServerTheory!PeerConnect,
      Server!asio, ServerTheory!asio, Server!data, ServerTheory!data, Server!hist,
      ServerTheory!hist, Server!PeerRead, ServerTheory!PeerRead, Server!PeerLeave,
      ServerTheory!PeerLeave, Server!PeerSend, ServerTheory!PeerSend

LEMMA SameNext == ASSUME Server!Next PROVE ServerTheory!Next
<1>1. /\ Server!Rearm => ServerTheory!Rearm
      /\ Server!RunReturns => ServerTheory!RunReturns
      /\ Server!AcceptFails => ServerTheory!AcceptFails
  BY Zenon DEF Server!Rearm, ServerTheory!Rearm, Server!At, ServerTheory!At, Server!Top,
        ServerTheory!Top, Server!Last, ServerTheory!Last, Server!ReadClientMessage,
        ServerTheory!ReadClientMessage, Server!Armed, ServerTheory!Armed, Server!Eof,
        ServerTheory!Eof, Server!Return, ServerTheory!Return, Server!Front,
        ServerTheory!Front, Server!net, ServerTheory!net, Server!data, ServerTheory!data,
        Server!hist, ServerTheory!hist, Server!RunReturns, ServerTheory!RunReturns,
        Server!IoIdle, ServerTheory!IoIdle, Server!Idle, ServerTheory!Idle, Server!asio,
        ServerTheory!asio, Server!AcceptFails, ServerTheory!AcceptFails
<1>2. ASSUME NEW t
      PROVE  /\ Server!Shutdown(t) => ServerTheory!Shutdown(t)
             /\ Server!CallBroadcast(t) => ServerTheory!CallBroadcast(t)
             /\ Server!CallShutdown(t) => ServerTheory!CallShutdown(t)
  BY Zenon DEF Server!Shutdown, ServerTheory!Shutdown, Server!At, ServerTheory!At, Server!Top,
        ServerTheory!Top, Server!Last, ServerTheory!Last, Server!CanLock,
        ServerTheory!CanLock, Server!CloseSockets, ServerTheory!CloseSockets, Server!Armed,
        ServerTheory!Armed, Server!Eof, ServerTheory!Eof, Server!Range, ServerTheory!Range,
        Server!Return, ServerTheory!Return, Server!Front, ServerTheory!Front, Server!net,
        ServerTheory!net, Server!hist, ServerTheory!hist, Server!CallBroadcast,
        ServerTheory!CallBroadcast, Server!Push, ServerTheory!Push, Server!FrameAt,
        ServerTheory!FrameAt, Server!asio, ServerTheory!asio, Server!data,
        ServerTheory!data, Server!CallShutdown, ServerTheory!CallShutdown
<1>3. QED
  BY <1>1, <1>2, SameAccepting, SameDirect, SameBroadcasting, SameReading,
     SameCompletion, SamePeers
  DEF Server!Next, ServerTheory!Next, Server!IoStep, ServerTheory!IoStep,
      Server!CallerStep, ServerTheory!CallerStep

LEMMA SameServer ==
  /\ Server!Init => ServerTheory!Init
  /\ [Server!Next]_(Server!vars) => [ServerTheory!Next]_(ServerTheory!vars)
BY SameInit, SameNext
DEF Server!vars, ServerTheory!vars, Server!net, ServerTheory!net, Server!asio,
    ServerTheory!asio, Server!data, ServerTheory!data, Server!hist, ServerTheory!hist

\* Every step of the system is a step of the server's specification, or one the
\* server does not notice.
LEMMA SystemStep == [Next]_vars => [Server!Next]_(Server!vars)
<1> SUFFICES ASSUME [Next]_vars PROVE [Server!Next]_(Server!vars)
  OBVIOUS
<1>1. ASSUME UNCHANGED serverVars PROVE UNCHANGED Server!vars
  BY <1>1 DEF serverVars, Server!vars, Server!net, Server!asio, Server!data, Server!hist
<1>2. CASE UNCHANGED vars
  BY <1>1, <1>2 DEF vars
<1>3. CASE ServerStep
  BY <1>3 DEF ServerStep, Server!Next
<1>4. ASSUME NEW c \in Conns, WindowStep(c) PROVE [Server!Next]_(Server!vars)
  <2>1. CASE Sends(c)
    BY <2>1 DEF Sends, Server!Next, Server!Peers
  <2>2. CASE SendIsLost(c) \/ SendFails(c) \/ ShowsChunk(c) \/ Drained(c) \/ NoInput(c)
    BY <1>1, <2>2 DEF SendIsLost, SendFails, ShowsChunk, Drained, NoInput
  <2>3. QED
    BY <1>4, <2>1, <2>2 DEF WindowStep
<1>5. ASSUME NEW c \in Conns, UserStep(c) PROVE [Server!Next]_(Server!vars)
  <2>1. CASE Connect(c) \/ CloseWindow(c)
    BY <2>1 DEF Connect, CloseWindow, Server!Next, Server!Peers
  <2>2. CASE ConnectFails(c) \/ PressSend(c)
    BY <1>1, <2>2 DEF ConnectFails, PressSend
  <2>3. QED
    BY <1>5, <2>1, <2>2 DEF UserStep
<1>6. ASSUME NEW c \in Conns, ReaderStep(c) PROVE [Server!Next]_(Server!vars)
  <2>1. CASE ReadsChunk(c)
    BY <2>1 DEF ReadsChunk, Server!Next, Server!Peers
  <2>2. CASE TestConnected(c) \/ ReadFails(c)
    BY <1>1, <2>2 DEF TestConnected, ReadFails
  <2>3. QED
    BY <1>6, <2>1, <2>2 DEF ReaderStep
<1>7. QED
  BY <1>2, <1>3, <1>4, <1>5, <1>6 DEF Next

\* With the client program in the place of the peers the server behaves as
\* ChatServer says, so that every theorem about it holds in the system.
THEOREM SystemServes == Spec => Server!Spec
<1>1. Init => Server!Init
  BY DEF Init
<1>2. QED
  BY <1>1, SystemStep, PTL DEF Spec, Server!Spec

LEMMA SystemTheory == Spec => ServerTheory!Spec
<1>1. Server!Spec => ServerTheory!Spec
  BY SameServer, PTL DEF Server!Spec, ServerTheory!Spec
<1>2. QED
  BY <1>1, SystemServes, PTL

\* Among them: the system, with all its blocking threads, is one room in which
\* lines are said one after the other.
THEOREM SystemIsRoom == Spec => ServerTheory!RoomImplemented
<1>1. QED
  BY SystemTheory, SameAssumption, ServerTheory!RoomCorrect, PTL

LEMMA SystemFacts == Spec => [](ServerTheory!TypeOK /\ ServerTheory!TotalOrder)
<1>1. QED
  BY SystemTheory, SameAssumption, ServerTheory!TypeCorrect,
     ServerTheory!TotalOrderCorrect, PTL

-----------------------------------------------------------------------------
(* Sequences of chunks.                                                     *)

LEMMA InRange ==
  ASSUME NEW f, NEW i \in DOMAIN f
  PROVE  f[i] \in Range(f)
BY DEF Range

LEMMA InLines ==
  ASSUME NEW chunks
  PROVE  \A x : x \in Lines(chunks) <=> \E i \in DOMAIN chunks : x \in Range(chunks[i])
BY DEF Lines, Range

\* Showing the next chunk.
LEMMA SortedJoined ==
  ASSUME NEW s \in Seq(Nat), NEW q \in Seq(Seq(Nat)), q # <<>>, Sorted(<<s>> \o q)
  PROVE  /\ s \o Head(q) \in Seq(Nat) /\ Tail(q) \in Seq(Seq(Nat))
         /\ Sorted(<<s \o Head(q)>> \o Tail(q))
         /\ Lines(<<s \o Head(q)>> \o Tail(q)) = Lines(<<s>> \o q)
<1> DEFINE r == <<s>> \o q
           h == s \o Head(q)
           t == <<h>> \o Tail(q)
           n == Len(q)
           k == Len(s)
           m == Len(Head(q))
<1>1. /\ n \in Nat /\ n > 0 /\ Head(q) \in Seq(Nat) /\ k \in Nat /\ m \in Nat
      /\ Tail(q) \in Seq(Seq(Nat)) /\ h \in Seq(Nat)
  BY LenProperties, EmptySeq, HeadTailProperties, ConcatProperties
<1>2. /\ DOMAIN r = 1..(n + 1) /\ r[1] = s /\ r[2] = Head(q)
      /\ DOMAIN t = 1..n /\ t[1] = h
      /\ \A i \in 2..n : t[i] = r[i + 1]
  BY <1>1
<1>3. /\ DOMAIN s = 1..k /\ DOMAIN Head(q) = 1..m /\ DOMAIN h = 1..(k + m)
      /\ \A i \in 1..k : h[i] = s[i] /\ h[i] \in Nat
      /\ \A i \in 1..m : h[k + i] = Head(q)[i] /\ h[k + i] \in Nat
  BY <1>1, LenProperties, ConcatProperties, ElementOfSeq
<1>4. Sorted(r)
  OBVIOUS
<1>5. h \in Seq(Nat) /\ Tail(q) \in Seq(Seq(Nat))
  BY <1>1
<1> HIDE DEF r, h, t, n, k, m
<1>6. Range(h) = Range(s) \cup Range(Head(q))
  <2>1. Range(h) \subseteq Range(s) \cup Range(Head(q))
    <3>1. ASSUME NEW i \in 1..(k + m) PROVE h[i] \in Range(s) \cup Range(Head(q))
      <4>1. CASE i \in 1..k
        BY <1>3, <4>1 DEF Range
      <4>2. CASE i \notin 1..k
        <5>1. i - k \in 1..m /\ k + (i - k) = i
          BY <1>1, <4>2
        <5>2. h[i] = Head(q)[i - k]
          BY <1>3, <5>1
        <5>3. QED
          BY <1>3, <5>1, <5>2 DEF Range
      <4>3. QED
        BY <4>1, <4>2
    <3>2. QED
      BY <1>3, <3>1 DEF Range
  <2>2. Range(s) \subseteq Range(h)
    <3>1. \A i \in 1..k : i \in 1..(k + m)
      BY <1>1
    <3>2. QED
      BY <1>3, <3>1 DEF Range
  <2>3. Range(Head(q)) \subseteq Range(h)
    <3>1. \A i \in 1..m : k + i \in 1..(k + m)
      BY <1>1
    <3>2. QED
      BY <1>3, <3>1 DEF Range
  <2>4. QED
    BY <2>1, <2>2, <2>3
<1>7. Increasing(h)
  <2>0. 1 \in DOMAIN r /\ 2 \in DOMAIN r
    BY <1>1, <1>2
  <2>1. Increasing(s) /\ Increasing(Head(q))
    BY <1>2, <1>4, <2>0, InRange DEF Sorted
  <2>2. \A x \in Range(s), y \in Range(Head(q)) : x < y
    <3>1. \A i, j \in DOMAIN r :
             i < j => \A x \in Range(r[i]), y \in Range(r[j]) : x < y
      BY <1>4 DEF Sorted
    <3>2. \A x \in Range(r[1]), y \in Range(r[2]) : x < y
      <4>1. 1 < 2
        OBVIOUS
      <4>2. QED
        BY <2>0, <3>1, <4>1, Zenon
    <3>3. QED
      BY <1>2, <3>2
  <2>3. ASSUME NEW i \in 1..(k + m), NEW j \in 1..(k + m), i < j PROVE h[i] < h[j]
    <3>1. CASE j \in 1..k
      <4>1. i \in 1..k
        BY <1>1, <2>3, <3>1
      <4>2. QED
        BY <1>3, <2>1, <2>3, <3>1, <4>1 DEF Increasing
    <3>2. CASE i \notin 1..k
      <4>1. /\ i - k \in 1..m /\ j - k \in 1..m /\ i - k < j - k
            /\ k + (i - k) = i /\ k + (j - k) = j
        BY <1>1, <2>3, <3>2
      <4>2. h[i] = Head(q)[i - k] /\ h[j] = Head(q)[j - k]
        BY <1>3, <4>1
      <4>3. QED
        BY <1>3, <2>1, <4>1, <4>2 DEF Increasing
    <3>3. CASE i \in 1..k /\ j \notin 1..k
      <4>1. j - k \in 1..m /\ k + (j - k) = j
        BY <1>1, <3>3
      <4>2. h[i] = s[i] /\ h[j] = Head(q)[j - k]
        BY <1>3, <3>3, <4>1
      <4>3. h[i] \in Range(s) /\ h[j] \in Range(Head(q))
        BY <1>3, <3>3, <4>1, <4>2 DEF Range
      <4>4. QED
        BY <2>2, <4>3
    <3>4. QED
      BY <3>1, <3>2, <3>3
  <2>4. QED
    BY <1>3, <2>3 DEF Increasing
<1>8. \A chunk \in Range(t) : Increasing(chunk)
  <2>1. ASSUME NEW i \in 2..n PROVE Increasing(t[i])
    <3>1. i + 1 \in DOMAIN r
      BY <1>1, <1>2
    <3>2. QED
      BY <1>2, <1>4, <3>1, InRange DEF Sorted
  <2>2. \A i \in 1..n : i = 1 \/ i \in 2..n
    BY <1>1
  <2>3. QED
    BY <1>2, <1>7, <2>1, <2>2 DEF Range
<1>9. ASSUME NEW i \in DOMAIN t, NEW j \in DOMAIN t, i < j,
             NEW x \in Range(t[i]), NEW y \in Range(t[j])
      PROVE  x < y
  <2>1. j \in 2..n /\ j + 1 \in DOMAIN r /\ t[j] = r[j + 1]
    BY <1>1, <1>2, <1>9
  <2>2. CASE i = 1
    <3>1. x \in Range(r[1]) \/ x \in Range(r[2])
      BY <1>2, <1>6, <1>9, <2>2
    <3>2. 1 \in DOMAIN r /\ 2 \in DOMAIN r /\ 1 < j + 1 /\ 2 < j + 1
      BY <1>1, <1>2, <2>1
    <3>3. QED
      BY <1>4, <1>9, <2>1, <3>1, <3>2 DEF Sorted
  <2>3. CASE i # 1
    <3>1. i \in 2..n /\ i + 1 \in DOMAIN r /\ i + 1 < j + 1
      BY <1>1, <1>2, <1>9, <2>1, <2>3
    <3>2. t[i] = r[i + 1]
      BY <1>2, <3>1
    <3>3. QED
      BY <1>4, <1>9, <2>1, <3>1, <3>2 DEF Sorted
  <2>4. QED
    BY <2>2, <2>3
<1>10. Lines(t) = Lines(r)
  <2>1. Lines(t) \subseteq Lines(r)
    <3>1. ASSUME NEW i \in DOMAIN t, NEW x \in Range(t[i]) PROVE x \in Lines(r)
      <4>1. CASE i = 1
        <5>1. x \in Range(r[1]) \/ x \in Range(r[2])
          BY <1>2, <1>6, <3>1, <4>1
        <5>2. 1 \in DOMAIN r /\ 2 \in DOMAIN r
          BY <1>1, <1>2
        <5>3. QED
          BY <5>1, <5>2, InLines
      <4>2. CASE i # 1
        <5>1. i \in 2..n /\ i + 1 \in DOMAIN r
          BY <1>1, <1>2, <3>1, <4>2
        <5>2. t[i] = r[i + 1]
          BY <1>2, <5>1
        <5>3. QED
          BY <3>1, <5>1, <5>2, InLines
      <4>3. QED
        BY <4>1, <4>2
    <3>2. QED
      BY <3>1, InLines
  <2>2. Lines(r) \subseteq Lines(t)
    <3>1. ASSUME NEW i \in DOMAIN r, NEW x \in Range(r[i]) PROVE x \in Lines(t)
      <4>1. CASE i \in {1, 2}
        <5>1. x \in Range(t[1]) /\ 1 \in DOMAIN t
          BY <1>1, <1>2, <1>6, <3>1, <4>1
        <5>2. QED
          BY <5>1, InLines
      <4>2. CASE i \notin {1, 2}
        <5>1. i - 1 \in DOMAIN t /\ i - 1 \in 2..n /\ (i - 1) + 1 = i
          BY <1>1, <1>2, <4>2, SMTT(30)
        <5>2. t[i - 1] = r[i]
          BY <1>2, <5>1
        <5>3. QED
          BY <3>1, <5>1, <5>2, InLines
      <4>3. QED
        BY <4>1, <4>2
    <3>2. QED
      BY <3>1, InLines
  <2>3. QED
    BY <2>1, <2>2
<1>11. Sorted(t)
  BY <1>8, <1>9 DEF Sorted
<1>12. QED
  BY <1>5, <1>10, <1>11 DEF r, t, h

\* Queueing a chunk of later lines.
LEMMA SortedAdded ==
  ASSUME NEW r \in Seq(Seq(Nat)), NEW chunk \in Seq(Nat), Sorted(r), Increasing(chunk),
         \A x \in Lines(r), y \in Range(chunk) : x < y
  PROVE  /\ Sorted(Append(r, chunk))
         /\ Lines(Append(r, chunk)) = Lines(r) \cup Range(chunk)
<1> DEFINE t == Append(r, chunk)
           n == Len(r)
<1>1. /\ n \in Nat /\ DOMAIN r = 1..n /\ DOMAIN t = 1..(n + 1)
      /\ \A i \in 1..n : t[i] = r[i]
      /\ t[n + 1] = chunk
  BY LenProperties, AppendProperties
<1> HIDE DEF t, n
<1>2. Range(t) = Range(r) \cup {chunk}
  <2>1. \A i \in DOMAIN t : i \in DOMAIN r \/ i = n + 1
    BY <1>1
  <2>2. n + 1 \in DOMAIN t /\ \A i \in DOMAIN r : i \in DOMAIN t
    BY <1>1
  <2>3. QED
    BY <1>1, <2>1, <2>2 DEF Range
<1>3. \A c \in Range(t) : Increasing(c)
  BY <1>2 DEF Sorted
<1>4. Lines(t) = Lines(r) \cup Range(chunk)
  BY <1>2 DEF Lines
<1>5. ASSUME NEW i \in DOMAIN t, NEW j \in DOMAIN t, i < j,
             NEW x \in Range(t[i]), NEW y \in Range(t[j])
      PROVE  x < y
  <2>1. i \in DOMAIN r /\ t[i] = r[i]
    BY <1>1, <1>5
  <2>2. CASE j \in DOMAIN r
    BY <1>1, <1>5, <2>1, <2>2 DEF Sorted
  <2>3. CASE j = n + 1
    <3>1. x \in Lines(r)
      BY <1>5, <2>1, InLines
    <3>2. QED
      BY <1>1, <1>5, <2>3, <3>1
  <2>4. j \in DOMAIN r \/ j = n + 1
    BY <1>1
  <2>5. QED
    BY <2>2, <2>3, <2>4
<1>6. QED
  BY <1>3, <1>4, <1>5 DEF Sorted, t

-----------------------------------------------------------------------------
(* The windows.                                                             *)

\* The server only appends to what it has written to a connection.
LEMMA ServerWrites ==
  ASSUME ServerStep, ServerTheory!TypeOK, ServerTheory!TypeOK', NEW c \in Conns
  PROVE  /\ UNCHANGED <<seen[c], clientVars>>
         /\ Len(inbox[c]) \in Nat /\ Len(inbox'[c]) \in Nat
         /\ Len(inbox[c]) <= Len(inbox'[c])
         /\ \A i \in 1..Len(inbox[c]) : inbox'[c][i] = inbox[c][i]
<1>1. UNCHANGED <<seen, clientVars>>
  BY DEF ServerStep, Server!IoStep, Server!CallerStep, Server!CallBroadcast,
         Server!CallShutdown, Server!Completion, Server!AcceptFails, Server!Accepting,
         Server!Direct, Server!Rearm, Server!RunReturns, Server!Broadcasting,
         Server!Reading, Server!Shutdown,
         Server!Start, Server!OnAccept, Server!OnAcceptError, Server!RejectClient,
         Server!AdmitClient, Server!PushClient, Server!GreetClient, Server!GreetThrows,
         Server!StartDirect, Server!SendDirect, Server!SendNotFound,
         Server!StartBroadcast, Server!SkipExcluded, Server!SendLine,
         Server!SendLineFails, Server!EndBroadcast, Server!RemoveClient,
         Server!EraseClient, Server!OnReadError, Server!OnBlank, Server!OnUnparsable,
         Server!OnOddMessage, Server!OnFirstText, Server!OnText,
         Server!OnDirectMessage, Server!Handle,
         Server!AcceptCompletes, Server!ReadCompletes, Server!ReadSplits,
         Server!ReadFails, Server!net
<1>2. UNCHANGED inbox \/ \E d, k : Server!Deliver(d, k)
  BY DEF ServerStep, Server!IoStep, Server!CallerStep, Server!CallBroadcast,
         Server!CallShutdown, Server!Completion, Server!AcceptFails, Server!Accepting,
         Server!Direct, Server!Rearm, Server!RunReturns, Server!Broadcasting,
         Server!Reading, Server!Shutdown,
         Server!Start, Server!OnAccept, Server!OnAcceptError, Server!RejectClient,
         Server!AdmitClient, Server!PushClient, Server!GreetClient, Server!GreetThrows,
         Server!StartDirect, Server!SendDirect, Server!SendNotFound,
         Server!StartBroadcast, Server!SkipExcluded, Server!SendLine,
         Server!SendLineFails, Server!EndBroadcast, Server!RemoveClient,
         Server!EraseClient, Server!OnReadError, Server!OnBlank, Server!OnUnparsable,
         Server!OnOddMessage, Server!OnFirstText, Server!OnText,
         Server!OnDirectMessage, Server!Handle,
         Server!AcceptCompletes, Server!ReadCompletes, Server!ReadSplits,
         Server!ReadFails, Server!hist, Server!WriteDirect
<1>3. inbox \in [Conns -> Seq(Nat)] /\ inbox' \in [Conns -> Seq(Nat)]
  BY DEF ServerTheory!TypeOK
<1>4. Len(inbox[c]) \in Nat /\ Len(inbox'[c]) \in Nat
  BY <1>3, LenProperties
<1>5. inbox'[c] = inbox[c] \/ \E k : inbox'[c] = Append(inbox[c], k)
  BY <1>2, <1>3 DEF Server!Deliver
<1>6. QED
  BY <1>1, <1>3, <1>4, <1>5

\* What a client has read stays as it was read.
LEMMA ReadKept ==
  ASSUME NEW c \in Conns, WindowInv(c),
         UNCHANGED <<seen[c], shown[c], queue[c], dropped[c]>>,
         Len(inbox[c]) \in Nat, Len(inbox'[c]) \in Nat, Len(inbox[c]) <= Len(inbox'[c]),
         \A i \in 1..Len(inbox[c]) : inbox'[c][i] = inbox[c][i]
  PROVE  WindowInv(c)'
<1>1. seen[c] \in Nat /\ seen[c] <= Len(inbox[c]) /\ seen[c] <= Len(inbox'[c])
  BY DEF WindowInv
<1>2. \A i \in 1..seen[c] : i \in 1..Len(inbox[c])
  BY <1>1
<1>3. HasRead(c)' = HasRead(c)
  BY <1>2 DEF HasRead
<1>4. Received(c)' = Received(c)
  BY DEF Received
<1>5. QED
  BY <1>1, <1>3, <1>4 DEF WindowInv, Sorted, Lines, Increasing

LEMMA NothingRead ==
  ASSUME NEW c \in Conns, WindowInv(c),
         UNCHANGED <<seen[c], shown[c], queue[c], dropped[c], inbox[c]>>
  PROVE  WindowInv(c)'
BY DEF WindowInv, Received, HasRead, Sorted, Lines, Increasing

\* The steps that leave the inboxes and what the clients have of them alone.
LEMMA WindowsKept ==
  ASSUME SystemInv, ServerTheory!TypeOK, UNCHANGED <<inbox, seen, shown, queue, dropped>>
  PROVE  SystemInv'
<1>1. ASSUME NEW c \in Conns PROVE WindowInv(c)'
  <2>1. Len(inbox[c]) \in Nat
    BY LenProperties DEF ServerTheory!TypeOK
  <2>2. QED
    BY <2>1, ReadKept DEF SystemInv
<1>2. QED
  BY <1>1 DEF SystemInv

LEMMA WindowsServed ==
  ASSUME SystemInv, ServerStep, ServerTheory!TypeOK, ServerTheory!TypeOK'
  PROVE  SystemInv'
<1>1. ASSUME NEW c \in Conns PROVE WindowInv(c)' /\ UNCHANGED clientVars
  BY ServerWrites, ReadKept DEF SystemInv, clientVars
<1>2. UNCHANGED clientVars
  BY DEF ServerStep
<1>3. QED
  BY <1>1, <1>2 DEF SystemInv, clientVars

LEMMA WindowShows ==
  ASSUME SystemInv, ServerTheory!TypeOK, NEW c \in Conns, ShowsChunk(c)
  PROVE  SystemInv'
<1> DEFINE s == shown[c]
           q == queue[c]
<1>1. /\ s \in Seq(Nat) /\ q \in Seq(Seq(Nat)) /\ q # <<>> /\ Sorted(<<s>> \o q)
      /\ shown' = [shown EXCEPT ![c] = s \o Head(q)]
      /\ queue' = [queue EXCEPT ![c] = Tail(q)]
      /\ UNCHANGED <<inbox, seen, dropped>>
  BY DEF SystemInv, WindowInv, Received, ShowsChunk, serverVars
<1>2. shown'[c] = s \o Head(q) /\ queue'[c] = Tail(q)
  BY <1>1 DEF SystemInv
<1>3. /\ s \o Head(q) \in Seq(Nat) /\ Tail(q) \in Seq(Seq(Nat))
      /\ Sorted(<<s \o Head(q)>> \o Tail(q))
      /\ Lines(<<s \o Head(q)>> \o Tail(q)) = Lines(<<s>> \o q)
  BY <1>1, SortedJoined
<1>4. WindowInv(c)'
  <2>1. Received(c)' = <<s \o Head(q)>> \o Tail(q)
    BY <1>2 DEF Received
  <2>2. Sorted(Received(c))' /\ Lines(Received(c))' = Lines(Received(c))
    BY <1>3, <2>1 DEF Sorted, Lines, Increasing, Received
  <2>3. HasRead(c)' = HasRead(c)
    BY <1>1 DEF HasRead
  <2>4. QED
    BY <1>1, <1>2, <1>3, <2>2, <2>3 DEF SystemInv, WindowInv
<1>5. ASSUME NEW d \in Conns, d # c PROVE WindowInv(d)'
  <2>1. UNCHANGED <<seen[d], shown[d], queue[d], dropped[d], inbox[d]>>
    BY <1>1, <1>5 DEF SystemInv
  <2>2. QED
    BY <2>1, NothingRead DEF SystemInv
<1>6. QED
  BY <1>1, <1>3, <1>4, <1>5 DEF SystemInv

LEMMA AppendedLast ==
  ASSUME NEW s \in Seq(Nat), NEW q \in Seq(Seq(Nat)), NEW chunk \in Seq(Nat)
  PROVE  <<s>> \o Append(q, chunk) = Append(<<s>> \o q, chunk)
OBVIOUS

LEMMA WindowReads ==
  ASSUME SystemInv, ServerTheory!TypeOK, ServerTheory!TotalOrder,
         NEW c \in Conns, ReadsChunk(c)
  PROVE  SystemInv'
<1> DEFINE chunk == Arrived(c)
           r == Received(c)
           box == inbox[c]
           k == seen[c]
<1>1. /\ box \in Seq(Nat) /\ Len(box) \in Nat /\ k \in Nat /\ k <= Len(box)
      /\ \A i \in 1..Len(box) : box[i] \in Nat
      /\ \A i, j \in 1..Len(box) : i < j => box[i] < box[j]
  <2>1. box \in Seq(Nat)
    BY DEF ServerTheory!TypeOK
  <2>2. k \in 0..Len(box) /\ Len(box) \in Nat /\ DOMAIN box = 1..Len(box)
    BY <2>1, LenProperties DEF SystemInv, WindowInv
  <2>3. \A i, j \in DOMAIN box : i < j => box[i] < box[j]
    BY DEF ServerTheory!TotalOrder
  <2>4. \A i \in 1..Len(box) : box[i] \in Nat
    BY <2>1, ElementOfSeq
  <2> HIDE DEF box
  <2>5. k \in Nat /\ k <= Len(box)
    BY <2>2
  <2>6. \A i, j \in 1..Len(box) : i < j => box[i] < box[j]
    BY <2>2, <2>3
  <2>7. QED
    BY <2>1, <2>2, <2>4, <2>5, <2>6
<1>2. PICK n \in 1..(Len(box) - k) : seen' = [seen EXCEPT ![c] = k + n]
  BY DEF ReadsChunk, Server!PeerRead
<1>3. seen'[c] = k + n /\ k + n \in 0..Len(box) /\ n \in Nat
  BY <1>1, <1>2 DEF ServerTheory!TypeOK
<1>4. UNCHANGED <<inbox, shown>>
  BY DEF ReadsChunk, Server!PeerRead, Server!hist
<1>5. chunk = SubSeq(box, k + 1, k + n)
  BY <1>3 DEF Arrived
<1> HIDE DEF box, k
<1>6. /\ chunk \in Seq(Nat) /\ DOMAIN chunk = 1..n
      /\ \A i \in 1..n : chunk[i] = box[k + i]
  BY <1>1, <1>2, <1>3, <1>5
<1> HIDE DEF chunk
<1>7. Increasing(chunk)
  <2>1. ASSUME NEW i \in 1..n, NEW j \in 1..n, i < j PROVE chunk[i] < chunk[j]
    <3>1. k + i \in 1..Len(box) /\ k + j \in 1..Len(box) /\ k + i < k + j
      BY <1>1, <1>3, <2>1
    <3>2. QED
      BY <1>1, <1>6, <3>1
  <2>2. QED
    BY <1>6, <2>1 DEF Increasing
<1>8. ASSUME NEW x \in HasRead(c), NEW y \in Range(chunk) PROVE x < y
  <2>1. PICK i \in 1..k : x = box[i]
    BY DEF HasRead, box, k
  <2>2. PICK j \in 1..n : y = box[k + j]
    BY <1>6 DEF Range
  <2>3. i \in 1..Len(box) /\ k + j \in 1..Len(box) /\ i < k + j
    BY <1>1, <1>3
  <2>4. QED
    BY <1>1, <2>1, <2>2, <2>3
<1>9. HasRead(c)' = HasRead(c) \cup Range(chunk)
  <2>1. HasRead(c)' = {box[i] : i \in 1..(k + n)}
    BY <1>3, <1>4 DEF HasRead, box
  <2>2. HasRead(c) = {box[i] : i \in 1..k}
    BY DEF HasRead, box, k
  <2>3. Range(chunk) = {box[k + i] : i \in 1..n}
    BY <1>6 DEF Range
  <2>4. \A i \in 1..(k + n) : i \in 1..k \/ (i - k \in 1..n /\ k + (i - k) = i)
    BY <1>1, <1>3
  <2>5. \A i \in 1..k : i \in 1..(k + n)
    BY <1>1, <1>3
  <2>6. \A i \in 1..n : k + i \in 1..(k + n)
    BY <1>1, <1>3
  <2>7. HasRead(c)' \subseteq HasRead(c) \cup Range(chunk)
    BY <2>1, <2>2, <2>3, <2>4
  <2>8. HasRead(c) \subseteq HasRead(c)'
    BY <2>1, <2>2, <2>5
  <2>9. Range(chunk) \subseteq HasRead(c)'
    BY <2>1, <2>3, <2>6
  <2>10. QED
    BY <2>7, <2>8, <2>9
<1>10. HasRead(c) \cap Range(chunk) = {}
  <2>1. HasRead(c) \subseteq Nat
    BY <1>1, SMTT(30) DEF HasRead, box, k
  <2>2. \A x \in Nat : ~(x < x)
    OBVIOUS
  <2>3. QED
    BY <1>8, <2>1, <2>2
<1>11. /\ shown[c] \in Seq(Nat) /\ queue[c] \in Seq(Seq(Nat)) /\ dropped[c] \subseteq HasRead(c)
       /\ Sorted(r) /\ Lines(r) = HasRead(c) \ dropped[c]
  BY DEF SystemInv, WindowInv
<1>12. WindowInv(c)' /\ queue'[c] \in Seq(Seq(Nat))
  <2>1. CASE UNCHANGED queue /\ dropped' = [dropped EXCEPT ![c] = @ \cup Range(chunk)]
    <3>1. dropped'[c] = dropped[c] \cup Range(chunk)
      BY <2>1 DEF SystemInv
    <3>2. Received(c)' = r
      BY <1>4, <2>1 DEF Received
    <3>3. Sorted(Received(c))' /\ Lines(Received(c))' = Lines(r)
      BY <1>11, <3>2 DEF Sorted, Lines, Increasing
    <3>4. Lines(Received(c))' = HasRead(c)' \ dropped'[c]
      BY <1>9, <1>10, <1>11, <3>1, <3>3
    <3>5. QED
      BY <1>3, <1>4, <1>9, <1>11, <2>1, <3>1, <3>3, <3>4 DEF WindowInv, box
  <2>2. CASE queue' = [queue EXCEPT ![c] = Append(@, chunk)] /\ UNCHANGED dropped
    <3>1. queue'[c] = Append(queue[c], chunk)
      BY <2>2 DEF SystemInv
    <3>2. queue'[c] \in Seq(Seq(Nat))
      BY <1>6, <1>11, <3>1, AppendProperties
    <3>3. r \in Seq(Seq(Nat))
      BY <1>11 DEF Received
    <3>4. Received(c)' = Append(r, chunk)
      <4>1. Received(c)' = <<shown[c]>> \o Append(queue[c], chunk)
        BY <1>4, <3>1 DEF Received
      <4>2. QED
        BY <1>6, <1>11, <4>1, AppendedLast DEF Received
    <3>5. /\ Sorted(Append(r, chunk))
          /\ Lines(Append(r, chunk)) = Lines(r) \cup Range(chunk)
      BY <1>6, <1>7, <1>8, <1>11, <3>3, SortedAdded
    <3>6. Sorted(Received(c))' /\ Lines(Received(c))' = Lines(r) \cup Range(chunk)
      BY <3>4, <3>5 DEF Sorted, Lines, Increasing
    <3>7. Lines(Received(c))' = HasRead(c)' \ dropped'[c]
      BY <1>9, <1>10, <1>11, <2>2, <3>6
    <3>8. QED
      BY <1>3, <1>4, <1>9, <1>11, <2>2, <3>2, <3>6, <3>7 DEF WindowInv, box
  <2>3. QED
    BY <2>1, <2>2 DEF ReadsChunk, chunk
<1>13. ASSUME NEW d \in Conns, d # c
       PROVE  UNCHANGED <<seen[d], shown[d], queue[d], dropped[d], inbox[d]>>
  BY <1>2, <1>4, <1>13 DEF ReadsChunk, SystemInv, ServerTheory!TypeOK
<1>14. ASSUME NEW d \in Conns, d # c PROVE WindowInv(d)'
  BY <1>13, <1>14, NothingRead DEF SystemInv
<1>15. queue' \in [Conns -> Seq(Seq(Nat))] /\ DOMAIN dropped' = Conns
  <2>1. DOMAIN queue' = Conns /\ DOMAIN dropped' = Conns
    BY DEF ReadsChunk, SystemInv
  <2>2. \E x : queue' = [queue EXCEPT ![c] = x]
    BY DEF ReadsChunk, SystemInv
  <2>3. QED
    BY <1>12, <2>1, <2>2 DEF SystemInv
<1>16. QED
  BY <1>4, <1>12, <1>14, <1>15 DEF SystemInv

LEMMA WindowsStep ==
  /\ SystemInv /\ ServerTheory!TypeOK /\ ServerTheory!TotalOrder
  /\ ServerTheory!TypeOK' /\ [Next]_vars
  => SystemInv'
<1> SUFFICES ASSUME SystemInv, ServerTheory!TypeOK, ServerTheory!TotalOrder,
                    ServerTheory!TypeOK', [Next]_vars
             PROVE  SystemInv'
  OBVIOUS
<1>1. CASE UNCHANGED vars
  BY <1>1, WindowsKept DEF vars, serverVars, clientVars
<1>2. CASE ServerStep
  BY <1>2, WindowsServed
<1>3. ASSUME NEW c \in Conns, WindowStep(c) PROVE SystemInv'
  <2>1. CASE ShowsChunk(c)
    BY <2>1, WindowShows
  <2>2. CASE Sends(c)
    BY <2>2, WindowsKept DEF Sends, Written, Server!PeerSend, Server!hist
  <2>3. CASE SendIsLost(c) \/ SendFails(c) \/ Drained(c) \/ NoInput(c)
    BY <2>3, WindowsKept DEF SendIsLost, SendFails, Written, Drained, NoInput, serverVars
  <2>4. QED
    BY <1>3, <2>1, <2>2, <2>3 DEF WindowStep
<1>4. ASSUME NEW c \in Conns, UserStep(c) PROVE SystemInv'
  BY <1>4, WindowsKept
  DEF UserStep, Connect, ConnectFails, PressSend, CloseWindow, Server!PeerConnect,
      Server!PeerLeave, Server!hist, serverVars
<1>5. ASSUME NEW c \in Conns, ReaderStep(c) PROVE SystemInv'
  <2>1. CASE ReadsChunk(c)
    BY <2>1, WindowReads
  <2>2. CASE TestConnected(c) \/ ReadFails(c)
    BY <2>2, WindowsKept DEF TestConnected, ReadFails, serverVars
  <2>3. QED
    BY <1>5, <2>1, <2>2 DEF ReaderStep
<1>6. QED
  BY <1>1, <1>2, <1>3, <1>4, <1>5 DEF Next

LEMMA WindowsInit == Init => SystemInv
<1> SUFFICES ASSUME Init PROVE SystemInv
  OBVIOUS
<1>1. ASSUME NEW c \in Conns PROVE WindowInv(c)
  <2>1. /\ shown[c] = <<>> /\ queue[c] = <<>> /\ dropped[c] = {} /\ seen[c] = 0
        /\ inbox[c] = <<>>
    BY DEF Init, Server!Init
  <2>2. Received(c) = << <<>> >> /\ HasRead(c) = {}
    BY <2>1 DEF Received, HasRead
  <2>3. DOMAIN Received(c) = {1} /\ Received(c)[1] = <<>> /\ DOMAIN <<>> = {}
    BY <2>2
  <2>4. Range(<<>>) = {} /\ Range(Received(c)) = { <<>> }
    BY <2>3 DEF Range
  <2>5. Sorted(Received(c)) /\ Lines(Received(c)) = {}
    BY <2>3, <2>4 DEF Sorted, Lines, Increasing
  <2>6. QED
    BY <2>1, <2>2, <2>5, EmptySeq DEF WindowInv
<1>2. QED
  BY <1>1, EmptySeq DEF SystemInv, Init

\* All windows show the server's lines in one order and miss none of those their
\* clients have read but the ones dropped at the cap, for any number of clients.
THEOREM WindowsCorrect == Spec => []WindowsAgree
<1>1. SystemInv => WindowsAgree
  BY DEF SystemInv, WindowInv, WindowsAgree, Sorted, Lines
<1>2. QED
  BY <1>1, WindowsInit, WindowsStep, SystemFacts, PTL DEF Spec

=============================================================================
