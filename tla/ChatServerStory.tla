--------------------------- MODULE ChatServerStory ---------------------------
(***************************************************************************)
(* The story of the sessions of ChatServer, and ChatServer as an           *)
(* implementation of ChatRoom, proved for every value of the constants.    *)
(***************************************************************************)
EXTENDS ChatServerLines, ChatServerRoom, FiniteSetTheorems

(***************************************************************************)
(* Who calls whom.  The second record of the io thread is what its handler *)
(* has called; records above a lock_guard scope belong to a removal that   *)
(* will wait for the mutex for ever.                                       *)
(***************************************************************************)
Nested == 2 \in DOMAIN stack[Io]
Called == stack[Io][2]

\* What a handler h may have called.
Under(h, f) ==
  /\ f.c = h.c
  /\ \/ /\ h.at = "rearm"
        /\ \/ f.at \in {"bcast", "sending"} /\ f.kind \in {"joined", "chat"}
           \/ f.at \in {"dm", "dmsend", "nouser"}
     \/ /\ h.at = "erase"
        /\ f.at \in {"bcast", "sending"} /\ f.kind = "left"

IoTree ==
  /\ Nested => Under(Handler, Called)
  /\ 3 \in DOMAIN stack[Io] => Called.at = "sending"

\* What another thread may have been called to do.
Requested(f) ==
  \/ f.at = "shutdown"
  \/ /\ f.at \in {"bcast", "sending"} /\ f.kind = "notice" /\ f.c = NoConn
     /\ f.at = "bcast" => f.name = NoName

CallerTree(t) ==
  /\ 1 \in DOMAIN stack[t] => Requested(stack[t][1])
  /\ 2 \in DOMAIN stack[t] => stack[t][1].at = "sending"

TreeInv == IoTree /\ \A t \in Callers : CallerTree(t)

(***************************************************************************)
(* What the log says of a session, and where its handler is.               *)
(***************************************************************************)

\* The handler is about to say a line.
Saying == Nested /\ Called.at = "bcast"
Announcing(c) == Saying /\ Called.kind = "joined" /\ Called.c = c

\* No operation on c is outstanding.
Quit(c) == sock[c] # "none" /\ acceptor.c # c /\ reads[c] = Idle

\* Nothing will be said for c any more.
Leaving(c) ==
  /\ Quit(c)
  /\ Handler.c = c => Handler.at = "erase" /\ (Nested => Called.at = "sending")

NameInv == \A c \in Conns : \A n \in Names : Room!Joined(c, n) => username[c] = n

IntroInv ==
  \A c \in Conns :
    username[c] # NoName => Room!Joined(c, username[c]) \/ Announcing(c)

SayInv ==
  Saying =>
    /\ Called.name = username[Called.c]
    /\ Called.kind = "joined" => \A n \in Names : ~Room!Joined(Called.c, n)
    /\ Called.kind \in {"chat", "left"} =>
         Called.name # NoName /\ Room!Joined(Called.c, Called.name)

LeaveInv == \A c \in Conns : Room!Departed(c) => Leaving(c)

\* A session with a name is not erased unannounced.
EraseInv ==
  Handler.at = "erase" /\ username[Handler.c] # NoName /\ ~Saying => Room!Departed(Handler.c)

StoryInv ==
  /\ NameInv /\ IntroInv /\ SayInv /\ LeaveInv /\ EraseInv
  /\ SessionStory
  /\ \A k \in DOMAIN log : log[k].kind = "left" => log[k].by \in Conns

-----------------------------------------------------------------------------
LEMMA HandlerIs ==
  ASSUME stack[Io] # <<>>
  PROVE  Handler = stack[Io][1]
BY DEF Handler, Bottom

-----------------------------------------------------------------------------
(* TreeInv.                                                                 *)

LEMMA TreeInit == Init => TreeInv
<1> SUFFICES ASSUME Init PROVE TreeInv
  OBVIOUS
<1>1. DOMAIN stack[Io] = {1} /\ \A t \in Callers : DOMAIN stack[t] = {}
  BY IoIsThread, ConstantsAssumption DEF Init, Threads
<1>2. QED
  BY <1>1 DEF TreeInv, IoTree, Nested, CallerTree

\* A step of the io thread on a stack that is not empty.
LEMMA IoTreeMoves ==
  ASSUME ShapeInv, IoTree, stack[Io] # <<>>, NEW f, NEW g, NEW n, NEW m, StackMove(Io, f, g, n, m)
  PROVE  IoTree'
<1>1. /\ n \in Nat /\ n >= 1 /\ m \in Nat
      /\ DOMAIN stack[Io] = 1..n /\ DOMAIN stack'[Io] = 1..m
  BY DEF StackMove
<1>2. Handler = stack[Io][1]
  BY HandlerIs
<1>3. m >= 1 => Handler' = stack'[Io][1]
  <2>1. m >= 1 => stack'[Io] # <<>>
    BY <1>1
  <2>2. QED
    BY <2>1 DEF Handler, Bottom
<1>4. IoTree' <=> /\ m >= 2 => Under(Handler', stack'[Io][2])
                  /\ m >= 3 => stack'[Io][2].at = "sending"
  BY <1>1 DEF IoTree, Nested, Called, Under
<1>5. /\ n >= 2 => Under(Handler, stack[Io][2])
      /\ n >= 3 => stack[Io][2].at = "sending"
  BY <1>1 DEF IoTree, Nested, Called
<1>6. CASE n >= 3
  BY <1>1, <1>2, <1>3, <1>4, <1>5, <1>6 DEF StackMove
<1>7. CASE n = 2
  <2>1. Under(Handler, Top(Io))
    BY <1>5, <1>7 DEF StackMove
  <2>2. m >= 2 => Under(Handler, f) /\ stack'[Io][2] = f /\ (m >= 3 => f.at = "sending")
    BY <1>7, <2>1 DEF StackMove, Under, Continues, Calls
  <2>3. m >= 2 => Handler' = Handler
    BY <1>1, <1>2, <1>3, <1>7 DEF StackMove
  <2>4. QED
    BY <1>1, <1>4, <2>2, <2>3
<1>8. CASE n = 1
  <2>1. Top(Io).at \in Outer \cup Removing \cup {"none"}
    BY <1>2, <1>8 DEF ShapeInv, StackMove
  <2>2. m >= 2 => /\ m = 2 /\ Under(f, g)
                  /\ stack'[Io][1] = f /\ stack'[Io][2] = g
    BY <1>8, <2>1 DEF StackMove, Calls, Under, Outer, Removing
  <2>3. QED
    BY <1>1, <1>3, <1>4, <2>2
<1>9. QED
  BY <1>1, <1>6, <1>7, <1>8

LEMMA CallerTreeMoves ==
  ASSUME NEW t \in Callers, CallerTree(t), NEW f, NEW g, NEW n, NEW m, StackMove(t, f, g, n, m)
  PROVE  CallerTree(t)'
<1>1. /\ n \in Nat /\ n >= 1 /\ m \in Nat /\ t # Io
      /\ DOMAIN stack[t] = 1..n /\ DOMAIN stack'[t] = 1..m
  BY ConstantsAssumption DEF StackMove
<1>2. CallerTree(t)' <=>
        /\ m >= 1 => Requested(stack'[t][1])
        /\ m >= 2 => stack'[t][1].at = "sending"
  BY <1>1 DEF CallerTree, Requested
<1>3. CASE n >= 2
  BY <1>1, <1>2, <1>3 DEF CallerTree, StackMove
<1>4. CASE n = 1
  <2>1. Requested(Top(t))
    BY <1>1, <1>4 DEF CallerTree, StackMove
  <2>2. m >= 1 => f.at = "sending" /\ Requested(f) /\ stack'[t][1] = f
    BY <1>1, <1>4, <2>1 DEF StackMove, Continues, Calls, Requested
  <2>3. QED
    BY <1>1, <1>2, <2>2
<1>5. QED
  BY <1>1, <1>3, <1>4

LEMMA TreeStep == TypeOK /\ ShapeInv /\ TreeInv /\ [Next]_vars => TreeInv'
<1>1. SUFFICES ASSUME TypeOK, ShapeInv, TreeInv, StackStep PROVE TreeInv'
  BY StackSteps
<1>2. Io \in Threads /\ Callers \subseteq Threads /\ Io \notin Callers /\ Threads \subseteq {Io} \cup Callers
  BY ConstantsAssumption DEF Threads
<1>3. ASSUME NEW t \in Threads, OthersKeepStack(t),
             t = Io => IoTree', t # Io => CallerTree(t)'
      PROVE  TreeInv'
  <2>1. t # Io => IoTree'
    BY <1>1, <1>2, <1>3 DEF TreeInv, IoTree, Under, OthersKeepStack, Nested, Called, Handler
  <2>2. \A u \in Callers : u # t => CallerTree(u)'
    BY <1>1, <1>2, <1>3 DEF TreeInv, CallerTree, Requested, OthersKeepStack
  <2>3. QED
    BY <1>2, <1>3, <2>1, <2>2 DEF TreeInv
<1>4. CASE stack' = stack
  BY <1>1, <1>4 DEF TreeInv, IoTree, Under, CallerTree, Requested, Nested, Called, Handler
<1>5. CASE \E c \in Conns : \E f : stack[Io] = <<>> /\ Handle(c, f) /\ f.c = c /\ Answers(c, f)
  <2>1. PICK c \in Conns : \E f : Handle(c, f) /\ f.c = c /\ Answers(c, f)
    BY <1>5
  <2>2. PICK f : Handle(c, f) /\ f.c = c /\ Answers(c, f)
    BY <2>1
  <2> DEFINE r == FrameAt("rearm", "none", c, NoName)
  <2>3. r.at = "rearm" /\ r.c = c
    BY DEF FrameAt
  <2>4. /\ OthersKeepStack(Io) /\ DOMAIN stack'[Io] = {1, 2}
        /\ Handler' = r /\ stack'[Io][2] = f
    BY <1>1, <2>2, HandleElements, HandlerHandle
  <2> HIDE DEF r
  <2>5. Under(r, f)
    BY <2>2, <2>3 DEF Under, Answers
  <2>6. IoTree'
    BY <2>4, <2>5 DEF IoTree, Nested, Called, Under
  <2>7. QED
    BY <1>2, <1>3, <2>4, <2>6
<1>6. ASSUME NEW t \in Threads, NEW f, Begins(t, f) PROVE TreeInv'
  <2>1. OthersKeepStack(t) /\ DOMAIN stack'[t] = {1} /\ stack'[t][1] = f
    BY <1>1, <1>6, PushElements DEF Begins
  <2>2. t = Io => IoTree'
    BY <2>1 DEF IoTree, Nested
  <2>3. t # Io => CallerTree(t)'
    BY <1>2, <1>6, <2>1 DEF CallerTree, Requested, Begins
  <2>4. QED
    BY <1>3, <2>1, <2>2, <2>3
<1>7. ASSUME NEW t \in Threads, stack[t] # <<>>, NEW f, NEW g,
             \/ Return(t)
             \/ Goto(t, f) /\ Continues(t, f)
             \/ Call(t, f, g) /\ Calls(t, f, g)
      PROVE  TreeInv'
  <2>1. OthersKeepStack(t) /\ \E n, m \in Nat : StackMove(t, f, g, n, m)
    BY <1>1, <1>7, StackMoves
  <2>2. t = Io => IoTree'
    BY <1>1, <1>7, <2>1, IoTreeMoves DEF TreeInv
  <2>3. t # Io => CallerTree(t)'
    BY <1>1, <1>2, <1>7, <2>1, CallerTreeMoves DEF TreeInv
  <2>4. QED
    BY <1>3, <2>1, <2>2, <2>3
<1>8. QED
  BY <1>1, <1>4, <1>5, <1>6, <1>7 DEF StackStep

-----------------------------------------------------------------------------
(* What a new line adds to the story.                                       *)

LEMMA LogGrows ==
  ASSUME TypeOK, NEW l \in Line, log' = Append(log, l)
  PROVE  /\ \A c, n : Room!Joined(c, n)' <=>
                        Room!Joined(c, n) \/ (l.kind = "joined" /\ l.by = c /\ l.who = n)
         /\ \A c : Room!Departed(c)' <=> Room!Departed(c) \/ (l.kind = "left" /\ l.by = c)
<1>1. /\ Len(log) \in Nat /\ DOMAIN log = 1..Len(log) /\ DOMAIN log' = 1..(Len(log) + 1)
      /\ log'[Len(log) + 1] = l
      /\ \A j \in 1..Len(log) : log'[j] = log[j]
  BY AppendProperties, LenProperties DEF TypeOK
<1>2. \A j : j \in DOMAIN log' <=> j \in DOMAIN log \/ j = Len(log) + 1
  BY <1>1
<1>3. ASSUME NEW c, NEW n
      PROVE  Room!Joined(c, n)' <=>
               Room!Joined(c, n) \/ (l.kind = "joined" /\ l.by = c /\ l.who = n)
  BY <1>1, <1>2 DEF Room!Joined
<1>4. ASSUME NEW c
      PROVE  Room!Departed(c)' <=> Room!Departed(c) \/ (l.kind = "left" /\ l.by = c)
  BY <1>1, <1>2 DEF Room!Departed
<1>5. QED
  BY <1>3, <1>4

\* A line of a session that has not departed continues its story.
LEMMA StoryGrows ==
  ASSUME TypeOK, StoryInv, NEW l \in Line, log' = Append(log, l),
         ~Room!Departed(l.by),
         l.kind \in {"chat", "left"} => Room!Joined(l.by, l.who),
         l.kind = "left" => l.by \in Conns
  PROVE  SessionStory' /\ (\A k \in DOMAIN log : log[k].kind = "left" => log[k].by \in Conns)'
<1>1. /\ Len(log) \in Nat /\ DOMAIN log = 1..Len(log) /\ DOMAIN log' = 1..(Len(log) + 1)
      /\ log'[Len(log) + 1] = l
      /\ \A j \in 1..Len(log) : log'[j] = log[j]
  BY AppendProperties, LenProperties DEF TypeOK
<1>2. ASSUME NEW k \in DOMAIN log', log'[k].kind \in {"chat", "left"}
      PROVE  \E j \in 1..(k - 1) :
               /\ log'[j].kind = "joined" /\ log'[j].by = log'[k].by
               /\ log'[j].who = log'[k].who
  <2>1. CASE k = Len(log) + 1
    <3>1. PICK j \in DOMAIN log : log[j].kind = "joined" /\ log[j].by = l.by /\ log[j].who = l.who
      BY <1>1, <1>2, <2>1 DEF Room!Joined
    <3>2. QED
      BY <1>1, <2>1, <3>1
  <2>2. CASE k \in DOMAIN log
    <3>1. PICK j \in 1..(k - 1) :
            log[j].kind = "joined" /\ log[j].by = log[k].by /\ log[j].who = log[k].who
      BY <1>1, <1>2, <2>2 DEF StoryInv, SessionStory
    <3>2. QED
      BY <1>1, <2>2, <3>1
  <2>3. QED
    BY <1>1, <2>1, <2>2
<1>3. ASSUME NEW k \in DOMAIN log', log'[k].kind = "left",
             NEW j \in DOMAIN log', j > k
      PROVE  log'[j].by # log'[k].by
  <2>1. k \in DOMAIN log /\ log'[k] = log[k] /\ k \in Nat
    BY <1>1, <1>3
  <2>2. CASE j = Len(log) + 1
    BY <1>1, <1>3, <2>1, <2>2 DEF Room!Departed
  <2>3. CASE j \in DOMAIN log
    BY <1>1, <1>3, <2>1, <2>3 DEF StoryInv, SessionStory
  <2>4. QED
    BY <1>1, <2>2, <2>3
<1>4. \A k \in DOMAIN log' : log'[k].kind = "left" => log'[k].by \in Conns
  BY <1>1 DEF StoryInv
<1>5. QED
  BY <1>2, <1>3, <1>4 DEF SessionStory

\* A step that says nothing and gives nobody a name.
LEMMA StorySame ==
  ASSUME StoryInv, UNCHANGED <<log, username>>,
         \A c \in Conns : Announcing(c) => Announcing(c)',
         SayInv', EraseInv',
         \A c \in Conns : Room!Departed(c) => Leaving(c)'
  PROVE  StoryInv'
<1>1. \A c, n : Room!Joined(c, n)' <=> Room!Joined(c, n)
  BY DEF Room!Joined
<1>2. \A c : Room!Departed(c)' <=> Room!Departed(c)
  BY DEF Room!Departed
<1>3. NameInv' /\ IntroInv' /\ LeaveInv'
  BY <1>1, <1>2 DEF StoryInv, NameInv, IntroInv, LeaveInv
<1>4. SessionStory'
  BY DEF StoryInv, SessionStory
<1>5. QED
  BY <1>3, <1>4 DEF StoryInv

\* The io thread calls and returns nothing.
LEMMA StoryStill ==
  ASSUME StoryInv, UNCHANGED <<log, username>>, stack'[Io] = stack[Io],
         \A c \in Conns : Room!Departed(c) /\ Quit(c) => Quit(c)'
  PROVE  StoryInv'
<1>1. Handler' = Handler /\ Nested' = Nested /\ Called' = Called /\ Saying' = Saying
  BY DEF Handler, Nested, Called, Saying
<1>2. SayInv' /\ EraseInv'
  BY <1>1 DEF StoryInv, SayInv, EraseInv, Room!Joined, Room!Departed
<1>3. \A c \in Conns : Room!Departed(c) => Leaving(c)'
  BY <1>1 DEF StoryInv, LeaveInv, Leaving
<1>4. QED
  BY <1>1, <1>2, <1>3, StorySame DEF Announcing

\* What its handler has called continues, and is not about to say anything.
LEMMA StoryAbove ==
  ASSUME StoryInv, UNCHANGED <<log, username, sock, reads, acceptor>>, Handler' = Handler,
         ~Saying, Nested' => Called'.at = "sending"
  PROVE  StoryInv'
<1>1. ~Saying'
  BY DEF Saying
<1>2. SayInv' /\ EraseInv'
  BY <1>1 DEF StoryInv, SayInv, EraseInv, Room!Departed
<1>3. \A c \in Conns : Room!Departed(c) => Leaving(c)'
  BY DEF StoryInv, LeaveInv, Leaving, Quit
<1>4. QED
  BY <1>1, <1>2, <1>3, StorySame DEF Announcing

\* The handler moves on, or another one takes over; it does not erase.
LEMMA StoryHandler ==
  ASSUME StoryInv, UNCHANGED <<log, username>>, ~Saying, ~Saying',
         Handler'.at # "erase", ~Room!Departed(Handler'.c),
         \A c \in Conns : Room!Departed(c) /\ Quit(c) => Quit(c)'
  PROVE  StoryInv'
<1>1. SayInv' /\ EraseInv'
  BY DEF SayInv, EraseInv
<1>2. \A c \in Conns : Room!Departed(c) => Leaving(c)'
  BY DEF StoryInv, LeaveInv, Leaving
<1>3. QED
  BY <1>1, <1>2, StorySame DEF Announcing

\* NoConn is no session.
LEMMA NobodyDeparts == StoryInv => ~Room!Departed(NoConn)
BY ConstantsAssumption DEF StoryInv, Room!Departed

-----------------------------------------------------------------------------
(* The steps of broadcastMessage, removeClient and the direct messages.     *)

LEMMA OneOrMore ==
  ASSUME TypeOK, NEW t \in Threads, stack[t] # <<>>
  PROVE  Len(stack[t]) = 1 \/ 2 \in DOMAIN stack[t]
<1> DEFINE n == Len(stack[t])
<1>1. n \in Nat /\ n >= 1 /\ DOMAIN stack[t] = 1..n
  BY StackFacts
<1> HIDE DEF n
<1>2. n = 1 \/ 2 \in DOMAIN stack[t]
  BY <1>1
<1>3. QED
  BY <1>2 DEF n

\* The innermost record of the io thread, by the depth of its stack.
LEMMA IoLevels ==
  ASSUME TypeOK, ShapeInv, TreeInv, stack[Io] # <<>>
  PROVE  LET n == Len(stack[Io]) IN
         /\ n \in Nat /\ n >= 1 /\ DOMAIN stack[Io] = 1..n /\ Handler = stack[Io][1]
         /\ n = 1 => Handler = Top(Io) /\ ~Nested
         /\ n = 2 => Called = Top(Io) /\ Nested /\ Under(Handler, Called)
         /\ n >= 3 => Nested /\ Called.at = "sending"
<1>1. /\ Len(stack[Io]) \in Nat /\ Len(stack[Io]) >= 1
      /\ DOMAIN stack[Io] = 1..Len(stack[Io]) /\ Top(Io) = stack[Io][Len(stack[Io])]
  BY IoIsThread, StackFacts
<1>2. Handler = stack[Io][1]
  BY HandlerIs
<1>3. QED
  BY <1>1, <1>2 DEF Nested, Called, TreeInv, IoTree

LEMMA SecondGoto ==
  ASSUME TypeOK, stack[Io] # <<>>, Len(stack[Io]) = 2, NEW g, Goto(Io, g)
  PROVE  Handler' = Handler /\ Called' = g
<1>1. stack'[Io][2] = g /\ stack'[Io][1] = stack[Io][1] /\ DOMAIN stack'[Io] = 1..2
  BY IoIsThread, GotoElements
<1>2. stack'[Io] # <<>>
  BY <1>1
<1>3. QED
  BY <1>1, <1>2 DEF Handler, Bottom, Called

LEMMA FirstReturn ==
  ASSUME TypeOK, stack[Io] # <<>>, Len(stack[Io]) = 1, Return(Io)
  PROVE  Handler' = NoHandler /\ ~Nested'
<1>1. DOMAIN stack'[Io] = 1..(1 - 1)
  BY IoIsThread, ReturnElements
<1>2. QED
  BY <1>1, HandlerReturn DEF Nested

\* What is called from the handler goes on without saying a line.
LEMMA StoryNested ==
  ASSUME TypeOK, ShapeInv, TreeInv, StoryInv, stack[Io] # <<>>,
         UNCHANGED <<log, username, sock, reads, acceptor>>,
         Top(Io).at \in LockedAt \/ Len(stack[Io]) >= 3,
         NEW f, NEW g, Moves(Io, f, g)
  PROVE  StoryInv'
<1> DEFINE n == Len(stack[Io])
<1>1. /\ n \in Nat /\ n >= 1 /\ DOMAIN stack[Io] = 1..n /\ Handler = stack[Io][1]
      /\ n = 1 => Handler = Top(Io)
      /\ n = 2 => Called = Top(Io)
      /\ n >= 3 => Nested /\ Called.at = "sending"
  BY IoLevels
<1>2. n >= 2
  <2>1. n = 1 => Top(Io).at \in Outer \cup Removing \cup {"none"}
    BY <1>1 DEF ShapeInv
  <2>2. n = 1 => Top(Io).at \in LockedAt
    OBVIOUS
  <2>3. n # 1
    BY <2>1, <2>2 DEF LockedAt, Outer, Removing
  <2> HIDE DEF n
  <2>4. QED
    BY <1>1, <2>3
<1>3. PICK m \in Nat : StackMove(Io, f, g, n, m)
  <2>1. \E k, m \in Nat : StackMove(Io, f, g, k, m)
    BY IoIsThread, StackMoves DEF Moves
  <2>2. \A k, m : StackMove(Io, f, g, k, m) => k = n
    BY <1>1 DEF StackMove
  <2>3. QED
    BY <2>1, <2>2
<1> HIDE DEF n
<1>4. Handler' = Handler
  <2>1. m >= 1 /\ DOMAIN stack'[Io] = 1..m /\ stack'[Io][1] = stack[Io][1]
    BY <1>2, <1>3 DEF StackMove
  <2>2. stack'[Io] # <<>>
    BY <2>1
  <2>3. QED
    BY <1>1, <2>1, <2>2 DEF Handler, Bottom
<1>5. ~Saying
  <2>1. n = 2 => Top(Io).at \in LockedAt
    BY DEF n
  <2>2. QED
    BY <1>1, <1>2, <2>1 DEF Saying, LockedAt
<1>6. Nested' => Called'.at = "sending"
  <2>1. CASE n = 2
    <3>1. Top(Io).at \in LockedAt
      BY <2>1 DEF n
    <3>2. m >= 2 => stack'[Io][2].at = "sending"
      BY <2>1, <1>3, <3>1 DEF StackMove, Continues, Calls, LockedAt
    <3>3. QED
      BY <1>3, <3>2 DEF StackMove, Nested, Called
  <2>2. CASE n >= 3
    <3>1. stack'[Io][2] = stack[Io][2]
      BY <1>3, <2>2 DEF StackMove
    <3>2. QED
      BY <1>1, <2>2, <3>1 DEF Called
  <2>3. QED
    BY <1>1, <1>2, <2>1, <2>2
<1>7. QED
  BY <1>4, <1>5, <1>6, StoryAbove

\* A thread that finds the mutex free stands on no broadcast.
LEMMA NothingSent ==
  ASSUME TypeOK, ScopeInv, ShapeInv, TreeInv, m_clientsMutex = Nobody, stack[Io] # <<>>
  PROVE  Len(stack[Io]) \in {1, 2} /\ (Nested => Called.at # "sending")
<1>1. Nested => Called \in Range(stack[Io])
  BY DEF Nested, Called, Range
<1>2. Nested => Called.at # "sending"
  BY <1>1, IoIsThread, FreeMeansNoScope DEF LockedAt
<1> DEFINE n == Len(stack[Io])
<1>3. n \in Nat /\ n >= 1 /\ (n >= 3 => Nested /\ Called.at = "sending")
  BY IoLevels
<1> HIDE DEF n
<1>4. n \in {1, 2}
  BY <1>2, <1>3
<1>5. QED
  BY <1>2, <1>4 DEF n

\* What the io thread stands on when it is about to say a line.
LEMMA SayFacts ==
  ASSUME TypeOK, ScopeInv, ShapeInv, TreeInv, StoryInv, StartBroadcast(Io)
  PROVE  LET f == Top(Io) IN
         /\ Len(stack[Io]) = 2 /\ Called = f /\ Saying
         /\ f.kind \in {"joined", "chat", "left"} /\ (f.kind = "left" <=> Handler.at = "erase")
         /\ f.c \in Conns /\ f.c = Handler.c /\ f.name = username[f.c] /\ ~Room!Departed(f.c)
         /\ f.kind = "joined" => \A n \in Names : ~Room!Joined(f.c, n)
         /\ f.kind \in {"chat", "left"} => f.name # NoName /\ Room!Joined(f.c, f.name)
<1> PICK f : f = Top(Io)
  OBVIOUS
<1>1. stack[Io] # <<>> /\ f.at = "bcast" /\ m_clientsMutex = Nobody
  BY DEF StartBroadcast, At, Lock, CanLock
<1>2. Len(stack[Io]) = 2 /\ Called = f /\ Nested /\ Under(Handler, f)
  <2>1. Len(stack[Io]) # 1
    BY <1>1, IoLevels DEF ShapeInv, Outer, Removing
  <2>2. Len(stack[Io]) \in {1, 2}
    BY <1>1, NothingSent
  <2>3. Len(stack[Io]) = 2
    BY <2>1, <2>2
  <2>4. QED
    BY <1>1, <2>3, IoLevels
<1>3. /\ Saying /\ f.c = Handler.c /\ f.kind \in {"joined", "chat", "left"}
      /\ f.kind = "left" <=> Handler.at = "erase"
  BY <1>1, <1>2 DEF Saying, Under
<1>4. /\ f.name = username[f.c]
      /\ f.kind = "joined" => \A n \in Names : ~Room!Joined(f.c, n)
      /\ f.kind \in {"chat", "left"} => f.name # NoName /\ Room!Joined(f.c, f.name)
  BY <1>2, <1>3 DEF StoryInv, SayInv
<1>5. f.c \in Conns
  <2>1. Handler.at \in {"rearm", "erase"}
    BY <1>2 DEF Under
  <2>2. QED
    BY <1>3, <2>1 DEF ShapeInv
<1>6. ~Room!Departed(f.c)
  BY <1>1, <1>2, <1>3, <1>5 DEF StoryInv, LeaveInv, Leaving
<1>7. QED
  BY <1>2, <1>3, <1>4, <1>5, <1>6

\* The io thread says a line.
LEMMA StorySay ==
  ASSUME TypeOK, ScopeInv, ShapeInv, SessionInv, RecordInv, TreeInv, StoryInv, StartBroadcast(Io)
  PROVE  StoryInv'
<1> PICK f : f = Top(Io)
  OBVIOUS
<1> PICK g : g = [f EXCEPT !.at = "sending", !.id = Len(log) + 1, !.next = 1]
  OBVIOUS
<1> PICK l : l = [kind |-> f.kind, by |-> f.c, who |-> f.name, to |-> Range(m_clients)]
  OBVIOUS
<1>1. /\ stack[Io] # <<>> /\ f.at = "bcast" /\ m_clientsMutex = Nobody /\ Io \in Threads
      /\ log' = Append(log, l) /\ Goto(Io, g)
      /\ UNCHANGED <<username, sock, reads, acceptor>>
  BY IoIsThread DEF StartBroadcast, At, Lock, CanLock, data, asio
<1>2. f \in Frame /\ m_clients \in Seq(Conns)
  BY <1>1, TopType DEF TypeOK
<1>3. /\ Len(stack[Io]) = 2 /\ Called = f /\ Saying
      /\ f.kind \in {"joined", "chat", "left"} /\ (f.kind = "left" <=> Handler.at = "erase")
      /\ f.c \in Conns /\ f.c = Handler.c /\ f.name = username[f.c] /\ ~Room!Departed(f.c)
      /\ f.kind = "joined" => \A n \in Names : ~Room!Joined(f.c, n)
      /\ f.kind \in {"chat", "left"} => f.name # NoName /\ Room!Joined(f.c, f.name)
  BY SayFacts
<1>4. g.at = "sending"
  BY <1>2 DEF Frame
<1>5. l \in Line /\ l.kind = f.kind /\ l.by = f.c /\ l.who = f.name
  BY <1>2, <1>3 DEF Frame, Line, LineKinds, Range
<1>6. Handler' = Handler /\ Called' = g
  BY <1>1, <1>3, SecondGoto
<1>7. ~Saying'
  BY <1>4, <1>6 DEF Saying
<1>8. /\ \A c, n : Room!Joined(c, n)' <=>
                     Room!Joined(c, n) \/ (f.kind = "joined" /\ f.c = c /\ f.name = n)
      /\ \A c : Room!Departed(c)' <=> Room!Departed(c) \/ (f.kind = "left" /\ f.c = c)
  BY <1>1, <1>5, LogGrows
<1>9. NameInv'
  BY <1>1, <1>3, <1>8 DEF StoryInv, NameInv
<1>10. IntroInv'
  <2>1. ASSUME NEW c \in Conns, username[c] # NoName PROVE Room!Joined(c, username[c])'
    <3>1. CASE Room!Joined(c, username[c])
      BY <1>1, <1>8, <3>1
    <3>2. CASE Announcing(c)
      BY <1>1, <1>3, <1>8, <3>2 DEF Announcing
    <3>3. QED
      BY <2>1, <3>1, <3>2 DEF StoryInv, IntroInv
  <2>2. QED
    BY <1>1, <2>1 DEF IntroInv
<1>11. SayInv'
  BY <1>7 DEF SayInv
<1>12. LeaveInv'
  <2>1. ASSUME NEW c \in Conns, Room!Departed(c) PROVE Leaving(c)'
    <3>1. Leaving(c) /\ Handler.c # c
      BY <1>3, <2>1 DEF StoryInv, LeaveInv
    <3>2. QED
      BY <1>1, <1>6, <3>1 DEF Leaving, Quit
  <2>2. ASSUME f.kind = "left" PROVE Leaving(f.c)'
    <3>1. Quit(f.c)
      BY <1>3 DEF SessionInv, Session, Quit
    <3>2. QED
      BY <1>1, <1>3, <1>4, <1>6, <2>2, <3>1 DEF Leaving, Quit
  <2>3. QED
    BY <1>8, <2>1, <2>2 DEF LeaveInv
<1>13. EraseInv'
  BY <1>3, <1>6, <1>8 DEF EraseInv
<1>14. SessionStory' /\ (\A k \in DOMAIN log : log[k].kind = "left" => log[k].by \in Conns)'
  BY <1>1, <1>3, <1>5, StoryGrows
<1>15. QED
  BY <1>9, <1>10, <1>11, <1>12, <1>13, <1>14 DEF StoryInv

LEMMA NoticeFacts ==
  ASSUME TypeOK, ScopeInv, TreeInv, NEW t \in Callers, StartBroadcast(t)
  PROVE  Top(t).kind = "notice" /\ Top(t).c = NoConn /\ Top(t).name = NoName
<1>1. stack[t] # <<>> /\ Top(t).at = "bcast" /\ m_clientsMutex = Nobody /\ t \in Threads
  BY DEF StartBroadcast, At, Lock, CanLock, Threads
<1>2. /\ Len(stack[t]) \in Nat /\ Len(stack[t]) >= 1 /\ DOMAIN stack[t] = 1..Len(stack[t])
      /\ Top(t) = stack[t][Len(stack[t])]
  BY <1>1, StackFacts
<1>3. ASSUME 2 \in DOMAIN stack[t] PROVE FALSE
  <2>1. stack[t][1].at = "sending" /\ stack[t][1] \in Range(stack[t])
    BY <1>2, <1>3 DEF TreeInv, CallerTree, Range
  <2>2. QED
    BY <1>1, <2>1, FreeMeansNoScope DEF LockedAt
<1>4. Len(stack[t]) = 1
  BY <1>1, <1>3, OneOrMore
<1>5. QED
  BY <1>1, <1>2, <1>4 DEF TreeInv, CallerTree, Requested

\* Another thread says a line.
LEMMA StoryNotice ==
  ASSUME TypeOK, ScopeInv, TreeInv, StoryInv, NEW t \in Callers, StartBroadcast(t)
  PROVE  StoryInv'
<1> PICK f : f = Top(t)
  OBVIOUS
<1> PICK g : g = [f EXCEPT !.at = "sending", !.id = Len(log) + 1, !.next = 1]
  OBVIOUS
<1> PICK l : l = [kind |-> f.kind, by |-> f.c, who |-> f.name, to |-> Range(m_clients)]
  OBVIOUS
<1>1. /\ stack[t] # <<>> /\ f.at = "bcast" /\ m_clientsMutex = Nobody /\ t \in Threads /\ t # Io
      /\ log' = Append(log, l) /\ Goto(t, g)
      /\ UNCHANGED <<username, sock, reads, acceptor>>
  BY ConstantsAssumption DEF StartBroadcast, At, Lock, CanLock, data, asio, Threads
<1>2. f \in Frame /\ m_clients \in Seq(Conns)
  BY <1>1, TopType DEF TypeOK
<1>4. f.kind = "notice" /\ f.c = NoConn /\ f.name = NoName
  BY NoticeFacts
<1>5. l \in Line /\ l.kind = "notice" /\ l.by = NoConn
  BY <1>2, <1>4 DEF Frame, Line, LineKinds, Range
<1>6. /\ \A c, n : Room!Joined(c, n)' <=> Room!Joined(c, n)
      /\ \A c : Room!Departed(c)' <=> Room!Departed(c)
  BY <1>1, <1>5, LogGrows
<1>7. /\ Handler' = Handler /\ Nested' = Nested /\ Called' = Called /\ Saying' = Saying
  <2>1. stack'[Io] = stack[Io]
    BY <1>1, IoIsThread DEF TypeOK, Goto
  <2>2. QED
    BY <2>1 DEF Handler, Nested, Called, Saying
<1>8. SessionStory' /\ (\A k \in DOMAIN log : log[k].kind = "left" => log[k].by \in Conns)'
  BY <1>1, <1>5, NobodyDeparts, StoryGrows
<1>9. NameInv' /\ IntroInv' /\ SayInv' /\ EraseInv'
  BY <1>1, <1>6, <1>7 DEF StoryInv, NameInv, IntroInv, SayInv, EraseInv, Announcing
<1>10. LeaveInv'
  BY <1>1, <1>6, <1>7 DEF StoryInv, LeaveInv, Leaving, Quit
<1>11. QED
  BY <1>8, <1>9, <1>10 DEF StoryInv

LEMMA WhisperFacts ==
  ASSUME TypeOK, ScopeInv, ShapeInv, TreeInv, StoryInv, StartDirect
  PROVE  LET f == Top(Io) IN
         /\ Len(stack[Io]) = 2 /\ Called = f /\ f.c \in Conns /\ f.c = Handler.c
         /\ Handler.at = "rearm" /\ ~Saying /\ ~Room!Departed(f.c)
<1> PICK f : f = Top(Io)
  OBVIOUS
<1>1. stack[Io] # <<>> /\ f.at = "dm" /\ m_clientsMutex = Nobody
  BY DEF StartDirect, At, Lock, CanLock
<1>2. Len(stack[Io]) = 2 /\ Called = f /\ Nested /\ Under(Handler, f)
  <2>1. Len(stack[Io]) # 1
    BY <1>1, IoLevels DEF ShapeInv, Outer, Removing
  <2>2. Len(stack[Io]) \in {1, 2}
    BY <1>1, NothingSent
  <2>3. Len(stack[Io]) = 2
    BY <2>1, <2>2
  <2>4. QED
    BY <1>1, <2>3, IoLevels
<1>3. ~Saying /\ f.c = Handler.c /\ Handler.at = "rearm"
  BY <1>1, <1>2 DEF Saying, Under
<1>4. f.c \in Conns
  BY <1>3 DEF ShapeInv
<1>5. ~Room!Departed(f.c)
  BY <1>3, <1>4 DEF StoryInv, LeaveInv, Leaving
<1>6. QED
  BY <1>2, <1>3, <1>4, <1>5

\* A direct message, or the answer that there is no such user.
LEMMA StoryWhisper ==
  ASSUME TypeOK, ScopeInv, ShapeInv, TreeInv, StoryInv, StartDirect
  PROVE  StoryInv'
<1> PICK f : f = Top(Io)
  OBVIOUS
<1> PICK it : it = FindClient(f.name)
  OBVIOUS
<1> DEFINE kind == IF it = 0 THEN "nouser" ELSE "dm"
           whom == IF it = 0 THEN f.c ELSE m_clients[it]
<1> PICK g : g = [f EXCEPT !.at = IF it = 0 THEN "nouser" ELSE "dmsend",
                           !.kind = kind, !.id = Len(log) + 1, !.next = it]
  OBVIOUS
<1> PICK l : l = [kind |-> kind, by |-> f.c, who |-> username[f.c], to |-> {whom}]
  OBVIOUS
<1>1. /\ stack[Io] # <<>> /\ f.at = "dm" /\ m_clientsMutex = Nobody /\ Io \in Threads
      /\ log' = Append(log, l) /\ Goto(Io, g)
      /\ UNCHANGED <<username, sock, reads, acceptor>>
  BY IoIsThread DEF StartDirect, At, Lock, CanLock, data, asio
<1>2. f \in Frame /\ m_clients \in Seq(Conns)
  BY <1>1, TopType DEF TypeOK
<1>3. /\ Len(stack[Io]) = 2 /\ Called = f /\ f.c \in Conns /\ f.c = Handler.c
      /\ Handler.at = "rearm" /\ ~Saying /\ ~Room!Departed(f.c)
  BY WhisperFacts
<1>4. whom \in Conns
  <2>1. it = 0 \/ it \in DOMAIN m_clients
    BY <1>2, FindClientFacts, LenProperties
  <2>2. QED
    BY <1>2, <1>3, <2>1
<1>5. l \in Line /\ l.kind \in {"dm", "nouser"} /\ l.by = f.c
  BY <1>2, <1>3, <1>4 DEF Line, LineKinds, TypeOK
<1>6. g.at \in {"dmsend", "nouser"}
  BY <1>2 DEF Frame
<1>7. Handler' = Handler /\ Called' = g
  BY <1>1, <1>3, SecondGoto
<1>8. ~Saying'
  BY <1>6, <1>7 DEF Saying
<1>9. \A c \in Conns : Room!Departed(c) => Quit(c) /\ Handler.c # c
  BY <1>3 DEF StoryInv, LeaveInv, Leaving
<1>10. /\ \A c, n : Room!Joined(c, n)' <=> Room!Joined(c, n)
       /\ \A c : Room!Departed(c)' <=> Room!Departed(c)
  BY <1>1, <1>5, LogGrows
<1>11. NameInv' /\ IntroInv' /\ SayInv' /\ EraseInv'
  BY <1>1, <1>3, <1>7, <1>8, <1>10
     DEF StoryInv, NameInv, IntroInv, SayInv, EraseInv, Announcing
<1>12. LeaveInv'
  BY <1>1, <1>7, <1>9, <1>10 DEF LeaveInv, Leaving, Quit
<1>13. SessionStory' /\ (\A k \in DOMAIN log : log[k].kind = "left" => log[k].by \in Conns)'
  BY <1>1, <1>3, <1>5, StoryGrows
<1>14. QED
  BY <1>11, <1>12, <1>13 DEF StoryInv

\* removeClient, as the handler of a failed read or below a broadcast.
LEMMA StoryRemove ==
  ASSUME TypeOK, ShapeInv, TreeInv, StoryInv, RemoveClient(Io)
  PROVE  StoryInv'
<1> DEFINE d == Top(Io).c
           f == [Top(Io) EXCEPT !.at = "erase"]
           g == FrameAt("bcast", "left", d, username[d])
<1>1. /\ stack[Io] # <<>> /\ Top(Io).at = "remove" /\ Io \in Threads
      /\ UNCHANGED <<log, username, sock, reads, acceptor>>
      /\ \/ username[d] # NoName /\ Call(Io, f, g)
         \/ username[d] = NoName /\ Goto(Io, f)
  BY IoIsThread DEF RemoveClient, At, data, asio, hist
<1>2. f.at = "erase" /\ f.c = d
  BY <1>1, MoveFacts
<1>3. /\ g.at = "bcast" /\ g.kind = "left" /\ g.c = d /\ g.name = username[d]
  BY DEF FrameAt
<1> HIDE DEF d, f, g
<1>4. \/ Len(stack[Io]) >= 3
      \/ Len(stack[Io]) = 1
      \/ Len(stack[Io]) = 2
  <2> DEFINE n == Len(stack[Io])
  <2>1. n \in Nat /\ n >= 1
    BY <1>1, IoLevels
  <2> HIDE DEF n
  <2>2. n >= 3 \/ n = 1 \/ n = 2
    BY <2>1
  <2>3. QED
    BY <2>2 DEF n
<1>5. CASE Len(stack[Io]) >= 3
  <2>1. Moves(Io, f, g)
    BY <1>1, <1>2, <1>3 DEF Moves, Continues, Calls, d
  <2>2. QED
    BY <1>1, <1>5, <2>1, StoryNested
<1>6. Len(stack[Io]) # 2
  BY <1>1, IoLevels DEF Under
<1>7. CASE Len(stack[Io]) = 1
  <2>1. Handler = Top(Io) /\ ~Nested
    BY <1>1, <1>7, IoLevels
  <2>2. d \in Conns /\ Handler.c = d /\ Handler.at = "remove"
    BY <1>1, <2>1 DEF ShapeInv, d
  <2>3. Handler' = f
    BY <1>1, <1>7, HandlerGoto, HandlerCall
  <2>4. ~Room!Departed(d) /\ ~Saying
    BY <2>1, <2>2 DEF StoryInv, LeaveInv, Leaving, Saying
  <2>5. /\ username[d] = NoName => ~Nested'
        /\ username[d] # NoName => Nested' /\ Called' = g
    <3>1. CASE username[d] = NoName
      <4>1. DOMAIN stack'[Io] = 1..1
        BY <1>1, <1>7, <3>1, GotoElements
      <4>2. QED
        BY <3>1, <4>1 DEF Nested
    <3>2. CASE username[d] # NoName
      <4>1. DOMAIN stack'[Io] = 1..2 /\ stack'[Io][2] = g
        BY <1>1, <1>7, <3>2, CallElements
      <4>2. QED
        BY <3>2, <4>1 DEF Nested, Called
    <3>3. QED
      BY <3>1, <3>2
  <2>6. SayInv'
    <3>1. SUFFICES ASSUME Saying' PROVE username[d] # NoName /\ Room!Joined(d, username[d])
      BY <1>1, <1>3, <2>5 DEF SayInv, Saying, Room!Joined
    <3>2. username[d] # NoName
      BY <2>5, <3>1 DEF Saying
    <3>3. ~Announcing(d)
      BY <2>4 DEF Announcing
    <3>4. QED
      BY <2>2, <3>2, <3>3 DEF StoryInv, IntroInv
  <2>7. EraseInv'
    BY <1>1, <1>2, <1>3, <2>3, <2>5 DEF EraseInv, Saying
  <2>8. ASSUME NEW c \in Conns, Room!Departed(c) PROVE Leaving(c)'
    BY <1>1, <1>2, <2>3, <2>4, <2>8 DEF StoryInv, LeaveInv, Leaving, Quit
  <2>9. QED
    BY <1>1, <2>4, <2>6, <2>7, <2>8, StorySame DEF Announcing
<1>8. QED
  BY <1>4, <1>5, <1>6, <1>7

LEMMA StoryErase ==
  ASSUME TypeOK, ScopeInv, ShapeInv, TreeInv, StoryInv, NEW t \in Threads, EraseClient(t)
  PROVE  StoryInv'
<1>1. /\ t = Io /\ Len(stack[Io]) = 1 /\ stack[Io] # <<>> /\ Return(Io) /\ Io \in Threads
      /\ UNCHANGED <<log, username, acceptor>> /\ CloseSockets({Top(t).c})
  BY EraseIsHandler DEF EraseClient, At, hist
<1>2. Handler' = NoHandler /\ ~Nested /\ ~Nested'
  BY <1>1, FirstReturn, IoLevels
<1>3. ~Saying /\ ~Saying'
  BY <1>2 DEF Saying
<1>4. \A c \in Conns : Quit(c) => Quit(c)'
  BY <1>1, CloseFacts DEF Quit
<1>5. QED
  BY <1>1, <1>2, <1>3, <1>4, NoHandlerIs, NobodyDeparts, StoryHandler

LEMMA StoryBroadcasting ==
  ASSUME TypeOK, ScopeInv, ShapeInv, SessionInv, RecordInv, TreeInv, StoryInv, Broadcasting(Io)
  PROVE  StoryInv'
<1>1. CASE SkipExcluded(Io) \/ SendLine(Io) \/ SendLineFails(Io) \/ EndBroadcast(Io)
  <2>1. Top(Io).at \in LockedAt /\ UNCHANGED <<log, username, sock, reads, acceptor>>
    BY <1>1 DEF SkipExcluded, SendLine, SendLineFails, EndBroadcast, Sending, At, LockedAt,
       data, asio, hist
  <2>2. stack[Io] # <<>> /\ \E f, g : Moves(Io, f, g)
    BY IoIsThread, BroadcastMoves
  <2>3. QED
    BY <2>1, <2>2, StoryNested
<1>2. QED
  BY <1>1, IoIsThread, StorySay, StoryRemove, StoryErase DEF Broadcasting

LEMMA StoryDirect ==
  ASSUME TypeOK, ScopeInv, ShapeInv, TreeInv, StoryInv, Direct
  PROVE  StoryInv'
<1>1. CASE SendDirect \/ SendNotFound
  <2>1. /\ Top(Io).at \in LockedAt /\ stack[Io] # <<>>
        /\ UNCHANGED <<log, username, sock, reads, acceptor>>
    BY <1>1 DEF SendDirect, SendNotFound, At, LockedAt, data, asio
  <2>2. CASE Return(Io)
    BY <2>1, <2>2, StoryNested DEF Moves
  <2>3. CASE UNCHANGED stack
    BY <2>1, <2>3, StoryStill DEF Quit
  <2>4. QED
    BY <1>1, <2>2, <2>3 DEF SendDirect, SendNotFound
<1>2. QED
  BY <1>1, StoryWhisper DEF Direct

-----------------------------------------------------------------------------
(* The other handlers, the other threads and the environment.               *)

LEMMA AcceptKeepsConn ==
  ASSUME TypeOK, AcceptConnections
  PROVE  acceptor'.c = acceptor.c
BY DEF TypeOK, Acceptor, AcceptConnections

\* The session of a handler that does not erase has not departed.
LEMMA HandledPresent ==
  ASSUME ShapeInv, StoryInv, Handler.at # "erase"
  PROVE  ~Room!Departed(Handler.c)
<1>1. Handler.c \in Conns \/ Handler.c = NoConn
  BY DEF ShapeInv
<1>2. QED
  BY <1>1, NobodyDeparts DEF StoryInv, LeaveInv, Leaving

\* Nor has one whose read or accept has completed.
LEMMA BusyPresent ==
  ASSUME StoryInv, NEW c \in Conns, ~Quit(c)
  PROVE  ~Room!Departed(c)
BY DEF StoryInv, LeaveInv, Leaving

\* A handler that has called nothing returns.
LEMMA StoryReturns ==
  ASSUME TypeOK, ShapeInv, TreeInv, StoryInv, stack[Io] # <<>>, Top(Io).at \in Outer, Return(Io),
         UNCHANGED <<log, username>>,
         \A c \in Conns : c # Top(Io).c /\ Quit(c) => Quit(c)'
  PROVE  StoryInv'
<1>1. Len(stack[Io]) = 1 /\ Handler = Top(Io) /\ Handler.at # "erase"
  BY OuterTop DEF Outer
<1>2. Handler' = NoHandler /\ ~Nested /\ ~Nested'
  BY <1>1, FirstReturn, IoLevels
<1>3. ~Saying /\ ~Saying'
  BY <1>2 DEF Saying
<1>4. ~Room!Departed(Top(Io).c)
  BY <1>1, HandledPresent
<1>5. QED
  BY <1>2, <1>3, <1>4, NoHandlerIs, NobodyDeparts, StoryHandler

\* Between two lock scopes of the handler of an accept.
LEMMA StoryGoesOn ==
  ASSUME TypeOK, ShapeInv, TreeInv, StoryInv, stack[Io] # <<>>, Top(Io).at \in Outer,
         NEW f, Goto(Io, f), f.c = Top(Io).c, f.at \in Outer,
         UNCHANGED <<log, username, sock, reads, acceptor>>
  PROVE  StoryInv'
<1>1. Len(stack[Io]) = 1 /\ Handler = Top(Io) /\ Handler.at # "erase"
  BY OuterTop DEF Outer
<1>2. Handler' = f
  BY <1>1, HandlerGoto
<1>3. ~Nested
  BY <1>1, IoLevels
<1>4. DOMAIN stack'[Io] = 1..1
  BY <1>1, IoIsThread, GotoElements
<1>5. ~Saying /\ ~Saying'
  BY <1>3, <1>4 DEF Saying, Nested
<1>6. ~Room!Departed(f.c) /\ f.at # "erase"
  BY <1>1, HandledPresent DEF Outer
<1>7. QED
  BY <1>2, <1>5, <1>6, StoryHandler DEF Quit

LEMMA StoryOnAccept ==
  ASSUME TypeOK, StoryInv, OnAccept
  PROVE  StoryInv'
<1> DEFINE d == acceptor.c
           f == FrameAt("admit", "none", d, NoName)
<1>1. /\ stack[Io] = <<>> /\ Push(Io, f) /\ d \in Conns
      /\ UNCHANGED <<log, username, sock, reads>>
  BY DEF OnAccept, IoIdle, data, hist, TypeOK, Acceptor
<1>2. acceptor'.c = NoConn /\ NoConn \notin Conns
  BY ConstantsAssumption DEF OnAccept, TypeOK, Acceptor
<1>3. f.at = "admit" /\ f.c = d
  BY DEF FrameAt
<1> HIDE DEF f
<1>4. Handler' = f /\ DOMAIN stack'[Io] = {1}
  BY <1>1, IoIsThread, HandlerPush, PushElements
<1>5. ~Saying /\ ~Saying'
  BY <1>1, <1>4 DEF Saying, Nested
<1>6. ~Room!Departed(d)
  BY <1>1, BusyPresent DEF Quit
<1>7. QED
  BY <1>1, <1>2, <1>3, <1>4, <1>5, <1>6, StoryHandler DEF Quit

LEMMA StoryAccepting ==
  ASSUME TypeOK, ShapeInv, TreeInv, StoryInv, Accepting \/ Rearm \/ RunReturns
  PROVE  StoryInv'
<1>1. CASE Start
  <2>1. /\ stack[Io] # <<>> /\ Top(Io).at \in Outer /\ Return(Io)
        /\ UNCHANGED <<log, username, sock, reads>> /\ acceptor'.c = acceptor.c
    BY <1>1, AcceptKeepsConn DEF Start, At, Outer, hist
  <2>2. QED
    BY <2>1, StoryReturns DEF Quit
<1>2. CASE OnAccept
  BY <1>2, StoryOnAccept
<1>3. CASE OnAcceptError \/ GreetThrows \/ RunReturns
  <2>1. UNCHANGED <<log, username, sock, reads, stack>> /\ acceptor'.c = acceptor.c
    BY <1>3 DEF OnAcceptError, GreetThrows, RunReturns, asio, data, hist, TypeOK, Acceptor
  <2>2. QED
    BY <2>1, StoryStill DEF Quit
<1>4. CASE RejectClient
  <2>1. /\ stack[Io] # <<>> /\ Top(Io).at \in Outer /\ Return(Io)
        /\ UNCHANGED <<log, username>> /\ acceptor'.c = acceptor.c
        /\ CloseSockets({Top(Io).c})
    BY <1>4, AcceptKeepsConn DEF RejectClient, At, Outer, hist, data
  <2>2. \A c \in Conns : Quit(c) => Quit(c)'
    BY <2>1, CloseFacts DEF Quit
  <2>3. QED
    BY <2>1, <2>2, StoryReturns
<1>5. CASE AdmitClient
  <2> DEFINE f == [Top(Io) EXCEPT !.at = "push"]
  <2>1. /\ stack[Io] # <<>> /\ Top(Io).at \in Outer /\ Goto(Io, f)
        /\ UNCHANGED <<log, username, sock, reads, acceptor>>
    BY <1>5 DEF AdmitClient, At, Outer, hist, data, asio
  <2>2. f.at = "push" /\ f.c = Top(Io).c
    BY <2>1, IoIsThread, MoveFacts
  <2> HIDE DEF f
  <2>3. QED
    BY <2>1, <2>2, StoryGoesOn DEF Outer
<1>6. CASE PushClient
  <2> DEFINE f == [Top(Io) EXCEPT !.at = "greet"]
  <2>1. /\ stack[Io] # <<>> /\ Top(Io).at \in Outer /\ Goto(Io, f)
        /\ UNCHANGED <<log, username, sock, reads, acceptor>>
    BY <1>6 DEF PushClient, At, Outer, hist, asio
  <2>2. f.at = "greet" /\ f.c = Top(Io).c
    BY <2>1, IoIsThread, MoveFacts
  <2> HIDE DEF f
  <2>3. QED
    BY <2>1, <2>2, StoryGoesOn DEF Outer
<1>7. CASE GreetClient \/ Rearm
  <2>1. /\ stack[Io] # <<>> /\ Top(Io).at \in Outer /\ Return(Io)
        /\ UNCHANGED <<log, username, sock>> /\ acceptor'.c = acceptor.c
        /\ ReadClientMessage(Top(Io).c)
    BY <1>7, AcceptKeepsConn DEF GreetClient, Rearm, At, Outer, hist, data
  <2>2. \A c \in Conns : c # Top(Io).c => reads'[c] = reads[c]
    BY <2>1 DEF ReadClientMessage, TypeOK
  <2>3. QED
    BY <2>1, <2>2, StoryReturns DEF Quit
<1>8. QED
  BY <1>1, <1>2, <1>3, <1>4, <1>5, <1>6, <1>7 DEF Accepting

\* A handler says a line, or looks for a user, for the message just read.
LEMMA StoryHandle ==
  ASSUME TypeOK, StoryInv, NEW c \in Conns, OnFirstText(c) \/ OnText(c) \/ OnDirectMessage(c)
  PROVE  StoryInv'
<1>1. PICK f : /\ Handle(c, f) /\ f.c = c
               /\ \/ f.at = "bcast" /\ f.kind \in {"joined", "chat"} /\ f.name = username'[c]
                  \/ f.at = "dm"
               /\ f.at = "bcast" /\ f.kind = "joined" => username[c] = NoName
               /\ f.at = "bcast" /\ f.kind = "chat" => username[c] # NoName /\ username' = username
               /\ username[c] # NoName => username' = username
               /\ username' # username => f.at = "bcast" /\ f.kind = "joined"
  <2>1. CASE OnFirstText(c)
    <3>1. username'[c] = UserOf[c] /\ username[c] = NoName
      BY <2>1 DEF OnFirstText, TypeOK
    <3>2. QED
      BY <2>1, <3>1 DEF OnFirstText, FrameAt
  <2>2. CASE OnText(c)
    <3> DEFINE f == FrameAt("bcast", "chat", c, username[c])
    <3>1. f.at = "bcast" /\ f.kind = "chat" /\ f.c = c /\ f.name = username[c]
      BY DEF FrameAt
    <3>2. Handle(c, f) /\ username' = username /\ username[c] # NoName
      BY <2>2 DEF OnText
    <3> HIDE DEF f
    <3>3. QED
      BY <3>1, <3>2
  <2>3. CASE OnDirectMessage(c)
    <3> DEFINE f == FrameAt("dm", "dm", c, reads[c].to)
    <3>1. f.at = "dm" /\ f.c = c
      BY DEF FrameAt
    <3>2. Handle(c, f) /\ username' = username
      BY <2>3 DEF OnDirectMessage
    <3> HIDE DEF f
    <3>3. QED
      BY <3>1, <3>2
  <2>4. QED
    BY <2>1, <2>2, <2>3
<1>2. /\ \A d \in Conns : d # c => username'[d] = username[d]
      /\ UNCHANGED <<log, sock, acceptor>> /\ stack[Io] = <<>> /\ reads[c] # Idle
      /\ \A d \in Conns : reads'[d] = (IF d = c THEN Idle ELSE reads[d])
  <2>1. reads[c].kind # "idle"
    BY DEF OnFirstText, OnText, OnDirectMessage, ReadDone
  <2>2. reads[c] # Idle
    BY <2>1 DEF Idle
  <2>3. QED
    BY <1>1, <2>2 DEF OnFirstText, OnText, OnDirectMessage, ReadDone, IoIdle, Handle, hist, TypeOK
<1> DEFINE r == FrameAt("rearm", "none", c, NoName)
<1>3. r.at = "rearm" /\ r.c = c
  BY DEF FrameAt
<1> HIDE DEF r
<1>4. Handler' = r /\ Nested' /\ Called' = f
  <2>1. Handler' = r /\ DOMAIN stack'[Io] = {1, 2} /\ stack'[Io][2] = f
    BY <1>1, HandlerHandle, HandleElements DEF r
  <2>2. QED
    BY <2>1 DEF Nested, Called
<1>5. ~Nested /\ ~Saying
  BY <1>2 DEF Nested, Saying
<1>6. ~Room!Departed(c)
  BY <1>2, BusyPresent DEF Quit
<1>7. /\ \A d, n : Room!Joined(d, n)' <=> Room!Joined(d, n)
      /\ \A d : Room!Departed(d)' <=> Room!Departed(d)
  BY <1>2 DEF Room!Joined, Room!Departed
<1>8. username[c] = NoName => \A n \in Names : ~Room!Joined(c, n)
  BY ConstantsAssumption DEF StoryInv, NameInv
<1>9. NameInv'
  BY <1>1, <1>2, <1>7, <1>8 DEF StoryInv, NameInv
<1>10. IntroInv'
  <2>1. ASSUME NEW d \in Conns, username'[d] = username[d], username[d] # NoName
        PROVE  Room!Joined(d, username[d])'
    BY <1>5, <1>7, <2>1 DEF StoryInv, IntroInv, Announcing
  <2>2. ASSUME username' # username PROVE Announcing(c)'
    BY <1>1, <1>4, <2>2 DEF Announcing, Saying
  <2>3. QED
    BY <1>2, <1>7, <2>1, <2>2 DEF IntroInv
<1>11. SayInv'
  <2>1. ASSUME f.at = "bcast", f.kind = "chat" PROVE Room!Joined(c, username[c])
    BY <1>1, <1>5, <2>1 DEF StoryInv, IntroInv, Announcing
  <2>2. QED
    BY <1>1, <1>4, <1>7, <1>8, <2>1 DEF SayInv, Saying
<1>12. EraseInv'
  BY <1>3, <1>4 DEF EraseInv
<1>13. LeaveInv'
  BY <1>2, <1>3, <1>4, <1>6, <1>7 DEF StoryInv, LeaveInv, Leaving, Quit
<1>14. SessionStory' /\ (\A k \in DOMAIN log : log[k].kind = "left" => log[k].by \in Conns)'
  BY <1>2 DEF StoryInv, SessionStory
<1>15. QED
  BY <1>9, <1>10, <1>11, <1>12, <1>13, <1>14 DEF StoryInv

LEMMA StoryReading ==
  ASSUME TypeOK, StoryInv, NEW c \in Conns, Reading(c)
  PROVE  StoryInv'
<1>1. CASE OnReadError(c)
  <2> DEFINE f == FrameAt("remove", "none", c, NoName)
  <2>1. /\ stack[Io] = <<>> /\ Push(Io, f) /\ reads[c] # Idle
        /\ UNCHANGED <<log, username, sock, acceptor>>
        /\ \A d \in Conns : d # c => reads'[d] = reads[d]
    BY <1>1 DEF OnReadError, ReadDone, IoIdle, Idle, data, hist, TypeOK
  <2>2. f.at = "remove" /\ f.c = c
    BY DEF FrameAt
  <2> HIDE DEF f
  <2>3. Handler' = f /\ DOMAIN stack'[Io] = {1}
    BY <2>1, IoIsThread, HandlerPush, PushElements
  <2>4. ~Saying /\ ~Saying'
    BY <2>1, <2>3 DEF Saying, Nested
  <2>5. ~Room!Departed(c)
    BY <2>1, BusyPresent DEF Quit
  <2>6. QED
    BY <2>1, <2>2, <2>3, <2>4, <2>5, StoryHandler DEF Quit
<1>2. CASE OnBlank(c) \/ OnUnparsable(c) \/ OnOddMessage(c)
  <2>1. /\ UNCHANGED <<log, username, sock, acceptor, stack>> /\ reads[c] # Idle
        /\ \A d \in Conns : d # c => reads'[d] = reads[d]
    BY <1>2 DEF OnBlank, OnUnparsable, OnOddMessage, ReadDone, Idle, ReadClientMessage, data,
       hist, TypeOK
  <2>2. QED
    BY <2>1, StoryStill DEF Quit
<1>3. QED
  BY <1>1, <1>2, StoryHandle DEF Reading

LEMMA StoryCallers ==
  ASSUME TypeOK, ScopeInv, ShapeInv, TreeInv, StoryInv, NEW t \in Callers,
         CallerStep(t) \/ CallBroadcast(t) \/ CallShutdown(t)
  PROVE  StoryInv'
<1>1. t \in Threads /\ t # Io
  BY ConstantsAssumption DEF Threads
<1>2. CASE \/ CallBroadcast(t) \/ CallShutdown(t) \/ Shutdown(t)
           \/ SkipExcluded(t) \/ SendLine(t) \/ SendLineFails(t) \/ EndBroadcast(t) \/ RemoveClient(t)
  <2>1. UNCHANGED <<log, username>>
    BY <1>2 DEF CallBroadcast, CallShutdown, Shutdown, SkipExcluded, SendLine, SendLineFails,
       EndBroadcast, RemoveClient, data, hist
  <2>2. stack'[Io] = stack[Io]
    BY <1>1, <1>2, IoIsThread DEF CallBroadcast, CallShutdown, Shutdown, SkipExcluded, SendLine,
       SendLineFails, EndBroadcast, RemoveClient, Push, Goto, Call, Return, TypeOK
  <2>3. \A c \in Conns : Quit(c) => Quit(c)'
    <3>1. CASE Shutdown(t)
      <4>1. CloseSockets(Range(m_clients)) /\ acceptor'.c = acceptor.c
        BY <3>1 DEF Shutdown, TypeOK, Acceptor
      <4>2. QED
        BY <4>1, CloseFacts DEF Quit
    <3>2. CASE ~Shutdown(t)
      BY <1>2, <3>2 DEF CallBroadcast, CallShutdown, SkipExcluded, SendLine, SendLineFails,
         EndBroadcast, RemoveClient, asio, Quit
    <3>3. QED
      BY <3>1, <3>2
  <2>4. QED
    BY <2>1, <2>2, <2>3, StoryStill
<1>3. QED
  BY <1>1, <1>2, StoryNotice, StoryErase DEF CallerStep, Broadcasting

LEMMA StoryEnvironment ==
  ASSUME TypeOK, StoryInv,
         (\E c \in Conns : Completion(c) \/ Peers(c)) \/ AcceptFails \/ UNCHANGED vars
  PROVE  StoryInv'
<1>1. UNCHANGED <<log, username, stack>>
  BY DEF Completion, Peers, AcceptCompletes, ReadCompletes, ReadSplits, ReadFails,
     PeerConnect, PeerSend, PeerRead, PeerLeave, AcceptFails, vars, data, hist
<1>2. \A d \in Conns : Quit(d) => Quit(d)'
  <2>1. ASSUME NEW c \in Conns, AcceptCompletes(c), NEW d \in Conns, Quit(d) PROVE Quit(d)'
    <3>1. sock[c] = "none" /\ acceptor'.c = c /\ reads' = reads
          /\ (d # c => sock'[d] = sock[d])
      BY <2>1 DEF AcceptCompletes, TypeOK, Acceptor
    <3>2. QED
      BY <2>1, <3>1 DEF Quit
  <2>2. ASSUME NEW c \in Conns, ReadCompletes(c) \/ ReadSplits(c) \/ ReadFails(c)
        PROVE  \A d \in Conns : Quit(d) => Quit(d)'
    <3>1. /\ UNCHANGED <<sock, acceptor>> /\ reads[c] # Idle
          /\ \A d \in Conns : d # c => reads'[d] = reads[d]
      BY <2>2, ReadKinds DEF ReadCompletes, ReadSplits, ReadFails, TypeOK
    <3>2. QED
      BY <3>1 DEF Quit
  <2>3. ASSUME (\E c \in Conns : Peers(c)) \/ AcceptFails \/ UNCHANGED vars
        PROVE  \A d \in Conns : Quit(d) => Quit(d)'
    <3>1. UNCHANGED <<sock, reads>> /\ acceptor'.c = acceptor.c
      BY <2>3 DEF Peers, PeerConnect, PeerSend, PeerRead, PeerLeave, AcceptFails, vars, asio,
         TypeOK, Acceptor
    <3>2. QED
      BY <3>1 DEF Quit
  <2>4. QED
    BY <2>1, <2>2, <2>3 DEF Completion
<1>3. QED
  BY <1>1, <1>2, StoryStill

LEMMA StoryInit == Init => StoryInv
<1> SUFFICES ASSUME Init PROVE StoryInv
  OBVIOUS
<1>1. log = <<>> /\ \A c \in Conns : username[c] = NoName
  BY DEF Init
<1>2. (\A c, n : ~Room!Joined(c, n)) /\ \A c : ~Room!Departed(c)
  BY <1>1 DEF Room!Joined, Room!Departed
<1>3. ~Nested /\ Handler.at # "erase"
  <2>1. stack[Io] = <<FrameAt("start", "none", NoConn, NoName)>>
    BY IoIsThread DEF Init
  <2>2. QED
    BY <2>1 DEF Nested, Handler, Bottom, FrameAt
<1>4. QED
  BY <1>1, <1>2, <1>3 DEF StoryInv, NameInv, IntroInv, SayInv, LeaveInv, EraseInv, SessionStory,
     Saying

LEMMA StoryStep ==
  TypeOK /\ ScopeInv /\ ShapeInv /\ SessionInv /\ RecordInv /\ TreeInv /\ StoryInv
    /\ [Next]_vars => StoryInv'
<1>1. SUFFICES ASSUME TypeOK, ScopeInv, ShapeInv, SessionInv, RecordInv, TreeInv, StoryInv,
                      [Next]_vars
               PROVE  StoryInv'
  OBVIOUS
<1>2. CASE IoStep
  BY <1>1, <1>2, StoryAccepting, StoryDirect, StoryBroadcasting, StoryReading DEF IoStep
<1>3. CASE \E t \in Callers : CallerStep(t) \/ CallBroadcast(t) \/ CallShutdown(t)
  BY <1>1, <1>3, StoryCallers
<1>4. CASE (\E c \in Conns : Completion(c) \/ Peers(c)) \/ AcceptFails \/ UNCHANGED vars
  BY <1>1, <1>4, StoryEnvironment
<1>5. QED
  BY <1>1, <1>2, <1>3, <1>4 DEF Next

-----------------------------------------------------------------------------
(* The theorems.                                                            *)

\* In the history of a session "joined" comes before the first chat line and
\* before "left", under the same name, and nothing comes after "left", although
\* a removal may start below a broadcast of any thread.
THEOREM SessionStoryCorrect == Spec => []SessionStory
<1> DEFINE Inv == /\ TypeOK /\ ScopeInv /\ ShapeInv /\ SessionInv
                  /\ RecordInv /\ TreeInv /\ StoryInv
<1>1. Init => Inv
  BY TypeInit, ScopeInit, ShapeInit, SessionInit, RecordInit, TreeInit, StoryInit
<1>2. Inv /\ [Next]_vars => Inv'
  BY TypeStep, ScopeStep, ShapeStep, SessionStep, RecordStep, TreeStep, StoryStep
<1>3. Inv => SessionStory
  BY DEF StoryInv
<1> HIDE DEF Inv
<1>4. QED
  BY <1>1, <1>2, <1>3, PTL DEF Spec

-----------------------------------------------------------------------------
(***************************************************************************)
(* ChatServer implements ChatRoom.                                         *)
(***************************************************************************)
RoomInv ==
  /\ TypeOK /\ ScopeInv /\ ShapeInv /\ SessionInv /\ LimitInv
  /\ StuckInv /\ RecordInv /\ LineInv /\ TreeInv /\ StoryInv

LEMMA RoomInvInit == Init => RoomInv
BY TypeInit, ScopeInit, ShapeInit, SessionInit, LimitInit, RecordInit, LineInit, TreeInit, StoryInit
   DEF Init, StuckInv, RoomInv

LEMMA RoomInvStep == RoomInv /\ [Next]_vars => RoomInv'
<1>1. SUFFICES ASSUME RoomInv, [Next]_vars PROVE RoomInv'
  OBVIOUS
<1>2. /\ TypeOK' /\ ScopeInv' /\ ShapeInv' /\ SessionInv' /\ LimitInv' /\ RecordInv'
      /\ TreeInv' /\ StoryInv'
  BY <1>1, TypeStep, ScopeStep, ShapeStep, SessionStep, LimitStep, RecordStep, TreeStep, StoryStep
     DEF RoomInv
<1>3. StuckInv'
  BY <1>1, <1>2, StuckStep DEF RoomInv
<1>4. failed' # {} => m_clientsMutex' # Nobody
  BY <1>2, <1>3, ConstantsAssumption DEF ScopeInv, StuckInv
<1>5. LineInv'
  BY <1>1, <1>4, LineStep DEF RoomInv
<1>6. QED
  BY <1>2, <1>3, <1>5 DEF RoomInv

\* The state of the room, and what the server has to keep for it not to change.
LEMMA RoomVars == Room!vars = <<Range(m_clients), log, inbox, PendingSessions>>
BY DEF Room!vars

\* DirectOpen in terms of the records in scope.
DirectScope == \E f \in OpenLines : f.at \in {"dmsend", "nouser"}

LEMMA DirectOpenIs == RecordInv => (DirectOpen <=> DirectScope)
<1> SUFFICES ASSUME RecordInv PROVE DirectOpen <=> DirectScope
  OBVIOUS
<1>1. ASSUME NEW f \in Range(stack[Io]), f.at \in {"dmsend", "nouser"} PROVE f \in OpenLines
  BY <1>1, IoIsThread DEF OpenLines, LockedAt
<1>2. ASSUME NEW f \in OpenLines, f.at \in {"dmsend", "nouser"} PROVE f \in Range(stack[Io])
  BY <1>2 DEF OpenLines, RecordInv
<1>3. QED
  BY <1>1, <1>2 DEF DirectOpen, DirectScope

LEMMA PendingKept ==
  ASSUME UNCHANGED <<log, inbox>>,
         DirectOpen' = DirectOpen \/ (log # <<>> => log[Len(log)].kind \notin {"dm", "nouser"})
  PROVE  PendingSessions' = PendingSessions
BY DEF PendingSessions, Audience

\* The room is quiet while the mutex is free.
LEMMA RoomQuiet ==
  ASSUME RoomInv, m_clientsMutex = Nobody
  PROVE  PendingSessions = {}
<1>1. ~DirectOpen
  BY OpenFree, DirectOpenIs DEF RoomInv, DirectScope
<1>2. SUFFICES ASSUME NEW c \in PendingSessions PROVE FALSE
  OBVIOUS
<1>3. /\ c \in Conns /\ log # <<>> /\ c \in Audience(Len(log)) /\ Len(log) \notin Range(inbox[c])
      /\ log[Len(log)].kind \notin {"dm", "nouser"}
  BY <1>1 DEF PendingSessions
<1>4. Len(log) \in DOMAIN log
  BY <1>3, EmptySeq, LenProperties DEF RoomInv, TypeOK
<1>5. Reached(Len(log))
  BY <1>4 DEF RoomInv, LineInv
<1>6. QED
  BY <1>3, <1>5 DEF Reached, Delivered

\* Who is to get a new line.
LEMMA PendingNew ==
  ASSUME TypeOK, LineInv, NEW l \in Line, log' = Append(log, l), UNCHANGED inbox,
         l.kind \in {"dm", "nouser"} => DirectOpen'
  PROVE  PendingSessions' = IF l.kind \in {"chat", "left"} THEN l.to \ {l.by} ELSE l.to
<1>1. /\ Len(log) \in Nat /\ DOMAIN log = 1..Len(log)
      /\ Len(log') = Len(log) + 1 /\ log'[Len(log) + 1] = l /\ log' # <<>>
  <2>1. /\ log \in Seq(Line) /\ Len(log) \in Nat /\ DOMAIN log = 1..Len(log)
        /\ Len(log') = Len(log) + 1 /\ log'[Len(log) + 1] = l
    BY AppendProperties, LenProperties DEF TypeOK
  <2>2. QED
    BY <2>1
<1>2. \A c \in Conns : Len(log') \notin Range(inbox'[c])
  BY <1>1 DEF LineInv
<1>3. Audience(Len(log))' = IF l.kind \in {"chat", "left"} THEN l.to \ {l.by} ELSE l.to
  BY <1>1 DEF Audience
<1>4. l.to \subseteq Conns
  BY DEF Line
<1>5. PendingSessions' = {c \in Conns : c \in Audience(Len(log))'}
  BY <1>1, <1>2 DEF PendingSessions
<1>6. QED
  BY <1>3, <1>4, <1>5

\* One session is written the last line.
LEMMA PendingWritten ==
  ASSUME TypeOK, LineInv, UNCHANGED log, NEW c \in Conns, log # <<>>,
         c \in Audience(Len(log)), Len(log) \notin Range(inbox[c]), Deliver(c, Len(log)),
         DirectOpen' = DirectOpen \/ Audience(Len(log)) = {c}
           \/ log[Len(log)].kind \notin {"dm", "nouser"},
         log[Len(log)].kind \in {"dm", "nouser"} => DirectOpen
  PROVE  c \in PendingSessions /\ PendingSessions' = PendingSessions \ {c}
<1>1. Len(log) \in DOMAIN log
  BY EmptySeq, LenProperties DEF TypeOK
<1>2. \A d \in Conns : Len(log) \in Range(inbox'[d]) <=> Len(log) \in Range(inbox[d]) \/ d = c
  BY <1>1, LineWritten
<1>3. Audience(Len(log))' = Audience(Len(log))
  BY DEF Audience
<1>4. QED
  BY <1>2, <1>3 DEF PendingSessions

-----------------------------------------------------------------------------
(* Saying a line.                                                           *)

LEMMA RoomSay ==
  ASSUME RoomInv, NEW t \in Threads, StartBroadcast(t)
  PROVE  Room!Next
<1> PICK f : f = Top(t)
  OBVIOUS
<1> PICK l : l = [kind |-> f.kind, by |-> f.c, who |-> f.name, to |-> Range(m_clients)]
  OBVIOUS
<1>1. /\ stack[t] # <<>> /\ f.at = "bcast" /\ m_clientsMutex = Nobody
      /\ log' = Append(log, l) /\ UNCHANGED <<inbox, m_clients>>
      /\ TypeOK /\ LineInv /\ RecordInv
  BY DEF StartBroadcast, At, Lock, CanLock, data, RoomInv
<1>2. f \in Frame /\ f \in Range(stack[t]) /\ m_clients \in Seq(Conns)
  BY <1>1, TopType, StackFacts DEF TypeOK, Range
<1>3. f.kind \in {"joined", "chat", "left", "notice"}
  BY <1>1, <1>2 DEF RecordInv
<1>4. l \in Line /\ l.kind = f.kind /\ l.by = f.c /\ l.who = f.name /\ l.to = Range(m_clients)
  BY <1>2, <1>3 DEF Frame, Line, LineKinds, Range
<1>5. PendingSessions = {}
  BY <1>1, RoomQuiet
<1>6. PendingSessions' = IF f.kind \in {"chat", "left"} THEN Range(m_clients) \ {f.c}
                         ELSE Range(m_clients)
  BY <1>1, <1>3, <1>4, PendingNew
<1>7. ASSUME NEW E, E = IF f.kind \in {"chat", "left"} THEN {f.c} ELSE {}
      PROVE  Room!Say(f.kind, f.c, f.name, Range(m_clients), E)
  BY <1>1, <1>5, <1>6, <1>7 DEF Room!Say, Room!Quiet
<1>8. CASE t = Io
  <2>1. /\ f.kind \in {"joined", "chat", "left"} /\ f.c \in Conns /\ ~Room!Departed(f.c)
        /\ f.kind = "joined" => \A n \in Names : ~Room!Joined(f.c, n)
        /\ f.kind \in {"chat", "left"} => f.name # NoName /\ Room!Joined(f.c, f.name)
    BY <1>8, SayFacts DEF RoomInv
  <2>2. f.name \in Names \cup {NoName}
    BY <1>2 DEF Frame
  <2>3. CASE f.kind = "joined"
    BY <1>7, <2>1, <2>2, <2>3 DEF Room!Next, Room!SayJoined, Room!Present
  <2>4. CASE f.kind = "chat"
    BY <1>7, <2>1, <2>2, <2>4 DEF Room!Next, Room!SayChat, Room!Known, Room!Present
  <2>5. CASE f.kind = "left"
    BY <1>7, <2>1, <2>2, <2>5 DEF Room!Next, Room!SayLeft, Room!Known, Room!Present
  <2>6. QED
    BY <2>1, <2>3, <2>4, <2>5
<1>9. CASE t # Io
  <2>1. f.kind = "notice" /\ f.c = NoConn /\ f.name = NoName
    BY <1>1, <1>9, NoticeFacts DEF Threads, RoomInv
  <2>2. QED
    BY <1>7, <2>1 DEF Room!Next, Room!SayNotice
<1>10. QED
  BY <1>8, <1>9

LEMMA RoomWhisper ==
  ASSUME RoomInv, StartDirect
  PROVE  Room!Next
<1> PICK f : f = Top(Io)
  OBVIOUS
<1> PICK it : it = FindClient(f.name)
  OBVIOUS
<1> DEFINE kind == IF it = 0 THEN "nouser" ELSE "dm"
           whom == IF it = 0 THEN f.c ELSE m_clients[it]
<1> PICK g : g = [f EXCEPT !.at = IF it = 0 THEN "nouser" ELSE "dmsend",
                           !.kind = kind, !.id = Len(log) + 1, !.next = it]
  OBVIOUS
<1> PICK l : l = [kind |-> kind, by |-> f.c, who |-> username[f.c], to |-> {whom}]
  OBVIOUS
<1>1. /\ stack[Io] # <<>> /\ f.at = "dm" /\ m_clientsMutex = Nobody /\ Io \in Threads
      /\ log' = Append(log, l) /\ Goto(Io, g) /\ UNCHANGED <<inbox, m_clients>>
      /\ TypeOK /\ LineInv /\ RecordInv
  BY IoIsThread DEF StartDirect, At, Lock, CanLock, data, RoomInv
<1>2. f \in Frame /\ m_clients \in Seq(Conns)
  BY <1>1, TopType DEF TypeOK
<1>3. f.c \in Conns /\ ~Room!Departed(f.c) /\ ~Saying
  BY WhisperFacts DEF RoomInv
<1>4. IF it = 0 THEN whom = f.c ELSE whom \in Range(m_clients)
  <2>1. it = 0 \/ it \in DOMAIN m_clients
    BY <1>2, FindClientFacts, LenProperties
  <2>2. QED
    BY <2>1 DEF Range
<1>5. whom \in Conns
  BY <1>2, <1>3, <1>4 DEF Range
<1>6. /\ l \in Line /\ l.kind = kind /\ l.by = f.c /\ l.to = {whom}
      /\ username[f.c] \in Names \cup {NoName}
  BY <1>1, <1>3, <1>5 DEF Line, LineKinds, TypeOK
<1>7. DirectOpen'
  <2>1. g.at \in {"dmsend", "nouser"}
    BY <1>2 DEF Frame
  <2>2. g \in Range(stack'[Io])
    <3>1. Len(stack[Io]) \in DOMAIN stack'[Io] /\ stack'[Io][Len(stack[Io])] = g
      BY <1>1, GotoElements, StackFacts
    <3>2. QED
      BY <3>1 DEF Range
  <2>3. QED
    BY <2>1, <2>2 DEF DirectOpen
<1>8. PendingSessions' = {whom}
  <2>1. PendingSessions' = IF l.kind \in {"chat", "left"} THEN l.to \ {l.by} ELSE l.to
    BY <1>1, <1>6, <1>7, PendingNew
  <2>2. QED
    BY <1>6, <2>1
<1>9. PendingSessions = {}
  BY <1>1, RoomQuiet
<1>10. Room!Say(kind, f.c, username[f.c], {whom}, {})
  BY <1>1, <1>8, <1>9 DEF Room!Say, Room!Quiet
<1>11. username[f.c] = NoName \/ Room!Joined(f.c, username[f.c])
  BY <1>3 DEF RoomInv, StoryInv, IntroInv, Announcing
<1>12. Room!Whisper(f.c, username[f.c])
  BY <1>3, <1>4, <1>10, <1>11 DEF Room!Whisper, Room!Present
<1>13. QED
  BY <1>3, <1>6, <1>12 DEF Room!Next

-----------------------------------------------------------------------------
(* Sending a line.                                                          *)

LEMMA RoomSending ==
  ASSUME RoomInv, NEW t \in Threads,
         SkipExcluded(t) \/ SendLine(t) \/ SendLineFails(t) \/ EndBroadcast(t)
  PROVE  [Room!Next]_(Room!vars)
<1> PICK f : f = Top(t)
  OBVIOUS
<1> PICK c : c = Target(t)
  OBVIOUS
<1>1. /\ stack[t] # <<>> /\ f.at = "sending" /\ UNCHANGED <<log, m_clients>>
      /\ TypeOK /\ ScopeInv /\ LineInv
  BY DEF SkipExcluded, SendLine, SendLineFails, EndBroadcast, Sending, At, data, hist, RoomInv
<1>2. f \in Frame /\ m_clients \in Seq(Conns)
  BY <1>1, TopType DEF TypeOK
<1>3. LineOf(f) /\ Broadcasted(f)
  <2>1. OpenLines = {f}
    BY <1>1, OpenTop DEF LockedAt
  <2>2. QED
    BY <1>1, <2>1 DEF LineInv, LineOf
<1>4. /\ f.id = Len(log) /\ f.id \in DOMAIN log /\ log # <<>>
      /\ log[Len(log)].kind \notin {"dm", "nouser"}
      /\ log[Len(log)].kind = f.kind /\ log[Len(log)].by = f.c
      /\ log[Len(log)].to = Range(m_clients)
  BY <1>3 DEF LineOf, Broadcasted
<1>5. CASE ~SendLine(t)
  <2>1. UNCHANGED inbox
    BY <1>5 DEF SkipExcluded, SendLineFails, EndBroadcast, hist
  <2>2. PendingSessions' = PendingSessions
    BY <1>1, <1>4, <2>1, PendingKept
  <2>3. QED
    BY <1>1, <2>1, <2>2, RoomVars DEF Room!vars
<1>6. CASE SendLine(t)
  <2>1. ~Excluded(f, c) /\ Deliver(c, Len(log)) /\ f.next <= Len(m_clients)
    BY <1>4, <1>6 DEF SendLine, Sending
  <2>2. f.next \in DOMAIN m_clients /\ c = m_clients[f.next] /\ c \in Conns /\ c \in Range(m_clients)
    <3>1. f.next \in 1..Len(m_clients) /\ DOMAIN m_clients = 1..Len(m_clients)
      BY <1>2, <1>3, <2>1, LenProperties DEF Broadcasted
    <3>2. QED
      BY <1>2, <3>1 DEF Range, Target
  <2>3. Len(log) \notin Range(inbox[c])
    <3>1. f.next \in Nat
      BY <1>2 DEF Frame
    <3>2. f.next >= f.next
      BY <3>1
    <3>3. QED
      BY <1>3, <1>4, <2>2, <3>2 DEF Broadcasted, Got
  <2>4. c \in Audience(Len(log))
    BY <1>4, <2>1, <2>2 DEF Audience, Excluded
  <2>5. c \in PendingSessions /\ PendingSessions' = PendingSessions \ {c}
    BY <1>1, <1>4, <2>1, <2>2, <2>3, <2>4, PendingWritten
  <2>6. Room!Reach(c)
    BY <1>1, <2>1, <2>5 DEF Room!Reach, Deliver
  <2>7. QED
    BY <2>2, <2>6 DEF Room!Next
<1>7. QED
  BY <1>5, <1>6

LEMMA RoomDirect ==
  ASSUME RoomInv, SendDirect \/ SendNotFound
  PROVE  [Room!Next]_(Room!vars)
<1> PICK f : f = Top(Io)
  OBVIOUS
<1> PICK w : w = Whom(f)
  OBVIOUS
<1>1. /\ stack[Io] # <<>> /\ f.at \in {"dmsend", "nouser"} /\ process = "up"
      /\ UNCHANGED <<log, m_clients>> /\ Io \in Threads
      /\ TypeOK /\ ScopeInv /\ RecordInv /\ LineInv
  BY IoIsThread DEF SendDirect, SendNotFound, At, data, RoomInv
<1>2. f \in Frame /\ m_clients \in Seq(Conns)
  BY <1>1, TopType DEF TypeOK
<1>3. OpenLines = {f}
  BY <1>1, OpenTop DEF LockedAt
<1>4. LineOf(f) /\ Directed(f)
  BY <1>1, <1>3 DEF LineInv, LineOf
<1>5. w \in Conns
  <2>1. CASE f.at = "dmsend"
    BY <1>2, <1>4, <2>1 DEF Directed, Whom
  <2>2. CASE f.at # "dmsend"
    BY <1>1, <1>2, <2>2, FrameConn DEF Whom
  <2>3. QED
    BY <2>1, <2>2
<1>6. /\ f.id = Len(log) /\ f.id \in DOMAIN log /\ log # <<>> /\ Len(log) \notin Range(inbox[w])
      /\ log[Len(log)].kind \in {"dm", "nouser"} /\ log[Len(log)].to = {w}
  BY <1>1, <1>4 DEF LineOf, Directed, Got
<1>7. Audience(Len(log)) = {w} /\ DirectOpen
  BY <1>1, <1>3, <1>6, DirectOpenIs DEF Audience, DirectScope
<1>8. PendingSessions = {w}
  BY <1>5, <1>6, <1>7 DEF PendingSessions
<1>9. CASE Deliver(w, Len(log))
  <2>1. PendingSessions' = PendingSessions \ {w}
    BY <1>1, <1>5, <1>6, <1>7, <1>9, PendingWritten
  <2>2. Room!Reach(w)
    BY <1>1, <1>8, <1>9, <2>1 DEF Room!Reach, Deliver
  <2>3. QED
    BY <1>5, <2>2 DEF Room!Next
<1>10. CASE UNCHANGED inbox
  <2>1. CASE Return(Io)
    <3>1. OpenLines' = {}
      BY <1>1, <2>1, OpenAlone, OpenReturn DEF LockedAt
    <3>2. RecordInv'
      BY <1>1, RecordStep DEF RoomInv, Next, IoStep, Direct
    <3>3. ~DirectOpen'
      <4>1. DirectOpen' <=> DirectScope'
        BY <3>2, DirectOpenIs, PTL
      <4>2. QED
        BY <3>1, <4>1 DEF DirectScope
    <3>4. PendingSessions' = {}
      BY <1>1, <1>6, <3>3 DEF PendingSessions
    <3>5. Room!GiveUp
      BY <1>1, <1>6, <1>8, <1>10, <3>4 DEF Room!GiveUp, Room!Quiet
    <3>6. QED
      BY <3>5 DEF Room!Next
  <2>2. CASE UNCHANGED stack
    <3>1. DirectOpen' = DirectOpen
      BY <2>2 DEF DirectOpen
    <3>2. PendingSessions' = PendingSessions
      BY <1>1, <1>10, <3>1, PendingKept
    <3>3. QED
      BY <1>1, <1>10, <3>2 DEF Room!vars
  <2>3. QED
    BY <2>1, <2>2 DEF SendDirect, SendNotFound
<1>11. WriteDirect(w)
  BY <1>1 DEF SendDirect, SendNotFound, At, Whom, Target
<1>12. QED
  BY <1>6, <1>9, <1>10, <1>11 DEF WriteDirect

-----------------------------------------------------------------------------
(* Entering and leaving.                                                    *)

\* A list has no more members than elements.
LEMMA ListCardinality ==
  ASSUME NEW S, NEW s \in Seq(S)
  PROVE  Cardinality(Range(s)) \in Nat /\ Cardinality(Range(s)) <= Len(s)
<1>1. Len(s) \in Nat /\ DOMAIN s = 1..Len(s)
  BY LenProperties
<1>2. s \in Surjection(1..Len(s), Range(s))
  BY <1>1 DEF Surjection, Range
<1>3. ExistsSurjection(1..Len(s), Range(s))
  BY <1>2 DEF ExistsSurjection
<1>4. Cardinality(Range(s)) <= Len(s)
  BY <1>1, <1>3, FS_SurjCardinalityBound
<1>5. IsFiniteSet(Range(s))
  BY <1>1, <1>3, FS_NatSurjection
<1>6. QED
  BY <1>4, <1>5, FS_CardinalityType

LEMMA RoomEnter ==
  ASSUME RoomInv, PushClient, PendingSessions' = PendingSessions
  PROVE  Room!Next
<1> DEFINE d == Top(Io).c
<1>1. /\ stack[Io] # <<>> /\ Top(Io).at = "push" /\ Top(Io).at \in Outer
      /\ m_clients' = Append(m_clients, d) /\ UNCHANGED <<log, inbox>> /\ m_clientsMutex = Nobody
      /\ TypeOK /\ ShapeInv /\ SessionInv /\ LimitInv
  BY DEF PushClient, At, Outer, CanLock, hist, RoomInv
<1>2. d \in Conns /\ m_clients \in Seq(Conns) /\ Handler.c = d /\ Handler.at = "push"
  BY <1>1, OuterTop DEF ShapeInv, TypeOK
<1>3. d \notin Range(m_clients)
  BY <1>2, <1>1 DEF SessionInv, Session, Admitting, Member
<1>4. Range(m_clients') = Range(m_clients) \cup {d}
  BY <1>1, <1>2, ListAppend
<1>5. Cardinality(Range(m_clients)) < MaxClients
  <2>1. Len(stack[Io]) \in Pushing
    BY <1>1, IoIsThread, TopPlace DEF Pushing
  <2>2. Len(m_clients) < MaxClients
    BY <1>1, <2>1 DEF LimitInv
  <2>3. QED
    BY <1>2, <2>2, ListCardinality, LenProperties, ConstantsAssumption
<1>6. PendingSessions = {}
  BY <1>1, RoomQuiet
<1>7. Room!Enter(d)
  BY <1>1, <1>3, <1>4, <1>5, <1>6 DEF Room!Enter, Room!Quiet, Room!Cardinality, Cardinality
<1>8. QED
  BY <1>2, <1>7 DEF Room!Next

LEMMA RoomLeave ==
  ASSUME RoomInv, NEW t \in Threads, EraseClient(t), PendingSessions' = PendingSessions
  PROVE  [Room!Next]_(Room!vars)
<1>1. t = Io /\ Len(stack[Io]) = 1
  BY EraseIsHandler DEF RoomInv
<1> DEFINE d == Top(Io).c
<1>2. /\ stack[Io] # <<>> /\ Top(Io).at = "erase" /\ m_clientsMutex = Nobody
      /\ m_clients' = RemoveFirst(m_clients, d) /\ UNCHANGED <<log, inbox>>
  BY <1>1 DEF EraseClient, At, CanLock, hist
<1>3. Handler = Top(Io) /\ ~Nested
  BY <1>1, <1>2, IoLevels DEF RoomInv
<1>4. Range(m_clients') = Range(m_clients) \ {d}
  BY <1>2, ListRemove DEF RoomInv, TypeOK, SessionInv
<1>5. PendingSessions = {}
  BY <1>2, RoomQuiet
<1>6. CASE d \in Range(m_clients)
  <2>1. d \in Conns
    BY <1>6 DEF RoomInv, TypeOK, Range
  <2>2. (\E who \in Names : Room!Joined(d, who)) => Room!Departed(d)
    <3>1. SUFFICES ASSUME NEW who \in Names, Room!Joined(d, who) PROVE Room!Departed(d)
      OBVIOUS
    <3>2. username[d] # NoName
      BY <2>1, <3>1, ConstantsAssumption DEF RoomInv, StoryInv, NameInv
    <3>3. QED
      BY <1>2, <1>3, <3>2 DEF RoomInv, StoryInv, EraseInv, Saying
  <2>3. Room!Leave(d)
    BY <1>2, <1>4, <1>5, <1>6, <2>2 DEF Room!Leave, Room!Quiet
  <2>4. QED
    BY <2>1, <2>3 DEF Room!Next
<1>7. CASE d \notin Range(m_clients)
  BY <1>2, <1>4, <1>7 DEF Room!vars
<1>8. QED
  BY <1>6, <1>7

LEMMA RoomClose ==
  ASSUME RoomInv, NEW t \in Callers, Shutdown(t), PendingSessions' = PendingSessions
  PROVE  Room!Next
<1>1. m_clients' = <<>> /\ UNCHANGED <<log, inbox>> /\ m_clientsMutex = Nobody
  BY DEF Shutdown, CanLock, hist
<1>2. Range(m_clients') = {}
  BY <1>1 DEF Range
<1>3. PendingSessions = {}
  BY <1>1, RoomQuiet
<1>4. Room!Close
  BY <1>1, <1>2, <1>3 DEF Room!Close, Room!Quiet
<1>5. QED
  BY <1>4 DEF Room!Next

LEMMA RoomQuietStep ==
  ASSUME RoomInv, RoomInv', [Next]_vars, Quiet
  PROVE  [Room!Next]_(Room!vars)
<1>1. UNCHANGED <<log, inbox>>
  BY QuietLog
<1>2. OpenLines' = OpenLines
  BY StackSteps, QuietStacks, OpenKept DEF RoomInv
<1>3. DirectOpen' = DirectOpen
  <2>1. RecordInv /\ RecordInv'
    BY DEF RoomInv
  <2>2. (DirectOpen <=> DirectScope) /\ (DirectOpen' <=> DirectScope')
    BY <2>1, DirectOpenIs, PTL
  <2>3. DirectScope' <=> DirectScope
    BY <1>2 DEF DirectScope
  <2>4. QED
    BY <2>2, <2>3 DEF DirectOpen
<1>4. PendingSessions' = PendingSessions
  BY <1>1, <1>3, PendingKept
<1>5. CASE m_clients' = m_clients
  BY <1>1, <1>4, <1>5 DEF Room!vars
<1>6. m_clients' = m_clients \/ PushClient \/ (\E t \in Threads : EraseClient(t))
        \/ (\E t \in Callers : Shutdown(t))
  BY ClientsChange
<1>7. QED
  BY <1>4, <1>5, <1>6, RoomEnter, RoomLeave, RoomClose

\* Every step of the server is a step of the room or leaves it as it is.
LEMMA RoomStep ==
  ASSUME RoomInv, RoomInv', [Next]_vars
  PROVE  [Room!Next]_(Room!vars)
<1>1. CASE \E t \in Threads : StartBroadcast(t)
  BY <1>1, RoomSay
<1>2. CASE StartDirect
  BY <1>2, RoomWhisper
<1>3. QED
  BY <1>1, <1>2, StepKinds, RoomSending, RoomDirect, RoomQuietStep

\* The server says one line after the other, each to the members of one moment,
\* and nobody enters or leaves while one is under way: it implements ChatRoom.
THEOREM RoomCorrect == Spec => RoomImplemented
<1>1. Init => Room!Init
  <2>1. SUFFICES ASSUME Init PROVE Room!Init
    OBVIOUS
  <2>2. m_clients = <<>> /\ log = <<>> /\ inbox = [c \in Conns |-> <<>>]
    BY <2>1 DEF Init
  <2>3. Range(m_clients) = {} /\ PendingSessions = {}
    BY <2>2 DEF Range, PendingSessions
  <2>4. QED
    BY <2>2, <2>3 DEF Room!Init
<1>2. RoomInv /\ RoomInv' /\ [Next]_vars => [Room!Next]_(Room!vars)
  BY RoomStep
<1>3. QED
  BY <1>1, <1>2, RoomInvInit, RoomInvStep, PTL DEF Spec, RoomImplemented, Room!Spec

=============================================================================
