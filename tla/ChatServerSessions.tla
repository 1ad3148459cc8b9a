-------------------------- MODULE ChatServerSessions --------------------------
(***************************************************************************)
(* The sessions of ChatServer, proved for every value of its constants:    *)
(* m_clients lists exactly the open connections, none of them is           *)
(* forgotten, what is left after a shutdown and when main returns, and     *)
(* what can stop the server.                                               *)
(***************************************************************************)
EXTENDS ChatServerSafety

(***************************************************************************)
(* The session list as a set: adding and removing one session.             *)
(***************************************************************************)
LEMMA ListAppend ==
  ASSUME NEW S, NEW s \in Seq(S), NEW e \in S
  PROVE  /\ Range(Append(s, e)) = Range(s) \cup {e}
         /\ IsInjective(s) /\ e \notin Range(s) => IsInjective(Append(s, e))
<1> DEFINE r == Append(s, e)
<1>1. /\ DOMAIN s = 1..Len(s) /\ Len(s) \in Nat
      /\ DOMAIN r = 1..(Len(s) + 1) /\ r[Len(s) + 1] = e
      /\ \A i \in 1..Len(s) : r[i] = s[i]
  BY LenProperties, AppendProperties
<1> HIDE DEF r
<1>2. Range(r) = Range(s) \cup {e}
  BY <1>1 DEF Range
<1>3. IsInjective(s) /\ e \notin Range(s) => IsInjective(r)
  BY <1>1 DEF Range, IsInjective
<1>4. QED
  BY <1>2, <1>3 DEF r

\* Removing the element at i moves those after it by one.
LEMMA RemoveAtElements ==
  ASSUME NEW S, NEW s \in Seq(S), NEW i \in 1..Len(s)
  PROVE  LET r == RemoveAt(s, i) IN
         /\ r \in Seq(S) /\ DOMAIN r = 1..(Len(s) - 1)
         /\ \A k \in 1..(Len(s) - 1) : r[k] = s[IF k < i THEN k ELSE k + 1]
<1> DEFINE a == SubSeq(s, 1, i - 1)
           b == SubSeq(s, i + 1, Len(s))
           r == RemoveAt(s, i)
<1>1. a \in Seq(S) /\ Len(a) = i - 1 /\ \A k \in 1..(i - 1) : a[k] = s[k]
  BY PrefixLen
<1>2. /\ b \in Seq(S) /\ Len(b) = Len(s) - i
      /\ \A k \in 1..(Len(s) - i) : b[k] = s[i + k]
  BY SubSeqProperties
<1>3. r = a \o b
  BY DEF RemoveAt
<1>4. Len(s) \in Nat
  BY LenProperties
<1> HIDE DEF a, b, r
<1>5. /\ r \in Seq(S) /\ Len(r) = Len(a) + Len(b)
      /\ \A k \in 1..Len(r) : r[k] = IF k <= Len(a) THEN a[k] ELSE b[k - Len(a)]
  <2>1. /\ a \o b \in Seq(S) /\ Len(a \o b) = Len(a) + Len(b)
        /\ \A k \in 1..Len(a) + Len(b) :
              (a \o b)[k] = IF k <= Len(a) THEN a[k] ELSE b[k - Len(a)]
    BY <1>1, <1>2, ConcatProperties, Zenon
  <2>2. QED
    BY <1>3, <2>1, Zenon
<1>6. Len(r) = Len(s) - 1
  BY <1>1, <1>2, <1>4, <1>5
<1>7. DOMAIN r = 1..(Len(s) - 1)
  BY <1>5, <1>6, LenProperties
<1>8. ASSUME NEW k \in 1..(Len(s) - 1)
      PROVE  r[k] = s[IF k < i THEN k ELSE k + 1]
  <2>1. CASE k < i
    BY <1>1, <1>4, <1>5, <1>6, <2>1
  <2>2. CASE ~(k < i)
    <3>1. k - (i - 1) \in 1..(Len(s) - i) /\ i + (k - (i - 1)) = k + 1
      BY <1>4, <2>2
    <3>2. r[k] = b[k - (i - 1)]
      BY <1>1, <1>4, <1>5, <1>6, <2>2, SMTT(30)
    <3>3. QED
      BY <1>2, <2>2, <3>1, <3>2
  <2>3. QED
    BY <2>1, <2>2
<1>9. QED
  BY <1>5, <1>7, <1>8 DEF r

LEMMA ListRemove ==
  ASSUME NEW S, NEW s \in Seq(S), NEW e, IsInjective(s)
  PROVE  /\ Range(RemoveFirst(s, e)) = Range(s) \ {e}
         /\ IsInjective(RemoveFirst(s, e))
<1> DEFINE I == {i \in 1..Len(s) : s[i] = e}
<1>0. DOMAIN s = 1..Len(s) /\ Len(s) \in Nat
  BY LenProperties
<1>1. CASE I = {}
  <2>1. RemoveFirst(s, e) = s
    BY <1>1 DEF RemoveFirst
  <2>2. e \notin Range(s)
    BY <1>0, <1>1 DEF Range
  <2>3. QED
    BY <2>1, <2>2
<1>2. CASE I # {}
  <2>1. Min(I) \in I
    <3>1. I \subseteq Nat
      OBVIOUS
    <3>2. QED
      BY <3>1, <1>2, MinIsMember, Zenon
  <2>2. RemoveFirst(s, e) = RemoveAt(s, Min(I))
    BY <1>2 DEF RemoveFirst, SelectInSeq
  <2>3. PICK i \in 1..Len(s) : s[i] = e /\ RemoveFirst(s, e) = RemoveAt(s, i)
    BY <2>1, <2>2
  <2> DEFINE r == RemoveAt(s, i)
  <2>4. /\ DOMAIN r = 1..(Len(s) - 1)
        /\ \A k \in 1..(Len(s) - 1) : r[k] = s[IF k < i THEN k ELSE k + 1]
    BY RemoveAtElements
  <2> HIDE DEF r
  <2>5. IsInjective(r)
    <3>1. SUFFICES ASSUME NEW k \in 1..(Len(s) - 1), NEW m \in 1..(Len(s) - 1), r[k] = r[m]
                   PROVE  k = m
      BY <2>4 DEF IsInjective
    <3>2. PICK p \in 1..Len(s) : p = (IF k < i THEN k ELSE k + 1) /\ r[k] = s[p]
      BY <1>0, <2>4
    <3>3. PICK q \in 1..Len(s) : q = (IF m < i THEN m ELSE m + 1) /\ r[m] = s[q]
      BY <1>0, <2>4
    <3>4. p = q
      BY <1>0, <3>1, <3>2, <3>3 DEF IsInjective
    <3>5. QED
      BY <3>2, <3>3, <3>4
  <2>6. ASSUME NEW x \in Range(r) PROVE x \in Range(s) \ {e}
    <3>1. PICK k \in 1..(Len(s) - 1) : x = s[IF k < i THEN k ELSE k + 1]
      BY <2>4 DEF Range
    <3>2. PICK j \in 1..Len(s) : j # i /\ x = s[j]
      BY <1>0, <3>1
    <3>3. QED
      BY <1>0, <2>3, <3>2 DEF Range, IsInjective
  <2>7. ASSUME NEW x \in Range(s), x # e PROVE x \in Range(r)
    <3>1. PICK j \in 1..Len(s) : x = s[j]
      BY <1>0 DEF Range
    <3>2. CASE j < i
      <4>1. j \in 1..(Len(s) - 1) /\ r[j] = x
        BY <1>0, <2>4, <3>1, <3>2
      <4>2. QED
        BY <2>4, <4>1 DEF Range
    <3>3. CASE j > i
      <4>1. j - 1 \in 1..(Len(s) - 1) /\ r[j - 1] = x
        BY <1>0, <2>4, <3>1, <3>3
      <4>2. QED
        BY <2>4, <4>1 DEF Range
    <3>4. j # i
      BY <2>3, <2>7, <3>1
    <3>5. QED
      BY <1>0, <3>2, <3>3, <3>4
  <2>8. Range(r) = Range(s) \ {e}
    BY <2>6, <2>7
  <2>9. QED
    BY <2>3, <2>5, <2>8 DEF r
<1>3. QED
  BY <1>1, <1>2

-----------------------------------------------------------------------------
(***************************************************************************)
(* The handler the io thread runs is the first record of its call stack;   *)
(* the functions it calls come above it.                                   *)
(***************************************************************************)
NoHandler == [at |-> "none", c |-> NoConn]

Bottom(s) == IF s = <<>> THEN NoHandler ELSE s[1]
Handler   == Bottom(stack[Io])

\* The labels of the handlers, but for removeClient, which is also called by
\* broadcastMessage.
Outer    == {"start", "admit", "push", "greet", "rearm"}
Removing == {"remove", "erase"}

LEMMA BottomReplace ==
  ASSUME NEW S, NEW s \in Seq(S), s # <<>>, NEW f
  PROVE  Bottom(ReplaceAt(s, Len(s), f)) = IF Len(s) = 1 THEN f ELSE s[1]
<1> DEFINE T == S \cup {f}
           r == ReplaceAt(s, Len(s), f)
<1>1. s \in Seq(T) /\ f \in T
  BY SeqMonotonic
<1>2. Len(s) \in 1..Len(s) /\ Len(s) \in Nat
  BY FrontFacts, LenProperties
<1>3. /\ r \in Seq(T) /\ Len(r) = Len(s)
      /\ \A i \in 1..Len(s) : r[i] = IF i = Len(s) THEN f ELSE s[i]
  BY <1>1, <1>2, ExceptSeq DEF ReplaceAt
<1> HIDE DEF r
<1>4. r # <<>>
  BY <1>2, <1>3, EmptySeq
<1>5. 1 \in 1..Len(s)
  BY <1>2
<1>6. Bottom(r) = IF Len(s) = 1 THEN f ELSE s[1]
  BY <1>3, <1>4, <1>5 DEF Bottom
<1>7. QED
  BY <1>6 DEF r

LEMMA BottomAppend ==
  ASSUME NEW S, NEW s \in Seq(S), NEW f
  PROVE  Bottom(Append(s, f)) = IF s = <<>> THEN f ELSE s[1]
<1> DEFINE T == S \cup {f}
           r == Append(s, f)
<1>1. s \in Seq(T) /\ f \in T
  BY SeqMonotonic
<1>2. Len(s) \in Nat /\ (Len(s) = 0 <=> s = <<>>)
  BY EmptySeq, LenProperties
<1>3. /\ r \in Seq(T) /\ Len(r) = Len(s) + 1
      /\ r[Len(s) + 1] = f /\ \A i \in 1..Len(s) : r[i] = s[i]
  BY <1>1, AppendProperties
<1> HIDE DEF r
<1>4. r # <<>>
  BY <1>2, <1>3, EmptySeq
<1>5. Bottom(r) = IF s = <<>> THEN f ELSE s[1]
  BY <1>2, <1>3, <1>4 DEF Bottom
<1>6. QED
  BY <1>5 DEF r

LEMMA BottomFront ==
  ASSUME NEW S, NEW s \in Seq(S), s # <<>>
  PROVE  Bottom(Front(s)) = IF Len(s) = 1 THEN NoHandler ELSE s[1]
<1>1. /\ Front(s) \in Seq(S) /\ Len(Front(s)) = Len(s) - 1
      /\ Len(s) \in 1..Len(s)
      /\ \A i \in 1..(Len(s) - 1) : Front(s)[i] = s[i]
  BY FrontFacts
<1>2. Len(Front(s)) = 0 <=> Front(s) = <<>>
  BY <1>1, EmptySeq
<1>3. QED
  BY <1>1, <1>2 DEF Bottom

-----------------------------------------------------------------------------
(* How the steps of the io thread affect its handler.                       *)

LEMMA HandlerGoto ==
  ASSUME TypeOK, stack[Io] # <<>>, NEW f, Goto(Io, f)
  PROVE  Handler' = IF Len(stack[Io]) = 1 THEN f ELSE Handler
<1>1. /\ stack[Io] \in Seq(Frame)
      /\ stack'[Io] = ReplaceAt(stack[Io], Len(stack[Io]), f)
  BY IoIsThread DEF TypeOK, Goto
<1>2. Handler = stack[Io][1]
  BY DEF Handler, Bottom
<1>3. QED
  BY <1>1, <1>2, BottomReplace DEF Handler

LEMMA HandlerCall ==
  ASSUME TypeOK, stack[Io] # <<>>, NEW f, NEW g, Call(Io, f, g)
  PROVE  Handler' = IF Len(stack[Io]) = 1 THEN f ELSE Handler
<1> DEFINE T == Frame \cup {f}
           r == ReplaceAt(stack[Io], Len(stack[Io]), f)
<1>1. stack[Io] \in Seq(Frame) /\ stack'[Io] = Append(r, g)
  BY IoIsThread DEF TypeOK, Call
<1>2. Handler = stack[Io][1]
  BY DEF Handler, Bottom
<1>3. r \in Seq(T) /\ Len(r) = Len(stack[Io])
  <2>1. stack[Io] \in Seq(T) /\ f \in T
    BY <1>1, SeqMonotonic
  <2>2. Len(stack[Io]) \in 1..Len(stack[Io])
    BY <1>1, FrontFacts
  <2>3. QED
    BY <2>1, <2>2, ExceptSeq DEF ReplaceAt
<1>4. r # <<>>
  BY <1>1, <1>3, EmptySeq
<1>5. Bottom(r) = IF Len(stack[Io]) = 1 THEN f ELSE Handler
  BY <1>1, <1>2, BottomReplace
<1> HIDE DEF r
<1>6. Bottom(Append(r, g)) = Bottom(r)
  BY <1>3, <1>4, BottomAppend DEF Bottom
<1>7. QED
  BY <1>1, <1>5, <1>6 DEF Handler

LEMMA HandlerReturn ==
  ASSUME TypeOK, stack[Io] # <<>>, Return(Io)
  PROVE  Handler' = IF Len(stack[Io]) = 1 THEN NoHandler ELSE Handler
<1>1. stack[Io] \in Seq(Frame) /\ stack'[Io] = Front(stack[Io])
  BY IoIsThread DEF TypeOK, Return
<1>2. Handler = stack[Io][1]
  BY DEF Handler, Bottom
<1>3. QED
  BY <1>1, <1>2, BottomFront DEF Handler

LEMMA HandlerPush ==
  ASSUME TypeOK, stack[Io] = <<>>, NEW f, Push(Io, f)
  PROVE  Handler' = f
<1>1. stack'[Io] = Append(<<>>, f) /\ stack[Io] \in Seq(Frame)
  BY IoIsThread DEF TypeOK, Push
<1>2. QED
  BY <1>1, BottomAppend DEF Handler

LEMMA HandlerHandle ==
  ASSUME TypeOK, NEW c, NEW f, Handle(c, f)
  PROVE  Handler' = FrameAt("rearm", "none", c, NoName)
<1>1. stack'[Io] = <<FrameAt("rearm", "none", c, NoName), f>>
  BY IoIsThread DEF TypeOK, Handle
<1>2. QED
  BY <1>1 DEF Handler, Bottom

LEMMA HandlerKept ==
  ASSUME NEW t \in Callers, OthersKeepStack(t)
  PROVE  Handler' = Handler
BY IoIsThread, ConstantsAssumption DEF OthersKeepStack, Handler

\* The innermost record is the handler exactly if it is the only one.
LEMMA HandlerTop ==
  ASSUME TypeOK, stack[Io] # <<>>, Len(stack[Io]) = 1
  PROVE  Handler = Top(Io)
BY IoIsThread, TopType DEF TypeOK, Handler, Bottom

-----------------------------------------------------------------------------
(***************************************************************************)
(* What a step can do to the call stacks.                                  *)
(***************************************************************************)

\* The innermost record t continues as f.
Continues(t, f) ==
  /\ f.c = Top(t).c
  /\ \/ Top(t).at \in {"bcast", "sending"} /\ f.at = "sending" /\ f.kind = Top(t).kind
     \/ Top(t).at = "remove" /\ f.at = "erase"
     \/ t = Io /\ Top(t).at = "admit" /\ f.at = "push"
     \/ t = Io /\ Top(t).at = "push" /\ f.at = "greet"
     \/ t = Io /\ Top(t).at = "dm" /\ f.at \in {"dmsend", "nouser"}

\* The innermost record t continues as f when the call g returns.
Calls(t, f, g) ==
  /\ f.c = Top(t).c
  /\ \/ Top(t).at = "sending" /\ f.at = "sending" /\ f.kind = Top(t).kind /\ g.at = "remove"
     \/ /\ Top(t).at = "remove" /\ f.at = "erase"
        /\ g.at = "bcast" /\ g.kind = "left" /\ g.c = f.c

Begins(t, f) ==
  /\ stack[t] = <<>> /\ Push(t, f)
  /\ \/ t = Io /\ f.at \in {"admit", "remove"} /\ f.c \in Conns
     \/ /\ t \in Callers
        /\ \/ f.at = "bcast" /\ f.kind = "notice" /\ f.c = NoConn /\ f.name = NoName
           \/ f.at = "shutdown"

\* What the handler of a message of c calls.
Answers(c, f) ==
  \/ f.at = "bcast" /\ f.kind \in {"joined", "chat"}
  \/ f.at = "dm" /\ reads[c].kind = "dm"

StackStep ==
  \/ stack' = stack
  \/ \E c \in Conns : \E f : stack[Io] = <<>> /\ Handle(c, f) /\ f.c = c /\ Answers(c, f)
  \/ \E t \in Threads :
       \/ \E f : Begins(t, f)
       \/ stack[t] # <<>> /\ Return(t)
       \/ stack[t] # <<>> /\ \E f : Goto(t, f) /\ Continues(t, f)
       \/ stack[t] # <<>> /\ \E f, g : Call(t, f, g) /\ Calls(t, f, g)

LEMMA MoveFacts ==
  ASSUME TypeOK, NEW t \in Threads, stack[t] # <<>>
  PROVE  /\ \A at : /\ [Top(t) EXCEPT !.at = at].at = at
                   /\ [Top(t) EXCEPT !.at = at].c = Top(t).c
         /\ Advanced(t).at = Top(t).at /\ Advanced(t).c = Top(t).c
         /\ Advanced(t).kind = Top(t).kind
<1>1. Top(t) \in [at : Labels, kind : LineKinds \cup {"none"}, c : Conns \cup {NoConn},
                  name : Names \cup {NoName}, id : Nat, next : Nat]
  BY TopType DEF TypeOK, Frame
<1>2. QED
  BY <1>1 DEF Advanced

\* The innermost record of t returns, goes on as f, or calls g.
Moves(t, f, g) ==
  \/ Return(t)
  \/ Goto(t, f) /\ Continues(t, f)
  \/ Call(t, f, g) /\ Calls(t, f, g)

LEMMA BroadcastMoves ==
  ASSUME TypeOK, NEW t \in Threads, Broadcasting(t)
  PROVE  stack[t] # <<>> /\ \E f, g : Moves(t, f, g)
<1>1. stack[t] # <<>>
  BY DEF Broadcasting, StartBroadcast, SkipExcluded, SendLine, SendLineFails,
         EndBroadcast, RemoveClient, EraseClient, Sending, At
<1>2. CASE StartBroadcast(t)
  <2> DEFINE f == [Top(t) EXCEPT !.at = "sending", !.id = Len(log) + 1, !.next = 1]
  <2>1. Goto(t, f) /\ Top(t).at = "bcast"
    BY <1>2 DEF StartBroadcast, At
  <2>2. f.at = "sending" /\ f.c = Top(t).c /\ f.kind = Top(t).kind
    BY <1>1, TopType DEF TypeOK, Frame
  <2> HIDE DEF f
  <2>3. QED
    BY <1>1, <2>1, <2>2 DEF Moves, Continues
<1>3. CASE SkipExcluded(t) \/ SendLine(t)
  <2>1. Goto(t, Advanced(t)) /\ Top(t).at = "sending"
    BY <1>3 DEF SkipExcluded, SendLine, Sending, At
  <2>2. QED
    BY <1>1, <2>1, MoveFacts DEF Moves, Continues
<1>4. CASE SendLineFails(t)
  <2> DEFINE g == FrameAt("remove", "none", Target(t), NoName)
  <2>1. Call(t, Advanced(t), g) /\ Top(t).at = "sending" /\ g.at = "remove"
    BY <1>4 DEF SendLineFails, Sending, At, FrameAt
  <2> HIDE DEF g
  <2>2. QED
    BY <1>1, <2>1, MoveFacts DEF Moves, Calls
<1>5. CASE EndBroadcast(t) \/ EraseClient(t)
  BY <1>1, <1>5 DEF EndBroadcast, EraseClient, Moves
<1>6. CASE RemoveClient(t)
  <2> DEFINE f == [Top(t) EXCEPT !.at = "erase"]
             g == FrameAt("bcast", "left", Top(t).c, username[Top(t).c])
  <2>1. (Goto(t, f) \/ Call(t, f, g)) /\ Top(t).at = "remove"
    BY <1>6 DEF RemoveClient, At
  <2>2. /\ f.at = "erase" /\ f.c = Top(t).c
        /\ g.at = "bcast" /\ g.kind = "left" /\ g.c = Top(t).c
    BY <1>1, MoveFacts DEF FrameAt
  <2> HIDE DEF f, g
  <2>3. QED
    BY <1>1, <2>1, <2>2 DEF Moves, Continues, Calls
<1>7. QED
  BY <1>1, <1>2, <1>3, <1>4, <1>5, <1>6 DEF Broadcasting

LEMMA StackBroadcasting ==
  ASSUME TypeOK, NEW t \in Threads, Broadcasting(t)
  PROVE  StackStep
BY BroadcastMoves DEF Moves, StackStep

LEMMA StackAccepting ==
  ASSUME TypeOK, Accepting \/ Direct \/ Rearm \/ RunReturns
  PROVE  StackStep
<1>1. Io \in Threads
  BY IoIsThread
<1>2. CASE Start \/ RejectClient \/ GreetClient \/ SendDirect \/ Rearm
  BY <1>1, <1>2 DEF Start, RejectClient, GreetClient, SendDirect, Rearm, At, StackStep
<1>3. CASE OnAcceptError \/ GreetThrows \/ RunReturns
  BY <1>3 DEF OnAcceptError, GreetThrows, RunReturns, StackStep
<1>4. CASE OnAccept
  <2> DEFINE f == FrameAt("admit", "none", acceptor.c, NoName)
  <2>1. stack[Io] = <<>> /\ Push(Io, f)
    BY <1>4 DEF OnAccept, IoIdle
  <2>2. f.at = "admit" /\ f.c \in Conns
    BY <1>4 DEF OnAccept, FrameAt, TypeOK, Acceptor
  <2> HIDE DEF f
  <2>3. QED
    BY <1>1, <2>1, <2>2 DEF StackStep, Begins
<1>5. CASE AdmitClient
  <2> DEFINE f == [Top(Io) EXCEPT !.at = "push"]
  <2>1. Goto(Io, f) /\ stack[Io] # <<>> /\ Top(Io).at = "admit"
    BY <1>5 DEF AdmitClient, At
  <2>2. f.at = "push" /\ f.c = Top(Io).c
    BY <1>1, <2>1, MoveFacts
  <2> HIDE DEF f
  <2>3. QED
    BY <1>1, <2>1, <2>2 DEF StackStep, Continues
<1>6. CASE PushClient
  <2> DEFINE f == [Top(Io) EXCEPT !.at = "greet"]
  <2>1. Goto(Io, f) /\ stack[Io] # <<>> /\ Top(Io).at = "push"
    BY <1>6 DEF PushClient, At
  <2>2. f.at = "greet" /\ f.c = Top(Io).c
    BY <1>1, <2>1, MoveFacts
  <2> HIDE DEF f
  <2>3. QED
    BY <1>1, <2>1, <2>2 DEF StackStep, Continues
<1>7. CASE StartDirect
  <2> DEFINE it == FindClient(Top(Io).name)
             f  == [Top(Io) EXCEPT !.at = IF it = 0 THEN "nouser" ELSE "dmsend",
                                   !.kind = IF it = 0 THEN "nouser" ELSE "dm",
                                   !.id = Len(log) + 1, !.next = it]
  <2>1. stack[Io] # <<>> /\ Goto(Io, f) /\ Top(Io).at = "dm"
    BY <1>7 DEF StartDirect, At
  <2>2. f.at \in {"nouser", "dmsend"} /\ f.c = Top(Io).c
    BY <1>1, <2>1, TopType DEF TypeOK, Frame
  <2> HIDE DEF f
  <2>3. QED
    BY <1>1, <2>1, <2>2 DEF StackStep, Continues
<1>8. CASE SendNotFound
  BY <1>1, <1>8 DEF SendNotFound, At, StackStep
<1>9. QED
  BY <1>2, <1>3, <1>4, <1>5, <1>6, <1>7, <1>8 DEF Accepting, Direct

LEMMA StackReading ==
  ASSUME TypeOK, NEW c \in Conns, Reading(c)
  PROVE  StackStep
<1>1. stack[Io] = <<>> /\ Io \in Threads
  BY IoIsThread DEF Reading, OnReadError, OnBlank, OnUnparsable, OnOddMessage,
                    OnFirstText, OnText, OnDirectMessage, ReadDone, IoIdle
<1>2. CASE OnReadError(c)
  <2> DEFINE f == FrameAt("remove", "none", c, NoName)
  <2>1. Push(Io, f) /\ f.at = "remove" /\ f.c \in Conns
    BY <1>2 DEF OnReadError, FrameAt
  <2> HIDE DEF f
  <2>2. QED
    BY <1>1, <2>1 DEF StackStep, Begins
<1>3. CASE OnBlank(c) \/ OnUnparsable(c) \/ OnOddMessage(c)
  BY <1>3 DEF OnBlank, OnUnparsable, OnOddMessage, StackStep
<1>4. CASE OnFirstText(c) \/ OnText(c) \/ OnDirectMessage(c)
  <2>1. PICK f : Handle(c, f) /\ f.c = c /\ Answers(c, f)
    BY <1>4 DEF OnFirstText, OnText, OnDirectMessage, ReadDone, FrameAt, Answers
  <2>2. QED
    BY <1>1, <2>1 DEF StackStep
<1>5. QED
  BY <1>2, <1>3, <1>4 DEF Reading

LEMMA StackSteps == TypeOK /\ [Next]_vars => StackStep
<1>1. SUFFICES ASSUME TypeOK, [Next]_vars PROVE StackStep
  OBVIOUS
<1>2. Io \in Threads /\ Callers \subseteq Threads
  BY DEF Threads
<1>3. ASSUME NEW t \in Callers, CallBroadcast(t) \/ CallShutdown(t) PROVE StackStep
  <2>1. PICK f : /\ stack[t] = <<>> /\ Push(t, f)
                 /\ \/ f.at = "bcast" /\ f.kind = "notice" /\ f.c = NoConn /\ f.name = NoName
                    \/ f.at = "shutdown"
    BY <1>3 DEF CallBroadcast, CallShutdown, FrameAt
  <2>2. QED
    BY <1>2, <1>3, <2>1 DEF StackStep, Begins
<1>4. ASSUME NEW t \in Callers, Shutdown(t) PROVE StackStep
  BY <1>2, <1>4 DEF Shutdown, At, StackStep
<1>5. CASE (\E c \in Conns : Completion(c) \/ Peers(c)) \/ AcceptFails \/ UNCHANGED vars
  BY <1>5 DEF Completion, Peers, AcceptCompletes, ReadCompletes, ReadSplits, ReadFails,
     PeerConnect, PeerSend, PeerRead, PeerLeave, AcceptFails, vars, StackStep
<1>6. QED
  BY <1>1, <1>2, <1>3, <1>4, <1>5, StackAccepting, StackReading, StackBroadcasting
     DEF Next, IoStep, CallerStep

-----------------------------------------------------------------------------
(***************************************************************************)
(* The shape of the call stacks: handlers are at the bottom of that of the *)
(* io thread and nowhere else, and removeClient is the handler or has been *)
(* called from inside a lock_guard scope.                                  *)
(***************************************************************************)
Removals(t) == Places(stack[t], Removing)

Covered(t) ==
  \A i \in Removals(t) : (t = Io /\ i = 1) \/ \E j \in Scopes(t) : j < i

ShapeInv ==
  /\ Handler.at \in Outer \cup Removing \cup {"none"}
  /\ Handler.at \in {"start", "none"} => Handler.c = NoConn
  /\ Handler.at \notin {"start", "none"} => Handler.c \in Conns
  /\ \A i \in Places(stack[Io], Outer) : i = 1
  /\ \A t \in Threads : Covered(t)

LEMMA CoveredKept ==
  ASSUME TypeOK, NEW t \in Threads, stack[t] # <<>>, Covered(t),
         Places(stack'[t], Removing) \subseteq Removals(t),
         Scopes(t) \ {Len(stack[t])} \subseteq Places(stack'[t], LockedAt)
  PROVE  Covered(t)'
<1>1. SUFFICES ASSUME NEW i \in Removals(t), ~(t = Io /\ i = 1)
               PROVE  \E j \in Places(stack'[t], LockedAt) : j < i
  BY DEF Covered, Removals, Scopes
<1>2. PICK j \in Scopes(t) : j < i
  BY <1>1 DEF Covered
<1>3. i \in 1..Len(stack[t]) /\ j \in 1..Len(stack[t]) /\ Len(stack[t]) \in Nat
  BY <1>2, LenProperties DEF TypeOK, Removals, Scopes, Places
<1>4. j # Len(stack[t])
  BY <1>2, <1>3
<1>5. QED
  BY <1>2, <1>4

\* The records of a call stack after a call.
LEMMA CallElements ==
  ASSUME TypeOK, NEW t \in Threads, stack[t] # <<>>, NEW f, NEW g, Call(t, f, g)
  PROVE  LET n == Len(stack[t]) IN
         /\ n \in 1..n /\ DOMAIN stack[t] = 1..n /\ Top(t) = stack[t][n]
         /\ DOMAIN stack'[t] = 1..(n + 1) /\ stack'[t][n + 1] = g /\ stack'[t][n] = f
         /\ \A i \in 1..(n - 1) : stack'[t][i] = stack[t][i]
         /\ OthersKeepStack(t)
<1> DEFINE n == Len(stack[t])
           T == Frame \cup {f, g}
           r == ReplaceAt(stack[t], n, f)
<1>1. /\ stack[t] \in Seq(Frame) /\ stack'[t] = Append(r, g)
      /\ OthersKeepStack(t)
  BY DEF TypeOK, Call, OthersKeepStack
<1>2. stack[t] \in Seq(T) /\ f \in T /\ g \in T
  BY <1>1, SeqMonotonic
<1>3. n \in 1..n /\ DOMAIN stack[t] = 1..n /\ Top(t) = stack[t][n] /\ n \in Nat
  BY <1>1, FrontFacts, LenProperties, TopType DEF TypeOK
<1>4. /\ r \in Seq(T) /\ Len(r) = n
      /\ \A i \in 1..n : r[i] = IF i = n THEN f ELSE stack[t][i]
  BY <1>2, <1>3, ExceptSeq DEF ReplaceAt
<1> HIDE DEF r
<1>5. /\ DOMAIN Append(r, g) = 1..(n + 1) /\ Append(r, g)[n + 1] = g
      /\ \A i \in 1..n : Append(r, g)[i] = r[i]
  BY <1>2, <1>4, LenProperties, AppendProperties
<1>6. QED
  BY <1>1, <1>3, <1>4, <1>5

LEMMA ShapeInit == Init => ShapeInv
<1> SUFFICES ASSUME Init PROVE ShapeInv
  OBVIOUS
<1> DEFINE f == FrameAt("start", "none", NoConn, NoName)
<1>1. stack[Io] = <<f>> /\ \A t \in Threads : t # Io => stack[t] = <<>>
  BY IoIsThread DEF Init
<1>2. f.at = "start" /\ f.c = NoConn
  BY DEF FrameAt
<1> HIDE DEF f
<1>3. Handler = f
  BY <1>1 DEF Handler, Bottom
<1>4. \A t \in Threads : DOMAIN stack[t] \subseteq {1} /\ \A i \in DOMAIN stack[t] : stack[t][i] = f
  BY <1>1
<1>5. \A t \in Threads : Removals(t) = {}
  BY <1>2, <1>4 DEF Removals, Places, Removing
<1>6. QED
  BY <1>2, <1>3, <1>4, <1>5, IoIsThread DEF ShapeInv, Covered, Places, Outer

LEMMA ShapeStep == TypeOK /\ ShapeInv /\ [Next]_vars => ShapeInv'
<1>1. SUFFICES ASSUME TypeOK, ShapeInv, StackStep PROVE ShapeInv'
  BY StackSteps
<1>2. Io \in Threads
  BY IoIsThread
<1>3. CASE stack' = stack
  BY <1>1, <1>3 DEF ShapeInv, Handler, Covered, Removals, Scopes
<1>4. ASSUME NEW t \in Threads, OthersKeepStack(t), Covered(t)',
             t = Io => \A i \in Places(stack'[Io], Outer) : i = 1,
             t = Io => /\ Handler'.at \in Outer \cup Removing \cup {"none"}
                       /\ Handler'.at \in {"start", "none"} => Handler'.c = NoConn
                       /\ Handler'.at \notin {"start", "none"} => Handler'.c \in Conns
      PROVE  ShapeInv'
  <2>1. \A u \in Threads : Covered(u)'
    BY <1>1, <1>4 DEF ShapeInv, Covered, Removals, Scopes, OthersKeepStack
  <2>2. t # Io => Handler' = Handler /\ Places(stack'[Io], Outer) = Places(stack[Io], Outer)
    BY <1>2, <1>4 DEF OthersKeepStack, Handler
  <2>3. QED
    BY <1>1, <1>4, <2>1, <2>2 DEF ShapeInv
<1>5. CASE \E c \in Conns : \E f : stack[Io] = <<>> /\ Handle(c, f) /\ f.c = c /\ Answers(c, f)
  <2>1. PICK c \in Conns : \E f : stack[Io] = <<>> /\ Handle(c, f) /\ Answers(c, f)
    BY <1>5
  <2>2. PICK f : stack[Io] = <<>> /\ Handle(c, f) /\ f.at \in {"bcast", "dm"}
    BY <2>1 DEF Answers
  <2> DEFINE r == FrameAt("rearm", "none", c, NoName)
             s == <<r, f>>
  <2>3. OthersKeepStack(Io) /\ stack'[Io] = s /\ Handler' = r
    BY <1>1, <1>2, <2>2, HandlerHandle DEF TypeOK, Handle, OthersKeepStack
  <2>4. r.at = "rearm" /\ r.c = c
    BY DEF FrameAt
  <2>5. DOMAIN s = {1, 2} /\ s[1] = r /\ s[2] = f
    OBVIOUS
  <2> HIDE DEF s, r
  <2>6. Places(s, Removing) = {} /\ \A i \in Places(s, Outer) : i = 1
    BY <2>2, <2>4, <2>5 DEF Places, Removing, Outer
  <2>7. QED
    BY <1>2, <1>4, <2>3, <2>4, <2>6 DEF Covered, Removals, Outer
<1>6. ASSUME NEW t \in Threads, NEW f, Begins(t, f) PROVE ShapeInv'
  <2>1. stack[t] = <<>> /\ Push(t, f) /\ stack[t] \in Seq(Frame)
    BY <1>1, <1>6 DEF Begins, TypeOK
  <2>2. OthersKeepStack(t) /\ stack'[t] = Append(<<>>, f)
    BY <1>1, <2>1 DEF TypeOK, Push, OthersKeepStack
  <2>3. DOMAIN stack'[t] = {1} /\ stack'[t][1] = f
    BY <2>2
  <2>4. t # Io => f.at \notin Removing
    BY <1>6, ConstantsAssumption DEF Begins, Removing
  <2>5. Covered(t)'
    BY <2>3, <2>4 DEF Covered, Removals, Places
  <2>6. t = Io => Handler' = f /\ f.at \in {"admit", "remove"} /\ f.c \in Conns
    BY <1>1, <1>6, <2>1, ConstantsAssumption, HandlerPush DEF Begins
  <2>7. QED
    BY <1>4, <2>2, <2>3, <2>5, <2>6 DEF Places, Outer, Removing
<1>7. ASSUME NEW t \in Threads, stack[t] # <<>>, Return(t) PROVE ShapeInv'
  <2>1. /\ OthersKeepStack(t)
        /\ Places(stack'[t], Removing) \subseteq Removals(t)
        /\ Places(stack'[t], Outer) \subseteq Places(stack[t], Outer)
        /\ Scopes(t) \ {Len(stack[t])} \subseteq Places(stack'[t], LockedAt)
    BY <1>1, <1>7, ReturnPlaces DEF Removals, Scopes
  <2>2. Covered(t)'
    BY <1>1, <1>7, <2>1, CoveredKept DEF ShapeInv
  <2>3. t = Io => Handler' \in {Handler, NoHandler}
    BY <1>1, <1>7, HandlerReturn
  <2>4. QED
    BY <1>1, <1>4, <2>1, <2>2, <2>3 DEF ShapeInv, NoHandler
<1>8. ASSUME NEW t \in Threads, stack[t] # <<>>, NEW f, NEW g,
             \/ Goto(t, f) /\ Continues(t, f)
             \/ Call(t, f, g) /\ Calls(t, f, g)
      PROVE  ShapeInv'
  <2>1. /\ f.at \in Removing => Top(t).at \in Removing
        /\ f.at \in Outer => Top(t).at \in Outer
        /\ f.c = Top(t).c
        /\ f.at \notin {"start", "none"}
    BY <1>8 DEF Continues, Calls, Removing, Outer
  <2>2. t = Io => Handler' = IF Len(stack[Io]) = 1 THEN f ELSE Handler
    BY <1>1, <1>8, HandlerGoto, HandlerCall
  <2>3. t = Io /\ Len(stack[Io]) = 1 =>
          /\ Handler = Top(Io)
          /\ f.at \in Outer \cup Removing /\ f.c \in Conns
    <3>1. SUFFICES ASSUME t = Io, Len(stack[Io]) = 1
                   PROVE  Handler = Top(Io) /\ f.at \in Outer \cup Removing /\ f.c \in Conns
      OBVIOUS
    <3>2. Handler = Top(Io)
      BY <1>1, <1>8, <3>1, HandlerTop
    <3>3. Top(Io).at \in Outer \cup Removing \cup {"none"}
      BY <1>1, <3>2 DEF ShapeInv
    <3>4. f.at \in Outer \cup Removing /\ Top(Io).at \notin {"start", "none"}
      BY <1>8, <3>1, <3>3 DEF Continues, Calls, Outer, Removing
    <3>5. f.c \in Conns
      BY <1>1, <2>1, <3>1, <3>2, <3>4 DEF ShapeInv
    <3>6. QED
      BY <3>2, <3>4, <3>5
  <2>4. ASSUME Goto(t, f) PROVE Covered(t)' /\ OthersKeepStack(t)
                          /\ (t = Io => Places(stack'[t], Outer) \subseteq Places(stack[t], Outer))
    <3>1. /\ OthersKeepStack(t)
          /\ f.at \in Removing => Places(stack'[t], Removing) = Removals(t) \cup {Len(stack[t])}
          /\ f.at \notin Removing => Places(stack'[t], Removing) = Removals(t) \ {Len(stack[t])}
      BY <1>1, <1>8, <2>4, GotoPlaces DEF Removals
    <3>2. Top(t).at \in Removing => Len(stack[t]) \in Removals(t)
      BY <1>1, <1>8, TopPlace DEF Removals
    <3>3. /\ f.at \in Outer => Places(stack'[t], Outer) = Places(stack[t], Outer) \cup {Len(stack[t])}
          /\ f.at \notin Outer => Places(stack'[t], Outer) = Places(stack[t], Outer) \ {Len(stack[t])}
      BY <1>1, <1>8, <2>4, GotoPlaces
    <3>4. Top(t).at \in Outer => Len(stack[t]) \in Places(stack[t], Outer)
      BY <1>1, <1>8, TopPlace
    <3>5. Scopes(t) \ {Len(stack[t])} \subseteq Places(stack'[t], LockedAt)
      BY <1>1, <1>8, <2>4, GotoPlaces DEF Scopes
    <3>6. Places(stack'[t], Removing) \subseteq Removals(t)
      BY <2>1, <3>1, <3>2
    <3>7. Places(stack'[t], Outer) \subseteq Places(stack[t], Outer)
      BY <2>1, <3>3, <3>4
    <3>8. QED
      BY <1>1, <1>8, <3>1, <3>5, <3>6, <3>7, CoveredKept DEF ShapeInv
  <2>5. ASSUME Call(t, f, g), Calls(t, f, g)
        PROVE  Covered(t)' /\ OthersKeepStack(t)
                 /\ (t = Io => Places(stack'[t], Outer) \subseteq Places(stack[t], Outer))
    <3> DEFINE n == Len(stack[t])
    <3>1. /\ n \in 1..n /\ DOMAIN stack[t] = 1..n /\ Top(t) = stack[t][n]
          /\ DOMAIN stack'[t] = 1..(n + 1) /\ stack'[t][n + 1] = g /\ stack'[t][n] = f
          /\ \A i \in 1..(n - 1) : stack'[t][i] = stack[t][i]
          /\ OthersKeepStack(t)
      BY <1>1, <1>8, <2>5, CallElements
    <3>2. g.at \notin Outer
      BY <2>5 DEF Calls, Outer
    <3>3. Places(stack'[t], Outer) \subseteq Places(stack[t], Outer)
      BY <2>1, <3>1, <3>2, SMTT(30) DEF Places
    <3>4. ASSUME NEW i \in Removals(t)', ~(t = Io /\ i = 1)
          PROVE  \E j \in Scopes(t)' : j < i
      <4>1. CASE i = n + 1
        <5>1. f.at = "sending"
          BY <2>5, <3>1, <3>4, <4>1 DEF Calls, Removals, Places, Removing
        <5>2. n \in Scopes(t)'
          BY <3>1, <5>1 DEF Scopes, Places, LockedAt
        <5>3. QED
          BY <3>1, <4>1, <5>2
      <4>2. CASE i # n + 1
        <5>1. i \in 1..n /\ i \in Removals(t)
          BY <2>1, <3>1, <3>4, <4>2 DEF Removals, Places
        <5>2. PICK j \in Scopes(t) : j < i
          BY <1>1, <3>4, <5>1 DEF ShapeInv, Covered
        <5>3. j \in 1..(n - 1) /\ j \in Scopes(t)'
          BY <3>1, <5>1, <5>2 DEF Scopes, Places
        <5>4. QED
          BY <5>2, <5>3
      <4>3. QED
        BY <4>1, <4>2
    <3>5. QED
      BY <3>1, <3>3, <3>4 DEF Covered
  <2>6. Covered(t)' /\ OthersKeepStack(t)
    BY <1>8, <2>4, <2>5
  <2>7. t = Io => \A i \in Places(stack'[Io], Outer) : i = 1
    BY <1>1, <1>8, <2>4, <2>5 DEF ShapeInv
  <2>8. t = Io => /\ Handler'.at \in Outer \cup Removing \cup {"none"}
                  /\ Handler'.at \in {"start", "none"} => Handler'.c = NoConn
                  /\ Handler'.at \notin {"start", "none"} => Handler'.c \in Conns
    BY <1>1, <2>1, <2>2, <2>3 DEF ShapeInv
  <2>9. QED
    BY <1>4, <2>6, <2>7, <2>8
<1>9. QED
  BY <1>1, <1>3, <1>5, <1>6, <1>7, <1>8 DEF StackStep

-----------------------------------------------------------------------------
(***************************************************************************)
(* The inductive invariant of the sessions.                                *)
(***************************************************************************)

\* Until the handler of an accept returns, no other accept is outstanding.
AcceptorInv ==
  /\ acceptor.op = "ready" <=> acceptor.c # NoConn
  /\ Handler.at \in {"start", "admit", "push", "greet"} => acceptor.op = "idle"

\* The accept handler of c has not reached push_back.
Admitting(c) == Handler.c = c /\ Handler.at \in {"admit", "push"}

Session(c) ==
  /\ sock[c] = "none" => reads[c] = Idle /\ acceptor.c # c /\ Handler.c # c
  /\ acceptor.c = c => sock[c] = "open" /\ reads[c] = Idle /\ Handler.c # c
  /\ Handler.c = c => reads[c] = Idle
  /\ Admitting(c) => sock[c] = "open"
  /\ Member(c) <=> sock[c] = "open" /\ acceptor.c # c /\ ~Admitting(c)
  /\ process = "up" /\ sock[c] = "open" =>
       acceptor.c = c \/ reads[c] # Idle \/ Handler.c = c

\* After shutdown only an accept that had completed adds a session, and it
\* finds the list empty.
LateInv ==
  ~acceptor.open =>
    /\ acceptor.op # "armed"
    /\ acceptor.op = "ready" \/ Handler.at \in {"admit", "push"} => m_clients = <<>>
    /\ Len(m_clients) <= 1

SessionInv ==
  /\ IsInjective(m_clients)
  /\ AcceptorInv
  /\ \A c \in Conns : Session(c)
  /\ LateInv

-----------------------------------------------------------------------------
(* Steps that leave the sessions alone.                                     *)

BeforeRead == {"start", "admit", "push", "greet"}

\* A step that changes neither the list, nor a socket, a read or the acceptor,
\* and keeps its handler away from the labels before the first read.
LEMMA QuietStep ==
  ASSUME SessionInv, UNCHANGED <<sock, reads, acceptor, m_clients>>,
         process' = "up" => process = "up", Handler'.c = Handler.c,
         \/ Handler'.at = Handler.at
         \/ Handler.at \notin BeforeRead /\ Handler'.at \notin BeforeRead
  PROVE  SessionInv'
<1>1. \A c \in Conns : Admitting(c)' <=> Admitting(c)
  BY DEF Admitting, BeforeRead
<1>2. \A c \in Conns : Session(c)'
  BY <1>1 DEF SessionInv, Session, Member
<1>3. AcceptorInv' /\ LateInv'
  BY DEF SessionInv, AcceptorInv, LateInv, BeforeRead
<1>4. QED
  BY <1>2, <1>3 DEF SessionInv

LEMMA IdleHandler == IoIdle => Handler = NoHandler /\ NoHandler.at = "none" /\ NoHandler.c = NoConn
BY DEF IoIdle, Handler, Bottom, NoHandler

\* A handler at one of its own labels has called nothing.
LEMMA OuterTop ==
  ASSUME TypeOK, ShapeInv, stack[Io] # <<>>, Top(Io).at \in Outer
  PROVE  Len(stack[Io]) = 1 /\ Handler = Top(Io) /\ Top(Io).c = Handler.c
<1>1. Len(stack[Io]) \in Places(stack[Io], Outer)
  BY IoIsThread, TopPlace
<1>2. Len(stack[Io]) = 1
  BY <1>1 DEF ShapeInv
<1>3. QED
  BY <1>2, HandlerTop

\* What is called from a handler does not touch its record.
LEMMA NestedTop ==
  ASSUME TypeOK, ShapeInv, NEW t \in Threads, stack[t] # <<>>, NEW f, NEW g,
         Goto(t, f) \/ Call(t, f, g) \/ Return(t),
         t = Io => Top(Io).at \notin Outer \cup Removing
  PROVE  Handler' = Handler
<1>1. CASE t = Io
  <2>1. Top(Io).at \in Labels
    BY IoIsThread, <1>1, TopType DEF TypeOK, Frame
  <2>2. Top(Io).at # "none"
    BY <2>1 DEF Labels
  <2>3. Len(stack[Io]) # 1
    BY <1>1, <2>2, HandlerTop DEF ShapeInv
  <2>4. QED
    BY <1>1, <2>3, HandlerGoto, HandlerCall, HandlerReturn
<1>2. CASE t # Io
  <2>1. stack'[Io] = stack[Io]
    BY <1>2, IoIsThread DEF TypeOK, Goto, Call, Return
  <2>2. QED
    BY <2>1 DEF Handler
<1>3. QED
  BY <1>1, <1>2

LEMMA SessionBroadcasting ==
  ASSUME TypeOK, ShapeInv, SessionInv, NEW t \in Threads, Broadcasting(t), ~EraseClient(t)
  PROVE  SessionInv'
<1>1. /\ UNCHANGED <<sock, reads, acceptor, m_clients, process>> /\ stack[t] # <<>>
  BY DEF Broadcasting, StartBroadcast, SkipExcluded, SendLine, SendLineFails, EndBroadcast,
         RemoveClient, Sending, At, asio, data
<1>2. CASE ~RemoveClient(t)
  <2>1. Top(t).at \in {"bcast", "sending"}
    BY <1>2 DEF Broadcasting, StartBroadcast, SkipExcluded, SendLine, SendLineFails,
                EndBroadcast, Sending, At
  <2>2. \E f, g : Goto(t, f) \/ Call(t, f, g) \/ Return(t)
    BY <1>2 DEF Broadcasting, StartBroadcast, SkipExcluded, SendLine, SendLineFails,
                EndBroadcast
  <2>3. Handler' = Handler
    BY <1>1, <2>1, <2>2, NestedTop DEF Outer, Removing
  <2>4. QED
    BY <1>1, <2>3, QuietStep
<1>3. CASE RemoveClient(t)
  <2> DEFINE f == [Top(t) EXCEPT !.at = "erase"]
             g == FrameAt("bcast", "left", Top(t).c, username[Top(t).c])
  <2>1. (Goto(t, f) \/ Call(t, f, g)) /\ Top(t).at = "remove"
    BY <1>3 DEF RemoveClient, At
  <2>2. f.at = "erase" /\ f.c = Top(t).c
    BY <1>1, MoveFacts
  <2> HIDE DEF f, g
  <2>3. CASE t # Io
    <3>1. stack'[Io] = stack[Io]
      BY <2>1, <2>3, IoIsThread DEF TypeOK, Goto, Call
    <3>2. Handler' = Handler
      BY <3>1 DEF Handler
    <3>3. QED
      BY <1>1, <3>2, QuietStep
  <2>4. CASE t = Io
    <3>1. Handler' = IF Len(stack[Io]) = 1 THEN f ELSE Handler
      BY <1>1, <2>1, <2>4, HandlerGoto, HandlerCall
    <3>2. Len(stack[Io]) = 1 => Handler = Top(Io)
      BY <1>1, <2>4, HandlerTop
    <3>3. QED
      BY <1>1, <2>1, <2>2, <2>4, <3>1, <3>2, QuietStep DEF BeforeRead
  <2>5. QED
    BY <2>3, <2>4
<1>4. QED
  BY <1>2, <1>3

LEMMA SessionDirect ==
  ASSUME TypeOK, ShapeInv, SessionInv, Direct \/ RunReturns \/ GreetThrows
  PROVE  SessionInv'
<1>1. UNCHANGED <<sock, reads, acceptor, m_clients>> /\ (process' = "up" => process = "up")
  BY DEF Direct, StartDirect, SendDirect, SendNotFound, RunReturns, GreetThrows, IoIdle, At,
         asio, data
<1>2. Handler' = Handler
  <2>1. CASE stack' = stack
    BY <2>1 DEF Handler
  <2>2. CASE stack' # stack
    <3>1. /\ stack[Io] # <<>> /\ Top(Io).at \in {"dm", "dmsend", "nouser"}
          /\ \E f : Goto(Io, f) \/ Return(Io)
      BY <2>2 DEF Direct, StartDirect, SendDirect, SendNotFound, RunReturns, GreetThrows, At
    <3>2. QED
      BY <3>1, IoIsThread, NestedTop DEF Outer, Removing
  <2>3. QED
    BY <2>1, <2>2
<1>3. QED
  BY <1>1, <1>2, QuietStep

LEMMA SessionCalls ==
  ASSUME TypeOK, SessionInv, NEW t \in Callers, CallBroadcast(t) \/ CallShutdown(t)
  PROVE  SessionInv'
<1>1. UNCHANGED <<sock, reads, acceptor, m_clients, process>> /\ \E f : Push(t, f)
  BY DEF CallBroadcast, CallShutdown, asio, data
<1>2. stack'[Io] = stack[Io]
  BY <1>1, IoIsThread, ConstantsAssumption DEF TypeOK, Push
<1>3. QED
  BY <1>1, <1>2, QuietStep DEF Handler

LEMMA SessionPeers ==
  ASSUME SessionInv, (\E c \in Conns : Peers(c)) \/ UNCHANGED vars
  PROVE  SessionInv'
BY QuietStep DEF Peers, PeerConnect, PeerSend, PeerRead, PeerLeave, Handler, asio, data, vars

-----------------------------------------------------------------------------
(* What the steps that concern sessions do to the state of each.            *)

LEMMA ReadKinds == Armed # Idle /\ Eof # Idle /\ Raw # Idle /\ Armed # Eof
<1>1. Armed.kind = "armed" /\ Eof.kind = "eof" /\ Raw.kind = "raw" /\ Idle.kind = "idle"
  BY DEF Armed, Eof, Raw, Idle
<1>2. QED
  BY <1>1

LEMMA AcceptFacts ==
  ASSUME TypeOK, AcceptorInv, acceptor.op = "idle", AcceptConnections
  PROVE  /\ acceptor.c = NoConn /\ acceptor'.c = NoConn /\ acceptor'.open = acceptor.open
         /\ acceptor'.op \in {"armed", "failed"}
         /\ ~acceptor.open => acceptor'.op = "failed"
<1>1. acceptor.c = NoConn
  BY DEF AcceptorInv
<1>2. acceptor \in [open : BOOLEAN, op : {"idle", "armed", "ready", "failed"},
                    c : Conns \cup {NoConn}]
  BY DEF TypeOK, Acceptor
<1>3. QED
  BY <1>1, <1>2 DEF AcceptConnections

LEMMA ReadFacts ==
  ASSUME TypeOK, NEW c \in Conns, ReadClientMessage(c)
  PROVE  reads'[c] # Idle /\ \A d \in Conns : d # c => reads'[d] = reads[d]
BY ReadKinds DEF TypeOK, ReadClientMessage

LEMMA CloseFacts ==
  ASSUME TypeOK, NEW S, CloseSockets(S)
  PROVE  \A c \in Conns :
           /\ sock'[c] = IF c \in S /\ sock[c] = "open" THEN "closed" ELSE sock[c]
           /\ reads'[c] = Idle <=> reads[c] = Idle
           /\ reads[c] = Idle => reads'[c] = Idle
BY ReadKinds DEF TypeOK, CloseSockets

\* Before the handler of an accept returns no connection waits for it.
LEMMA BeforeReadIdle ==
  ASSUME AcceptorInv, Handler.at \in BeforeRead
  PROVE  acceptor.op = "idle" /\ acceptor.c = NoConn
BY DEF AcceptorInv, BeforeRead

LEMMA NoHandlerIs == NoHandler.at = "none" /\ NoHandler.c = NoConn
BY DEF NoHandler

LEMMA SessionStart == ASSUME TypeOK, ShapeInv, SessionInv, Start PROVE SessionInv'
<1>1. /\ Handler.at = "start" /\ Handler' = NoHandler
      /\ acceptor.op = "idle" /\ AcceptConnections
      /\ UNCHANGED <<sock, reads, m_clients, process>>
  <2>1. stack[Io] # <<>> /\ Top(Io).at \in Outer /\ Return(Io) /\ Top(Io).at = "start"
    BY DEF Start, At, Outer
  <2>2. Handler = Top(Io) /\ Handler' = NoHandler
    BY <2>1, OuterTop, HandlerReturn
  <2>3. QED
    BY <2>1, <2>2, BeforeReadIdle DEF Start, SessionInv, BeforeRead
<1>2. /\ acceptor.c = NoConn /\ acceptor'.c = NoConn /\ acceptor'.open = acceptor.open
      /\ acceptor'.op \in {"armed", "failed"}
      /\ ~acceptor.open => acceptor'.op = "failed"
  BY <1>1, AcceptFacts DEF SessionInv
<1>3. Handler.c = NoConn /\ NoConn \notin Conns
  BY <1>1, ConstantsAssumption DEF ShapeInv
<1>4. \A c \in Conns : Session(c)'
  BY <1>1, <1>2, <1>3, NoHandlerIs DEF SessionInv, Session, Admitting, Member
<1>5. AcceptorInv' /\ LateInv'
  BY <1>1, <1>2, NoHandlerIs DEF SessionInv, AcceptorInv, LateInv
<1>6. QED
  BY <1>1, <1>4, <1>5 DEF SessionInv

LEMMA SessionOnAccept == ASSUME TypeOK, ShapeInv, SessionInv, OnAccept PROVE SessionInv'
<1> DEFINE d == acceptor.c
           f == FrameAt("admit", "none", d, NoName)
<1>1. /\ Handler.c = NoConn /\ Handler.at = "none" /\ Handler' = f
      /\ UNCHANGED <<sock, reads, m_clients, process>>
  <2>1. IoIdle /\ Push(Io, f) /\ stack[Io] = <<>>
    BY DEF OnAccept, IoIdle
  <2>2. QED
    BY <2>1, IdleHandler, HandlerPush DEF OnAccept, data
<1>2. f.at = "admit" /\ f.c = d /\ d \in Conns /\ NoConn \notin Conns
  BY ConstantsAssumption DEF OnAccept, FrameAt, TypeOK, Acceptor
<1> HIDE DEF f
<1>3. /\ acceptor.op = "ready" /\ acceptor'.op = "idle" /\ acceptor'.c = NoConn
      /\ acceptor'.open = acceptor.open
  BY DEF OnAccept, TypeOK, Acceptor
<1>4. ASSUME NEW c \in Conns PROVE Session(c)'
  <2>1. Session(c)
    BY DEF SessionInv
  <2>2. Admitting(c)' <=> c = d
    BY <1>1, <1>2 DEF Admitting
  <2>3. QED
    BY <1>1, <1>2, <1>3, <2>1, <2>2 DEF Session, Admitting, Member
<1>5. AcceptorInv' /\ LateInv'
  BY <1>1, <1>2, <1>3 DEF SessionInv, AcceptorInv, LateInv
<1>6. QED
  BY <1>1, <1>4, <1>5 DEF SessionInv

LEMMA SessionOnAcceptError ==
  ASSUME TypeOK, ShapeInv, SessionInv, OnAcceptError
  PROVE  SessionInv'
<1>1. /\ UNCHANGED <<sock, reads, m_clients, process>> /\ Handler' = Handler
      /\ Handler.at = "none"
  BY IdleHandler DEF OnAcceptError, Handler, data
<1>2. /\ acceptor.op = "failed" /\ acceptor'.op = "idle" /\ acceptor'.c = acceptor.c
      /\ acceptor'.open = acceptor.open
  BY DEF OnAcceptError, TypeOK, Acceptor
<1>3. \A c \in Conns : Session(c)'
  BY <1>1, <1>2 DEF SessionInv, Session, Admitting, Member
<1>4. AcceptorInv' /\ LateInv'
  BY <1>1, <1>2 DEF SessionInv, AcceptorInv, LateInv
<1>5. QED
  BY <1>1, <1>3, <1>4 DEF SessionInv

LEMMA SessionReject == ASSUME TypeOK, ShapeInv, SessionInv, RejectClient PROVE SessionInv'
<1> DEFINE d == Top(Io).c
<1>1. /\ Handler.at = "admit" /\ Handler.c = d /\ Handler' = NoHandler
      /\ acceptor.op = "idle" /\ AcceptConnections /\ CloseSockets({d})
      /\ UNCHANGED <<m_clients, process>>
  <2>1. stack[Io] # <<>> /\ Top(Io).at \in Outer /\ Return(Io) /\ Top(Io).at = "admit"
    BY DEF RejectClient, At, Outer
  <2>2. Handler = Top(Io) /\ Handler' = NoHandler
    BY <2>1, OuterTop, HandlerReturn
  <2>3. QED
    BY <2>1, <2>2, BeforeReadIdle DEF RejectClient, SessionInv, BeforeRead, data
<1> HIDE DEF d
<1>2. /\ acceptor.c = NoConn /\ acceptor'.c = NoConn /\ acceptor'.open = acceptor.open
      /\ acceptor'.op \in {"armed", "failed"}
      /\ ~acceptor.open => acceptor'.op = "failed"
  BY <1>1, AcceptFacts DEF SessionInv
<1>3. d \in Conns /\ NoConn \notin Conns
  BY <1>1, ConstantsAssumption DEF ShapeInv
<1>4. \A c \in Conns : /\ sock'[c] = IF c = d /\ sock[c] = "open" THEN "closed" ELSE sock[c]
                       /\ reads'[c] = Idle <=> reads[c] = Idle
  BY <1>1, CloseFacts
<1>5. ASSUME NEW c \in Conns PROVE Session(c)'
  <2>1. Session(c) /\ ~Admitting(c)' /\ Member(c)' = Member(c)
    BY <1>1, NoHandlerIs DEF SessionInv, Admitting, Member
  <2>2. Admitting(c) <=> c = d
    BY <1>1 DEF Admitting
  <2>3. QED
    BY <1>1, <1>2, <1>3, <1>4, <2>1, <2>2, NoHandlerIs DEF Session
<1>6. AcceptorInv' /\ LateInv'
  BY <1>1, <1>2, NoHandlerIs DEF SessionInv, AcceptorInv, LateInv
<1>7. QED
  BY <1>1, <1>5, <1>6 DEF SessionInv

LEMMA SessionAdmit == ASSUME TypeOK, ShapeInv, SessionInv, AdmitClient PROVE SessionInv'
<1> DEFINE f == [Top(Io) EXCEPT !.at = "push"]
<1>1. stack[Io] # <<>> /\ Top(Io).at = "admit" /\ Top(Io).at \in Outer /\ Goto(Io, f)
  BY DEF AdmitClient, At, Outer
<1>2. f.at = "push" /\ f.c = Top(Io).c
  BY <1>1, IoIsThread, MoveFacts
<1> HIDE DEF f
<1>3. /\ Handler.at = "admit" /\ Handler' = f /\ f.c = Handler.c
      /\ UNCHANGED <<sock, reads, acceptor, m_clients, process>>
  BY <1>1, <1>2, OuterTop, HandlerGoto DEF AdmitClient, asio, data
<1>4. \A c \in Conns : Session(c)'
  BY <1>2, <1>3 DEF SessionInv, Session, Admitting, Member
<1>5. AcceptorInv' /\ LateInv'
  BY <1>2, <1>3 DEF SessionInv, AcceptorInv, LateInv
<1>6. QED
  BY <1>3, <1>4, <1>5 DEF SessionInv

LEMMA SessionPush == ASSUME TypeOK, ShapeInv, SessionInv, PushClient PROVE SessionInv'
<1> DEFINE d == Top(Io).c
           f == [Top(Io) EXCEPT !.at = "greet"]
<1>1. stack[Io] # <<>> /\ Top(Io).at = "push" /\ Top(Io).at \in Outer /\ Goto(Io, f)
  BY DEF PushClient, At, Outer
<1>2. f.at = "greet" /\ f.c = d
  BY <1>1, IoIsThread, MoveFacts
<1> HIDE DEF f
<1>3. /\ Handler.at = "push" /\ Handler.c = d /\ Handler' = f
      /\ UNCHANGED <<sock, reads, acceptor, process>> /\ m_clients' = Append(m_clients, d)
  BY <1>1, <1>2, OuterTop, HandlerGoto DEF PushClient, asio
<1>4. d \in Conns /\ m_clients \in Seq(Conns)
  BY <1>3 DEF ShapeInv, TypeOK
<1>5. d \notin Range(m_clients)
  BY <1>3, <1>4 DEF SessionInv, Session, Admitting, Member
<1>6. IsInjective(m_clients') /\ Range(m_clients') = Range(m_clients) \cup {d}
  BY <1>3, <1>4, <1>5, ListAppend DEF SessionInv
<1>7. ASSUME NEW c \in Conns PROVE Session(c)'
  <2>1. /\ Session(c) /\ ~Admitting(c)' /\ (Admitting(c) <=> c = d)
        /\ Member(c)' <=> Member(c) \/ c = d
    BY <1>2, <1>3, <1>6 DEF SessionInv, Admitting, Member
  <2>2. QED
    BY <1>2, <1>3, <2>1 DEF Session
<1>8. AcceptorInv'
  BY <1>2, <1>3 DEF SessionInv, AcceptorInv
<1>9. LateInv'
  <2>1. SUFFICES ASSUME ~acceptor.open PROVE Len(m_clients') <= 1
    BY <1>2, <1>3 DEF SessionInv, AcceptorInv, LateInv
  <2>2. m_clients = <<>>
    BY <1>3, <2>1 DEF SessionInv, LateInv
  <2>3. QED
    BY <1>3, <2>2
<1>10. QED
  BY <1>6, <1>7, <1>8, <1>9 DEF SessionInv

LEMMA SessionGreet == ASSUME TypeOK, ShapeInv, SessionInv, GreetClient PROVE SessionInv'
<1> DEFINE d == Top(Io).c
<1>1. /\ Handler.at = "greet" /\ Handler.c = d /\ Handler' = NoHandler
      /\ acceptor.op = "idle" /\ AcceptConnections /\ ReadClientMessage(d)
      /\ UNCHANGED <<sock, m_clients, process>> /\ sock[d] = "open"
  <2>1. stack[Io] # <<>> /\ Top(Io).at \in Outer /\ Return(Io) /\ Top(Io).at = "greet"
    BY DEF GreetClient, At, Outer
  <2>2. Handler = Top(Io) /\ Handler' = NoHandler
    BY <2>1, OuterTop, HandlerReturn
  <2>3. QED
    BY <2>1, <2>2, BeforeReadIdle DEF GreetClient, SessionInv, BeforeRead, data
<1> HIDE DEF d
<1>2. /\ acceptor.c = NoConn /\ acceptor'.c = NoConn /\ acceptor'.open = acceptor.open
      /\ acceptor'.op \in {"armed", "failed"}
      /\ ~acceptor.open => acceptor'.op = "failed"
  BY <1>1, AcceptFacts DEF SessionInv
<1>3. d \in Conns /\ NoConn \notin Conns
  BY <1>1, ConstantsAssumption DEF ShapeInv
<1>4. reads'[d] # Idle /\ \A c \in Conns : c # d => reads'[c] = reads[c]
  BY <1>1, <1>3, ReadFacts
<1>5. ASSUME NEW c \in Conns PROVE Session(c)'
  <2>1. Session(c) /\ ~Admitting(c)' /\ ~Admitting(c) /\ Member(c)' = Member(c)
    BY <1>1, NoHandlerIs DEF SessionInv, Admitting, Member
  <2>2. QED
    BY <1>1, <1>2, <1>3, <1>4, <2>1, NoHandlerIs DEF Session
<1>6. AcceptorInv' /\ LateInv'
  BY <1>1, <1>2, NoHandlerIs DEF SessionInv, AcceptorInv, LateInv
<1>7. QED
  BY <1>1, <1>5, <1>6 DEF SessionInv

\* A read is started, completes, or is answered by the end of the process.
LEMMA ReadMoves ==
  ASSUME SessionInv, NEW c \in Conns, reads[c] # Idle,
         UNCHANGED <<sock, acceptor, m_clients>>, Handler' = Handler,
         \A d \in Conns : d # c => reads'[d] = reads[d],
         process' = "up" => process = "up" /\ reads'[c] # Idle
  PROVE  SessionInv'
<1>1. ASSUME NEW d \in Conns PROVE Session(d)'
  BY DEF SessionInv, Session, Admitting, Member
<1>2. AcceptorInv' /\ LateInv'
  BY DEF SessionInv, AcceptorInv, LateInv
<1>3. QED
  BY <1>1, <1>2 DEF SessionInv

\* A completed read is handed to a handler.
LEMMA ReadHandled ==
  ASSUME SessionInv, NEW c \in Conns, reads[c] # Idle, IoIdle,
         UNCHANGED <<sock, acceptor, m_clients, process>>,
         reads' = [reads EXCEPT ![c] = Idle], reads \in [Conns -> ReadState],
         Handler'.c = c, Handler'.at \notin BeforeRead
  PROVE  SessionInv'
<1>1. Handler.at = "none" /\ Handler.c = NoConn /\ NoConn \notin Conns
  BY IdleHandler, ConstantsAssumption
<1>2. ASSUME NEW d \in Conns PROVE Session(d)'
  <2>1. ~Admitting(d) /\ ~Admitting(d)' /\ Member(d)' = Member(d)
    BY <1>1 DEF Admitting, Member, BeforeRead
  <2>2. QED
    BY <1>1, <2>1 DEF SessionInv, Session
<1>3. AcceptorInv' /\ LateInv'
  BY <1>1 DEF SessionInv, AcceptorInv, LateInv, BeforeRead
<1>4. QED
  BY <1>2, <1>3 DEF SessionInv

LEMMA SessionReading ==
  ASSUME TypeOK, ShapeInv, SessionInv, NEW c \in Conns, Reading(c)
  PROVE  SessionInv'
<1>1. IoIdle /\ reads[c] # Idle /\ reads \in [Conns -> ReadState]
  <2>1. IoIdle /\ reads[c].kind \in {"eof", "blank", "raw", "odd", "text", "dm"}
    BY DEF Reading, OnReadError, OnBlank, OnUnparsable, OnOddMessage, OnFirstText, OnText,
           OnDirectMessage, ReadDone
  <2>2. Idle.kind = "idle"
    BY DEF Idle
  <2>3. QED
    BY <2>1, <2>2 DEF TypeOK
<1>2. CASE OnReadError(c)
  <2> DEFINE f == FrameAt("remove", "none", c, NoName)
  <2>1. Handler' = f
    BY <1>1, <1>2, HandlerPush DEF OnReadError, IoIdle
  <2>2. f.at = "remove" /\ f.c = c
    BY DEF FrameAt
  <2> HIDE DEF f
  <2>3. QED
    BY <1>1, <1>2, <2>1, <2>2, ReadHandled DEF OnReadError, BeforeRead, data
<1>3. CASE OnBlank(c)
  <2>1. reads'[c] # Idle /\ \A d \in Conns : d # c => reads'[d] = reads[d]
    BY <1>3, ReadFacts DEF OnBlank
  <2>2. QED
    BY <1>1, <1>3, <2>1, ReadMoves DEF OnBlank, Handler, data
<1>4. CASE OnUnparsable(c) \/ OnOddMessage(c)
  BY <1>1, <1>4, ReadMoves DEF OnUnparsable, OnOddMessage, Handler, data
<1>5. CASE OnFirstText(c) \/ OnText(c) \/ OnDirectMessage(c)
  <2> DEFINE r == FrameAt("rearm", "none", c, NoName)
  <2>1. PICK f : Handle(c, f)
    BY <1>5 DEF OnFirstText, OnText, OnDirectMessage
  <2>2. Handler' = r
    BY <2>1, HandlerHandle
  <2>3. r.at = "rearm" /\ r.c = c
    BY DEF FrameAt
  <2> HIDE DEF r
  <2>4. QED
    BY <1>1, <2>1, <2>2, <2>3, ReadHandled DEF Handle, BeforeRead
<1>6. QED
  BY <1>2, <1>3, <1>4, <1>5 DEF Reading

LEMMA SessionRearm == ASSUME TypeOK, ShapeInv, SessionInv, Rearm PROVE SessionInv'
<1> DEFINE d == Top(Io).c
<1>1. /\ Handler.at = "rearm" /\ Handler.c = d /\ Handler' = NoHandler
      /\ ReadClientMessage(d)
      /\ UNCHANGED <<sock, acceptor, m_clients, process>>
  <2>1. stack[Io] # <<>> /\ Top(Io).at \in Outer /\ Return(Io) /\ Top(Io).at = "rearm"
    BY DEF Rearm, At, Outer
  <2>2. Handler = Top(Io) /\ Handler' = NoHandler
    BY <2>1, OuterTop, HandlerReturn
  <2>3. QED
    BY <2>1, <2>2 DEF Rearm, data
<1> HIDE DEF d
<1>2. d \in Conns /\ NoConn \notin Conns
  BY <1>1, ConstantsAssumption DEF ShapeInv
<1>3. reads'[d] # Idle /\ \A c \in Conns : c # d => reads'[c] = reads[c]
  BY <1>1, <1>2, ReadFacts
<1>4. ASSUME NEW c \in Conns PROVE Session(c)'
  <2>1. Session(c) /\ ~Admitting(c)' /\ ~Admitting(c) /\ Member(c)' = Member(c)
    BY <1>1, NoHandlerIs DEF SessionInv, Admitting, Member
  <2>2. QED
    BY <1>1, <1>2, <1>3, <2>1, NoHandlerIs DEF Session
<1>5. AcceptorInv' /\ LateInv'
  BY <1>1, NoHandlerIs DEF SessionInv, AcceptorInv, LateInv
<1>6. QED
  BY <1>1, <1>4, <1>5 DEF SessionInv

\* A removal that finds the mutex free has not been called from a broadcast:
\* it is the handler of a failed read.
LEMMA EraseIsHandler ==
  ASSUME TypeOK, ScopeInv, ShapeInv, NEW t \in Threads, EraseClient(t)
  PROVE  t = Io /\ Len(stack[Io]) = 1
<1>1. Len(stack[t]) \in Removals(t)
  BY TopPlace DEF EraseClient, At, Removals, Removing
<1>2. Scopes(t) = {}
  BY ConstantsAssumption DEF EraseClient, CanLock, ScopeInv
<1>3. QED
  BY <1>1, <1>2 DEF ShapeInv, Covered

LEMMA SessionErase ==
  ASSUME TypeOK, ScopeInv, ShapeInv, SessionInv, NEW t \in Threads, EraseClient(t)
  PROVE  SessionInv'
<1> DEFINE d == Top(Io).c
<1>1. /\ Handler.at = "erase" /\ Handler.c = d /\ Handler' = NoHandler
      /\ CloseSockets({d}) /\ m_clients' = RemoveFirst(m_clients, d)
      /\ UNCHANGED <<acceptor, process>>
  BY EraseIsHandler, HandlerTop, HandlerReturn DEF EraseClient, At
<1> HIDE DEF d
<1>2. d \in Conns /\ NoConn \notin Conns /\ m_clients \in Seq(Conns) /\ IsInjective(m_clients)
  BY <1>1, ConstantsAssumption DEF ShapeInv, TypeOK, SessionInv
<1>3. \A c \in Conns : /\ sock'[c] = IF c = d /\ sock[c] = "open" THEN "closed" ELSE sock[c]
                       /\ reads'[c] = Idle <=> reads[c] = Idle
  BY <1>1, CloseFacts
<1>4. IsInjective(m_clients') /\ Range(m_clients') = Range(m_clients) \ {d}
  BY <1>1, <1>2, ListRemove
<1>5. ASSUME NEW c \in Conns PROVE Session(c)'
  <2>1. /\ Session(c) /\ ~Admitting(c)' /\ ~Admitting(c)
        /\ Member(c)' <=> Member(c) /\ c # d
    BY <1>1, <1>4, NoHandlerIs DEF SessionInv, Admitting, Member
  <2>2. QED
    BY <1>1, <1>2, <1>3, <2>1, NoHandlerIs DEF Session
<1>6. AcceptorInv'
  BY <1>1, NoHandlerIs DEF SessionInv, AcceptorInv
<1>7. LateInv'
  <2>1. /\ Len(m_clients') \in Nat /\ Len(m_clients) \in Nat
        /\ Len(m_clients') <= Len(m_clients)
        /\ m_clients = <<>> => m_clients' = <<>>
    BY <1>1, <1>2, RemoveFirstFacts, LenProperties, EmptySeq
  <2>2. QED
    BY <1>1, <2>1, NoHandlerIs DEF SessionInv, LateInv
<1>8. QED
  BY <1>4, <1>5, <1>6, <1>7 DEF SessionInv

LEMMA SessionShutdown ==
  ASSUME TypeOK, ShapeInv, SessionInv, NEW t \in Callers, Shutdown(t)
  PROVE  SessionInv'
<1>1. /\ CloseSockets(Range(m_clients)) /\ m_clients' = <<>> /\ Handler' = Handler
      /\ UNCHANGED process
  <2>1. stack[t] # <<>> /\ Return(t) /\ t # Io /\ t \in Threads
    BY ConstantsAssumption DEF Shutdown, At, Threads
  <2>2. stack'[Io] = stack[Io]
    BY <2>1, IoIsThread DEF TypeOK, Return
  <2>3. QED
    BY <2>2 DEF Shutdown, Handler
<1>2. /\ acceptor'.c = acceptor.c /\ ~acceptor'.open
      /\ acceptor'.op = IF acceptor.op = "armed" THEN "failed" ELSE acceptor.op
  BY DEF Shutdown, TypeOK, Acceptor
<1>3. \A c \in Conns :
        /\ sock'[c] = IF Member(c) /\ sock[c] = "open" THEN "closed" ELSE sock[c]
        /\ reads'[c] = Idle <=> reads[c] = Idle
  BY <1>1, CloseFacts DEF Member
<1>4. Range(m_clients') = {} /\ IsInjective(m_clients') /\ Len(m_clients') <= 1
  BY <1>1 DEF Range, IsInjective
<1>5. ASSUME NEW c \in Conns PROVE Session(c)'
  <2>1. Session(c) /\ Admitting(c)' = Admitting(c) /\ ~Member(c)'
    BY <1>1, <1>4 DEF SessionInv, Admitting, Member
  <2>2. QED
    BY <1>1, <1>2, <1>3, <2>1 DEF Session
<1>6. AcceptorInv' /\ LateInv'
  BY <1>1, <1>2, <1>4 DEF SessionInv, AcceptorInv, LateInv
<1>7. QED
  BY <1>4, <1>5, <1>6 DEF SessionInv

LEMMA SessionCompletion ==
  ASSUME TypeOK, ShapeInv, SessionInv, NEW c \in Conns, Completion(c)
  PROVE  SessionInv'
<1>1. CASE AcceptCompletes(c)
  <2>1. /\ UNCHANGED <<reads, m_clients, process>> /\ Handler' = Handler
        /\ acceptor.op = "armed" /\ acceptor'.op = "ready" /\ acceptor'.c = c
        /\ acceptor'.open = acceptor.open
        /\ sock[c] = "none" /\ sock'[c] = "open" /\ \A d \in Conns : d # c => sock'[d] = sock[d]
    BY <1>1 DEF AcceptCompletes, TypeOK, Acceptor, Handler, data
  <2>2. acceptor.c = NoConn /\ c # NoConn /\ Handler.at \notin {"start", "admit", "push", "greet"}
    BY <2>1, ConstantsAssumption DEF SessionInv, AcceptorInv
  <2>3. ASSUME NEW d \in Conns PROVE Session(d)'
    <3>1. /\ Session(d) /\ ~Admitting(d) /\ ~Admitting(d)' /\ Member(d)' = Member(d)
          /\ Handler'.c = Handler.c
      BY <2>1, <2>2 DEF SessionInv, Admitting, Member
    <3>2. CASE d = c
      BY <2>1, <2>2, <3>1, <3>2 DEF Session
    <3>3. CASE d # c
      BY <2>1, <2>2, <3>1, <3>3, ConstantsAssumption DEF Session
    <3>4. QED
      BY <3>2, <3>3
  <2>4. AcceptorInv' /\ LateInv'
    BY <2>1, <2>2 DEF SessionInv, AcceptorInv, LateInv
  <2>5. QED
    BY <2>1, <2>3, <2>4 DEF SessionInv
<1>2. CASE ReadCompletes(c) \/ ReadSplits(c) \/ ReadFails(c)
  <2>1. /\ reads[c] = Armed /\ \A d \in Conns : d # c => reads'[d] = reads[d]
        /\ UNCHANGED <<sock, acceptor, m_clients, process>> /\ Handler' = Handler
    BY <1>2 DEF ReadCompletes, ReadSplits, ReadFails, TypeOK, Handler, data
  <2>2. reads'[c] # Idle
    <3>1. CASE ReadSplits(c) \/ ReadFails(c)
      BY <3>1, ReadKinds DEF ReadSplits, ReadFails, TypeOK
    <3>2. CASE ReadCompletes(c)
      <4>1. PICK n \in 1..Len(uplink[c]) : reads'[c] = Chunk(SubSeq(uplink[c], 1, n))
        BY <3>2 DEF ReadCompletes, TypeOK
      <4>2. SubSeq(uplink[c], 1, n) \in Seq(Message)
        BY SubSeqProperties DEF TypeOK
      <4>3. reads'[c] \in Message
        BY <4>1, <4>2, ChunkType
      <4>4. Idle \notin Message
        BY DEF Idle, Message
      <4>5. QED
        BY <4>3, <4>4
    <3>3. QED
      BY <1>2, <3>1, <3>2
  <2>3. QED
    BY <2>1, <2>2, ReadKinds, ReadMoves
<1>3. QED
  BY <1>1, <1>2 DEF Completion

LEMMA SessionAcceptFails ==
  ASSUME TypeOK, ShapeInv, SessionInv, AcceptFails
  PROVE  SessionInv'
<1>1. /\ UNCHANGED <<sock, reads, m_clients, process>> /\ Handler' = Handler
      /\ acceptor.op = "armed" /\ acceptor'.op = "failed" /\ acceptor'.c = acceptor.c
      /\ acceptor'.open = acceptor.open
  BY DEF AcceptFails, TypeOK, Acceptor, Handler, data
<1>2. ASSUME NEW d \in Conns PROVE Session(d)'
  BY <1>1 DEF SessionInv, Session, Admitting, Member
<1>3. AcceptorInv' /\ LateInv'
  BY <1>1 DEF SessionInv, AcceptorInv, LateInv
<1>4. QED
  BY <1>1, <1>2, <1>3 DEF SessionInv

LEMMA SessionInit == Init => SessionInv
<1> SUFFICES ASSUME Init PROVE SessionInv
  OBVIOUS
<1> DEFINE f == FrameAt("start", "none", NoConn, NoName)
<1>1. Handler = f
  BY IoIsThread DEF Init, Handler, Bottom
<1>2. f.at = "start" /\ f.c = NoConn
  BY DEF FrameAt
<1> HIDE DEF f
<1>3. Range(m_clients) = {} /\ IsInjective(m_clients)
  BY DEF Init, Range, IsInjective
<1>4. \A c \in Conns : Session(c)
  BY <1>1, <1>2, <1>3, ConstantsAssumption DEF Init, Session, Admitting, Member
<1>5. AcceptorInv /\ LateInv
  BY <1>1, <1>2 DEF Init, AcceptorInv, LateInv
<1>6. QED
  BY <1>3, <1>4, <1>5 DEF SessionInv

LEMMA SessionStep ==
  TypeOK /\ ScopeInv /\ ShapeInv /\ SessionInv /\ [Next]_vars => SessionInv'
<1>1. SUFFICES ASSUME TypeOK, ScopeInv, ShapeInv, SessionInv, [Next]_vars
               PROVE  SessionInv'
  OBVIOUS
<1>2. Io \in Threads /\ Callers \subseteq Threads
  BY DEF Threads
<1>3. CASE Accepting
  BY <1>1, <1>3, SessionStart, SessionOnAccept, SessionOnAcceptError, SessionReject,
     SessionAdmit, SessionPush, SessionGreet, SessionDirect DEF Accepting
<1>4. ASSUME NEW t \in Threads, Broadcasting(t) PROVE SessionInv'
  BY <1>1, <1>4, SessionBroadcasting, SessionErase
<1>5. CASE IoStep
  BY <1>1, <1>2, <1>3, <1>4, <1>5, SessionDirect, SessionRearm, SessionReading DEF IoStep
<1>6. CASE \E t \in Callers : CallerStep(t) \/ CallBroadcast(t) \/ CallShutdown(t)
  BY <1>1, <1>2, <1>4, <1>6, SessionShutdown, SessionCalls DEF CallerStep
<1>7. CASE \E c \in Conns : Completion(c) \/ Peers(c)
  BY <1>1, <1>7, SessionCompletion, SessionPeers
<1>8. CASE AcceptFails
  BY <1>1, <1>8, SessionAcceptFails
<1>9. CASE UNCHANGED vars
  BY <1>1, <1>9, SessionPeers
<1>10. QED
  BY <1>1, <1>5, <1>6, <1>7, <1>8, <1>9 DEF Next

-----------------------------------------------------------------------------
(* The theorems.                                                            *)

LEMMA SessionsCorrect == Spec => [](TypeOK /\ ShapeInv /\ SessionInv)
<1> DEFINE Inv == TypeOK /\ ScopeInv /\ ShapeInv /\ SessionInv
<1>1. Init => Inv
  BY TypeInit, ScopeInit, ShapeInit, SessionInit
<1>2. Inv /\ [Next]_vars => Inv'
  BY TypeStep, ScopeStep, ShapeStep, SessionStep
<1>3. Inv => TypeOK /\ ShapeInv /\ SessionInv
  OBVIOUS
<1> HIDE DEF Inv
<1>4. QED
  BY <1>1, <1>2, <1>3, PTL DEF Spec

\* A record at a label of the handlers is the handler.
LEMMA OuterIsHandler ==
  ASSUME ShapeInv, NEW f \in Range(stack[Io]), f.at \in Outer
  PROVE  f = Handler
<1>1. PICK i \in DOMAIN stack[Io] : stack[Io][i] = f
  BY DEF Range
<1>2. i = 1
  BY <1>1 DEF ShapeInv, Places
<1>3. stack[Io] # <<>>
  BY <1>1
<1>4. QED
  BY <1>1, <1>2, <1>3 DEF Handler, Bottom

\* m_clients lists every open connection once and nothing else, whoever adds,
\* removes or clears sessions, but for the one whose accept handler has not
\* reached push_back.
THEOREM RegistryCorrect == Spec => []RegistryMatchesSockets
<1>1. TypeOK /\ ShapeInv /\ SessionInv => RegistryMatchesSockets
  <2>1. SUFFICES ASSUME TypeOK, ShapeInv, SessionInv PROVE RegistryMatchesSockets
    OBVIOUS
  <2>2. ASSUME NEW c \in Conns
        PROVE  Admitting(c) <=>
                 \E f \in Range(stack[Io]) : f.c = c /\ f.at \in {"admit", "push"}
    <3>1. ASSUME NEW f \in Range(stack[Io]), f.c = c, f.at \in {"admit", "push"}
          PROVE  Admitting(c)
      BY <2>1, <3>1, OuterIsHandler DEF Admitting, Outer
    <3>2. ASSUME Admitting(c)
          PROVE  Handler \in Range(stack[Io])
      <4>1. stack[Io] # <<>>
        BY <3>2 DEF Admitting, Handler, Bottom, NoHandler
      <4>2. stack[Io] \in Seq(Frame)
        BY <2>1, IoIsThread DEF TypeOK
      <4>3. 1 \in DOMAIN stack[Io]
        BY <4>1, <4>2, FrontFacts, LenProperties
      <4>4. QED
        BY <4>1, <4>3 DEF Handler, Bottom, Range
    <3>3. QED
      BY <3>1, <3>2 DEF Admitting
  <2>3. \A c \in Conns : Member(c) <=> sock[c] = "open" /\ acceptor.c # c /\ ~Admitting(c)
    BY <2>1 DEF SessionInv, Session
  <2>4. QED
    BY <2>1, <2>2, <2>3 DEF RegistryMatchesSockets, SessionInv
<1>2. QED
  BY <1>1, SessionsCorrect, PTL

\* No open connection is left without a read, a waiting handler or a running
\* one, and no handler starts a second read.
THEOREM NoLostCorrect == Spec => []NoLostSession
<1>1. TypeOK /\ ShapeInv /\ SessionInv => NoLostSession
  <2>1. SUFFICES ASSUME TypeOK, ShapeInv, SessionInv, process = "up" PROVE NoLostSession
    BY DEF NoLostSession
  <2>2. ASSUME NEW c \in Conns, sock[c] = "open", acceptor.c # c, reads[c] = Idle
        PROVE  \E f \in Range(stack[Io]) :
                 f.c = c /\ f.at \in {"admit", "push", "greet", "rearm", "remove", "erase"}
    <3>1. Handler.c = c
      BY <2>1, <2>2 DEF SessionInv, Session
    <3>2. stack[Io] # <<>> /\ c # NoConn
      BY <3>1, ConstantsAssumption DEF Handler, Bottom, NoHandler
    <3>3. Handler \in Range(stack[Io])
      <4>1. 1 \in DOMAIN stack[Io]
        BY <2>1, <3>2, IoIsThread, FrontFacts, LenProperties DEF TypeOK
      <4>2. QED
        BY <3>2, <4>1 DEF Handler, Bottom, Range
    <3>4. Handler.at \in {"admit", "push", "greet", "rearm", "remove", "erase"}
      BY <2>1, <3>1, <3>2 DEF ShapeInv, Outer, Removing
    <3>5. QED
      BY <3>1, <3>3, <3>4
  <2>3. ASSUME NEW f \in Range(stack[Io]), f.at \in {"greet", "rearm"}
        PROVE  reads[f.c] = Idle
    <3>1. f = Handler /\ f.c \in Conns
      BY <2>1, <2>3, OuterIsHandler DEF Outer, ShapeInv
    <3>2. QED
      BY <2>1, <3>1 DEF SessionInv, Session
  <2>4. QED
    BY <2>1, <2>2, <2>3 DEF NoLostSession
<1>2. QED
  BY <1>1, SessionsCorrect, PTL

\* After shutdown at most the connection whose accept had completed still
\* becomes a session.
THEOREM LateCorrect == Spec => []LateSessions
<1>1. SessionInv => LateSessions
  BY DEF SessionInv, LateInv, LateSessions
<1>2. QED
  BY <1>1, SessionsCorrect, PTL

\* A process that is not up takes no step.
LEMMA StoppedStays == process # "up" /\ [Next]_vars => UNCHANGED vars
<1>1. SUFFICES ASSUME process # "up", Next PROVE FALSE
  OBVIOUS
<1>2. CASE IoStep
  BY <1>1, <1>2 DEF IoStep, Accepting, Start, OnAccept, OnAcceptError, RejectClient,
     AdmitClient, PushClient, GreetClient, GreetThrows, Direct, StartDirect, SendDirect,
     SendNotFound, Rearm, RunReturns, Broadcasting, StartBroadcast, SkipExcluded, SendLine,
     SendLineFails, EndBroadcast, RemoveClient, EraseClient, Sending, Reading, OnReadError,
     OnBlank, OnUnparsable, OnOddMessage, OnFirstText, OnText, OnDirectMessage, ReadDone,
     IoIdle, At
<1>3. CASE \E t \in Callers : CallerStep(t) \/ CallBroadcast(t) \/ CallShutdown(t)
  BY <1>1, <1>3 DEF CallerStep, CallBroadcast, CallShutdown, Shutdown, Broadcasting,
     StartBroadcast, SkipExcluded, SendLine, SendLineFails, EndBroadcast, RemoveClient,
     EraseClient, Sending, At
<1>4. CASE (\E c \in Conns : Completion(c) \/ Peers(c)) \/ AcceptFails
  BY <1>1, <1>4 DEF Completion, AcceptCompletes, ReadCompletes, ReadSplits, ReadFails,
     Peers, PeerConnect, PeerSend, PeerRead, PeerLeave, AcceptFails
<1>5. QED
  BY <1>1, <1>2, <1>3, <1>4 DEF Next

\* main returns 0 only when every session is gone and every socket closed.
THEOREM NoEarlyReturnCorrect == Spec => []NoEarlyReturn
<1> DEFINE Inv == TypeOK /\ ShapeInv /\ SessionInv
<1>1. Init => NoEarlyReturn
  BY DEF Init, NoEarlyReturn
<1>2. Inv /\ NoEarlyReturn /\ [Next]_vars => NoEarlyReturn'
  <2>1. SUFFICES ASSUME Inv, NoEarlyReturn, [Next]_vars, process' = "done" PROVE NoEarlyReturn'
    BY DEF NoEarlyReturn
  <2>2. CASE process # "up"
    BY <2>1, <2>2, StoppedStays DEF vars, asio, data, NoEarlyReturn
  <2>3. CASE process = "up"
    <3>1. RunReturns
      BY <2>1, <2>3 DEF Next, IoStep, Accepting, Start, OnAccept, OnAcceptError,
         RejectClient, AdmitClient, PushClient, GreetClient, GreetThrows, Direct, StartDirect,
         SendDirect, SendNotFound, Rearm, Broadcasting, StartBroadcast, SkipExcluded,
         SendLine, SendLineFails, EndBroadcast, RemoveClient, EraseClient, Reading,
         OnReadError, OnBlank, OnUnparsable, OnOddMessage, OnFirstText, OnText,
         OnDirectMessage, Handle, CallerStep, CallBroadcast, CallShutdown, Shutdown,
         Completion, AcceptCompletes, ReadCompletes, ReadSplits, ReadFails, Peers,
         PeerConnect, PeerSend, PeerRead, PeerLeave, AcceptFails, vars
    <3>2. ASSUME NEW c \in Conns PROVE sock[c] # "open"
      <4>1. reads[c] = Idle /\ acceptor.c = NoConn /\ Handler.c = NoConn /\ c # NoConn
        BY <2>1, <3>1, IdleHandler, ConstantsAssumption
           DEF RunReturns, SessionInv, AcceptorInv
      <4>2. QED
        BY <2>1, <2>3, <4>1 DEF SessionInv, Session
    <3>3. m_clients = <<>>
      <4>1. Range(m_clients) = {}
        <5>1. \A c \in Conns : ~Member(c)
          BY <2>1, <3>2 DEF SessionInv, Session
        <5>2. QED
          BY <2>1, <5>1, ElementOfSeq, LenProperties DEF Member, Range, TypeOK
      <4>2. DOMAIN m_clients = {}
        BY <4>1 DEF Range
      <4>3. m_clients \in Seq(Conns) /\ DOMAIN m_clients = 1..Len(m_clients)
        BY <2>1, LenProperties DEF TypeOK
      <4>4. Len(m_clients) = 0
        BY <4>2, <4>3, LenProperties
      <4>5. QED
        BY <4>3, <4>4, EmptySeq
    <3>4. QED
      BY <3>1, <3>2, <3>3 DEF RunReturns, asio, data, NoEarlyReturn
  <2>4. QED
    BY <2>2, <2>3
<1>3. Spec => []Inv
  BY SessionsCorrect
<1> HIDE DEF Inv
<1>4. QED
  BY <1>1, <1>2, <1>3, PTL DEF Spec

-----------------------------------------------------------------------------
(***************************************************************************)
(* What can stop the server, when the peers send ordinary texts one at a   *)
(* time, a segment holds a whole message and no other thread uses Server.  *)
(***************************************************************************)
PlainKinds == {"text", "blank"}

PlainPeers ==
  /\ \A m \in Inputs : m.kind \in PlainKinds
  /\ Pipeline <= 1 /\ "split" \notin Faults
  /\ Callers = {}

\* A read returns at most one message, and that as it was sent.
PlainInv ==
  \A c \in Conns :
    /\ uplink[c] = <<>> \/ \E m \in Inputs : uplink[c] = <<m>>
    /\ reads[c].kind \in PlainKinds \cup {"idle", "armed", "eof"}

DirectAt == {"dm", "dmsend", "nouser"}
NoDirectInv == Places(stack[Io], DirectAt) = {}

\* Until its session has been greeted, the handler of an accept runs alone, and
\* the connection is open and has no username.
Greeted == {"admit", "push", "greet"}
Fresh(c) == sock[c] = "none" \/ acceptor.c = c \/ (Handler.c = c /\ Handler.at \in Greeted)

GreetInv ==
  /\ Handler.at \in BeforeRead => stack[Io] = <<FrameAt(Handler.at, "none", Handler.c, NoName)>>
  /\ Handler.at \in Greeted => sock[Handler.c] = "open"
  /\ \A c \in Conns : Fresh(c) => username[c] = NoName

\* Nothing has stopped the server but a failure to greet.
StopInv == process # "crashed" /\ OnlyGreetingStops

LEMMA PlainKind ==
  /\ Idle.kind = "idle" /\ Armed.kind = "armed" /\ Eof.kind = "eof" /\ Blank.kind = "blank"
BY DEF Idle, Armed, Eof, Blank

LEMMA ChunkOfOne ==
  ASSUME NEW m, m.kind \in PlainKinds
  PROVE  Chunk(<<m>>).kind \in PlainKinds
<1> DEFINE s == <<m>>
<1>1. DOMAIN s = {1} /\ s[1] = m
  OBVIOUS
<1>2. Solid(s) = {} \/ Solid(s) = {1}
  BY <1>1 DEF Solid
<1>3. CASE Solid(s) = {}
  BY <1>3, PlainKind DEF Chunk, PlainKinds
<1>4. CASE Solid(s) = {1}
  <2>1. Solid(s) # {} /\ \E i \in DOMAIN s : Solid(s) = {i}
    BY <1>1, <1>4
  <2>2. (CHOOSE i \in DOMAIN s : Solid(s) = {i}) = 1
    BY <1>1, <2>1
  <2>3. Chunk(s) = s[1]
    BY <2>1, <2>2, Zenon DEF Chunk
  <2>4. QED
    BY <1>1, <2>3
<1>5. QED
  BY <1>2, <1>3, <1>4

LEMMA OneTaken ==
  ASSUME NEW S, NEW m \in S
  PROVE  SubSeq(<<m>>, 1, 1) = <<m>> /\ SubSeq(<<m>>, 2, 1) = <<>>
<1> DEFINE s == <<m>>
<1>1. s \in Seq(S) /\ Len(s) = 1 /\ s[1] = m
  OBVIOUS
<1> HIDE DEF s
<1>2. SubSeq(s, 1, 1) = s
  <2>1. SubSeq(s, 1, 1) \in Seq(S) /\ Len(SubSeq(s, 1, 1)) = 1
    BY <1>1
  <2>2. SubSeq(s, 1, 1)[1] = s[1]
    BY <1>1
  <2>3. QED
    BY <1>1, <2>1, <2>2, SeqEqual
<1>3. SubSeq(s, 2, 1) = <<>>
  BY <1>1
<1>4. QED
  BY <1>2, <1>3 DEF s

LEMMA PlainStep ==
  ASSUME PlainPeers, TypeOK, PlainInv, [Next]_vars
  PROVE  PlainInv'
<1>1. ASSUME UNCHANGED uplink,
             \A c \in Conns : reads'[c] = reads[c] \/ reads'[c] \in {Idle, Armed, Eof}
      PROVE  PlainInv'
  BY <1>1, PlainKind DEF PlainInv
<1>2. ASSUME NEW S, CloseSockets(S), UNCHANGED uplink PROVE PlainInv'
  BY <1>1, <1>2 DEF CloseSockets
<1>3. ASSUME NEW c, ReadClientMessage(c), UNCHANGED uplink PROVE PlainInv'
  BY <1>1, <1>3 DEF ReadClientMessage, TypeOK
<1>4. ASSUME NEW c, reads' = [reads EXCEPT ![c] = Idle], UNCHANGED uplink PROVE PlainInv'
  BY <1>1, <1>4 DEF TypeOK
<1>5. CASE UNCHANGED <<uplink, reads>>
  BY <1>1, <1>5
<1>6. CASE Accepting
  BY <1>2, <1>3, <1>5, <1>6 DEF Accepting, Start, OnAccept, OnAcceptError, RejectClient,
     AdmitClient, PushClient, GreetClient, GreetThrows, net, asio
<1>7. CASE Direct \/ Rearm \/ RunReturns
  BY <1>3, <1>5, <1>7 DEF Direct, StartDirect, SendDirect, SendNotFound, Rearm, RunReturns,
     net, asio
<1>8. ASSUME NEW c \in Conns, Reading(c) PROVE PlainInv'
  BY <1>3, <1>4, <1>8 DEF Reading, OnReadError, OnBlank, OnUnparsable, OnOddMessage,
     OnFirstText, OnText, OnDirectMessage, Handle, net
<1>9. ASSUME NEW t, Broadcasting(t) PROVE PlainInv'
  BY <1>2, <1>5, <1>9 DEF Broadcasting, StartBroadcast, SkipExcluded, SendLine,
     SendLineFails, EndBroadcast, RemoveClient, EraseClient, net, asio
<1>10. ASSUME NEW c \in Conns, ReadCompletes(c) PROVE PlainInv'
  <2>1. PICK n \in 1..Len(uplink[c]) :
          /\ reads' = [reads EXCEPT ![c] = Chunk(SubSeq(uplink[c], 1, n))]
          /\ uplink' = [uplink EXCEPT ![c] = SubSeq(@, n + 1, Len(@))]
    BY <1>10 DEF ReadCompletes
  <2>2. PICK m \in Inputs : uplink[c] = <<m>>
    BY <2>1 DEF PlainInv
  <2>3. n = 1 /\ Len(uplink[c]) = 1
    BY <2>1, <2>2
  <2>4. SubSeq(uplink[c], 1, n) = <<m>> /\ SubSeq(uplink[c], n + 1, Len(uplink[c])) = <<>>
    BY <2>2, <2>3, OneTaken
  <2>5. reads'[c].kind \in PlainKinds
    BY <2>1, <2>4, ChunkOfOne DEF PlainPeers, TypeOK
  <2>6. uplink'[c] = <<>>
    BY <2>1, <2>4 DEF TypeOK
  <2>7. \A d \in Conns : d # c => reads'[d] = reads[d] /\ uplink'[d] = uplink[d]
    BY <2>1 DEF TypeOK
  <2>8. QED
    BY <2>5, <2>6, <2>7 DEF PlainInv
<1>11. ASSUME NEW c \in Conns, Completion(c) PROVE PlainInv'
  <2>1. CASE AcceptCompletes(c)
    BY <1>5, <2>1 DEF AcceptCompletes, net
  <2>2. CASE ReadFails(c)
    BY <1>1, <2>2 DEF ReadFails, net, TypeOK
  <2>3. QED
    BY <1>10, <1>11, <2>1, <2>2 DEF Completion, ReadSplits, PlainPeers
<1>12. ASSUME NEW c \in Conns, NEW m \in Inputs, PeerSend(c, m) PROVE PlainInv'
  <2>1. Len(uplink[c]) \in Nat /\ Len(uplink[c]) < Pipeline /\ Pipeline \in Nat
    BY <1>12, LenProperties, ConstantsAssumption DEF PeerSend, TypeOK
  <2>2. Len(uplink[c]) = 0
    BY <2>1 DEF PlainPeers
  <2>3. uplink[c] = <<>>
    BY <2>2, EmptySeq DEF TypeOK
  <2>4. uplink'[c] = <<m>> /\ UNCHANGED reads /\ \A d \in Conns : d # c => uplink'[d] = uplink[d]
    BY <1>12, <2>3 DEF PeerSend, TypeOK, asio
  <2>5. QED
    BY <2>4 DEF PlainInv
<1>13. ASSUME NEW c \in Conns, Peers(c) PROVE PlainInv'
  BY <1>5, <1>12, <1>13 DEF Peers, PeerConnect, PeerRead, PeerLeave, asio
<1>14. CASE AcceptFails \/ UNCHANGED vars
  BY <1>5, <1>14 DEF AcceptFails, vars, net, asio
<1>15. QED
  BY <1>6, <1>7, <1>8, <1>9, <1>11, <1>13, <1>14 DEF Next, IoStep, PlainPeers

LEMMA NoDirectStep ==
  ASSUME PlainPeers, TypeOK, PlainInv, NoDirectInv, [Next]_vars
  PROVE  NoDirectInv'
<1>1. Threads = {Io} /\ Io \in Threads
  BY DEF Threads, PlainPeers
<1>2. CASE stack' = stack
  BY <1>2 DEF NoDirectInv
<1>3. ASSUME stack[Io] # <<>> PROVE Top(Io).at \notin DirectAt
  BY <1>1, <1>3, TopPlace DEF NoDirectInv
<1>4. ASSUME NEW c \in Conns, NEW f, Handle(c, f), f.at \notin DirectAt PROVE NoDirectInv'
  <2>1. FrameAt("rearm", "none", c, NoName).at \notin DirectAt
    BY DEF FrameAt, DirectAt
  <2>2. stack'[Io] = <<FrameAt("rearm", "none", c, NoName), f>>
    BY <1>1, <1>4 DEF Handle, TypeOK
  <2>3. QED
    BY <1>4, <2>1, <2>2 DEF NoDirectInv, Places
<1>5. ASSUME NEW f, Begins(Io, f) PROVE NoDirectInv'
  BY <1>1, <1>5, PushPlaces DEF Begins, NoDirectInv, DirectAt, PlainPeers
<1>6. ASSUME NEW f, NEW g, stack[Io] # <<>>, Moves(Io, f, g) PROVE NoDirectInv'
  <2>1. CASE Return(Io)
    BY <1>1, <1>6, <2>1, ReturnPlaces DEF NoDirectInv
  <2>2. CASE Goto(Io, f) /\ Continues(Io, f)
    <3>1. f.at \notin DirectAt
      BY <1>3, <1>6, <2>2 DEF Continues, DirectAt
    <3>2. QED
      BY <1>1, <1>6, <2>2, <3>1, GotoPlaces DEF NoDirectInv
  <2>3. CASE Call(Io, f, g) /\ Calls(Io, f, g)
    <3>1. f.at \notin DirectAt /\ g.at \notin DirectAt
      BY <2>3 DEF Calls, DirectAt
    <3>2. QED
      BY <1>1, <1>6, <2>3, <3>1, CallPlaces DEF NoDirectInv
  <2>4. QED
    BY <1>6, <2>1, <2>2, <2>3 DEF Moves
<1>7. ASSUME NEW c \in Conns, NEW f, Handle(c, f), Answers(c, f) PROVE NoDirectInv'
  <2>1. f.at \notin DirectAt
    BY <1>7 DEF Answers, PlainInv, PlainKinds, DirectAt
  <2>2. QED
    BY <1>4, <1>7, <2>1
<1>8. QED
  BY <1>1, <1>2, <1>5, <1>6, <1>7, StackSteps DEF StackStep, Moves

LEMMA GreetingAlone ==
  ASSUME GreetInv, Handler.at \in BeforeRead
  PROVE  stack[Io] # <<>> /\ Top(Io) = Handler
<1> DEFINE f == FrameAt(Handler.at, "none", Handler.c, NoName)
<1>1. stack[Io] = <<f>>
  BY DEF GreetInv
<1> HIDE DEF f
<1>2. stack[Io] # <<>> /\ Top(Io) = f
  BY <1>1 DEF Top, Last
<1>3. QED
  BY <1>1, <1>2 DEF Handler, Bottom

\* What a handler calls, and what follows in a handler other than an accept's.
LEMMA LaterStep ==
  ASSUME PlainPeers, TypeOK, GreetInv, [Next]_vars, stack[Io] # <<>>, Top(Io).at \notin BeforeRead
  PROVE  Handler.at \notin BeforeRead /\ Handler'.at \notin BeforeRead
<1>1. Threads = {Io}
  BY DEF Threads, PlainPeers
<1>2. Handler.at \notin BeforeRead
  BY GreetingAlone
<1>3. CASE stack' = stack
  BY <1>2, <1>3 DEF Handler
<1>4. ASSUME NEW f, NEW g, Moves(Io, f, g) PROVE Handler'.at \notin BeforeRead
  <2>1. CASE Return(Io)
    BY <1>2, <2>1, HandlerReturn, NoHandlerIs DEF BeforeRead
  <2>2. CASE (Goto(Io, f) /\ Continues(Io, f)) \/ (Call(Io, f, g) /\ Calls(Io, f, g))
    <3>1. f.at \notin BeforeRead
      BY <2>2 DEF Continues, Calls, BeforeRead
    <3>2. QED
      BY <1>2, <2>2, <3>1, HandlerGoto, HandlerCall
  <2>3. QED
    BY <1>4, <2>1, <2>2 DEF Moves
<1>5. QED
  BY <1>1, <1>2, <1>3, <1>4, StackSteps DEF StackStep, Begins, Moves

\* A step that greets nobody and leaves the names alone.
LEMMA GreetQuiet ==
  ASSUME TypeOK, GreetInv, Handler.at \notin BeforeRead, Handler'.at \notin BeforeRead,
         UNCHANGED username, acceptor'.c = acceptor.c \/ acceptor'.c \notin Conns,
         \A c \in Conns : sock'[c] = "none" => sock[c] = "none"
  PROVE  GreetInv'
BY DEF GreetInv, Fresh, BeforeRead, Greeted

LEMMA GreetSame ==
  ASSUME TypeOK, GreetInv, stack' = stack, UNCHANGED <<username, sock>>,
         acceptor'.c = acceptor.c
  PROVE  GreetInv'
BY DEF GreetInv, Fresh, Handler

LEMMA GreetAccepting ==
  ASSUME PlainPeers, TypeOK, ShapeInv, SessionInv, GreetInv, Accepting
  PROVE  GreetInv'
<1>1. CASE GreetThrows
  BY <1>1, GreetSame DEF GreetThrows, asio, data
<1>2. CASE OnAcceptError
  BY <1>2, GreetSame DEF OnAcceptError, data, TypeOK, Acceptor
<1>3. CASE Start
  <2>1. stack[Io] # <<>> /\ Top(Io).at = "start" /\ Return(Io)
    BY <1>3 DEF Start, At
  <2>2. Handler' = NoHandler /\ Handler.at = "start"
    BY <2>1, OuterTop, HandlerReturn DEF Outer
  <2>3. acceptor'.c = acceptor.c /\ UNCHANGED <<sock, username>>
    BY <1>3 DEF Start, AcceptConnections, TypeOK, Acceptor
  <2>4. QED
    BY <2>2, <2>3, NoHandlerIs DEF GreetInv, Fresh, BeforeRead, Greeted
<1>4. CASE OnAccept
  <2> DEFINE c == acceptor.c
             f == FrameAt("admit", "none", c, NoName)
  <2>1. /\ stack[Io] = <<>> /\ Push(Io, f) /\ acceptor'.c = NoConn
        /\ UNCHANGED <<sock, username>> /\ acceptor.op = "ready"
    BY <1>4 DEF OnAccept, IoIdle, data, TypeOK, Acceptor
  <2>2. c \in Conns /\ sock[c] = "open" /\ NoConn \notin Conns
    BY <2>1, ConstantsAssumption DEF TypeOK, Acceptor, SessionInv, Session
  <2>3. f.at = "admit" /\ f.c = c /\ f = FrameAt(f.at, "none", f.c, NoName)
    BY DEF FrameAt
  <2> HIDE DEF f
  <2>4. Handler' = f /\ stack'[Io] = <<f>>
    <3>1. Handler' = f
      BY <2>1, HandlerPush
    <3>2. stack'[Io] = Append(<<>>, f)
      BY <2>1, IoIsThread DEF Push, TypeOK
    <3>3. QED
      BY <3>1, <3>2
  <2>5. \A d \in Conns : Fresh(d)' => Fresh(d)
    <3>1. \A d \in Conns : acceptor'.c # d /\ sock'[d] = sock[d]
      BY <2>1, <2>2
    <3>2. \A d \in Conns : Handler'.c = d => acceptor.c = d
      BY <2>3, <2>4
    <3>3. QED
      BY <3>1, <3>2 DEF Fresh
  <2>6. QED
    BY <2>1, <2>2, <2>3, <2>4, <2>5 DEF GreetInv
<1>5. CASE RejectClient
  <2>1. stack[Io] # <<>> /\ Top(Io).at = "admit" /\ Return(Io) /\ CloseSockets({Top(Io).c})
    BY <1>5 DEF RejectClient, At
  <2>2. Handler' = NoHandler
    BY <2>1, OuterTop, HandlerReturn DEF Outer
  <2>3. acceptor'.c = acceptor.c /\ UNCHANGED username
    BY <1>5 DEF RejectClient, AcceptConnections, TypeOK, Acceptor, data
  <2>4. \A d \in Conns : sock'[d] = "none" => sock[d] = "none"
    BY <2>1, CloseFacts
  <2>5. \A d \in Conns : Fresh(d)' => Fresh(d)
    BY <2>2, <2>3, <2>4, NoHandlerIs DEF Fresh, Greeted
  <2>6. QED
    BY <2>2, <2>3, <2>5, NoHandlerIs DEF GreetInv, BeforeRead, Greeted
<1>6. ASSUME NEW at \in {"push", "greet"}, stack[Io] # <<>>, Top(Io).at \in {"admit", "push"},
             Goto(Io, [Top(Io) EXCEPT !.at = at]), UNCHANGED <<sock, username, acceptor>>
      PROVE  GreetInv'
  <2> DEFINE f == [Top(Io) EXCEPT !.at = at]
             h == FrameAt(Handler.at, "none", Handler.c, NoName)
  <2>1. Len(stack[Io]) = 1 /\ Top(Io) = Handler /\ Handler.at \in {"admit", "push"}
    BY <1>6, OuterTop DEF Outer
  <2>2. stack[Io] = <<h>> /\ Top(Io) = h
    BY <2>1, GreetingAlone DEF GreetInv, BeforeRead, Top, Last
  <2>3. f = FrameAt(at, "none", Handler.c, NoName) /\ f.at = at /\ f.c = Handler.c
    BY <2>2 DEF FrameAt
  <2>4. Handler' = f
    BY <1>6, <2>1, HandlerGoto
  <2> HIDE DEF f
  <2>5. stack'[Io] = ReplaceAt(<<h>>, 1, f)
    BY <1>6, <2>2, IoIsThread DEF Goto, TypeOK, f
  <2> HIDE DEF h
  <2>6. stack'[Io] = <<f>>
    BY <2>5 DEF ReplaceAt
  <2>7. \A d \in Conns : Fresh(d)' <=> Fresh(d)
    BY <1>6, <2>1, <2>3, <2>4 DEF Fresh, Greeted
  <2>8. QED
    BY <1>6, <2>1, <2>3, <2>4, <2>6, <2>7 DEF GreetInv, Greeted
<1>7. CASE AdmitClient \/ PushClient
  BY <1>6, <1>7 DEF AdmitClient, PushClient, At, asio, data
<1>8. CASE GreetClient
  <2>1. stack[Io] # <<>> /\ Top(Io).at = "greet" /\ Return(Io)
    BY <1>8 DEF GreetClient, At
  <2>2. Handler' = NoHandler
    BY <2>1, OuterTop, HandlerReturn DEF Outer
  <2>3. acceptor'.c = acceptor.c /\ UNCHANGED <<sock, username>>
    BY <1>8 DEF GreetClient, AcceptConnections, TypeOK, Acceptor, data
  <2>4. \A d \in Conns : Fresh(d)' => Fresh(d)
    BY <2>2, <2>3, NoHandlerIs DEF Fresh, Greeted
  <2>5. QED
    BY <2>2, <2>3, <2>4, NoHandlerIs DEF GreetInv, BeforeRead, Greeted
<1>9. QED
  BY <1>1, <1>2, <1>3, <1>4, <1>5, <1>7, <1>8 DEF Accepting

LEMMA GreetReading ==
  ASSUME PlainPeers, TypeOK, ShapeInv, SessionInv, GreetInv, NEW c \in Conns, Reading(c)
  PROVE  GreetInv'
<1>1. /\ IoIdle /\ stack[Io] = <<>> /\ Handler = NoHandler /\ reads[c] # Idle
      /\ UNCHANGED <<sock, acceptor>>
  BY IdleHandler, PlainKind DEF Reading, OnReadError, OnBlank, OnUnparsable, OnOddMessage,
     OnFirstText, OnText, OnDirectMessage, ReadDone, IoIdle, Handle, asio
<1>2. Handler.at \notin BeforeRead
  BY <1>1, NoHandlerIs DEF BeforeRead
<1>3. CASE OnBlank(c) \/ OnUnparsable(c) \/ OnOddMessage(c)
  BY <1>1, <1>3, GreetSame DEF OnBlank, OnUnparsable, OnOddMessage, data
<1>4. CASE OnReadError(c)
  <2> DEFINE f == FrameAt("remove", "none", c, NoName)
  <2>1. Push(Io, f) /\ UNCHANGED username /\ f.at = "remove"
    BY <1>4 DEF OnReadError, FrameAt, data
  <2> HIDE DEF f
  <2>2. Handler' = f
    BY <1>1, <2>1, HandlerPush
  <2>3. QED
    BY <1>1, <1>2, <2>1, <2>2, GreetQuiet DEF BeforeRead
<1>5. ASSUME NEW f, Handle(c, f) PROVE Handler'.at = "rearm"
  BY <1>5, HandlerHandle DEF FrameAt
<1>6. CASE OnText(c) \/ OnDirectMessage(c)
  <2>1. Handler'.at = "rearm" /\ UNCHANGED username
    BY <1>5, <1>6 DEF OnText, OnDirectMessage
  <2>2. QED
    BY <1>1, <1>2, <2>1, GreetQuiet DEF BeforeRead
<1>7. CASE OnFirstText(c)
  <2>1. Handler'.at = "rearm" /\ username' = [username EXCEPT ![c] = UserOf[c]]
    BY <1>5, <1>7 DEF OnFirstText
  <2>2. sock[c] # "none" /\ acceptor.c # c
    BY <1>1 DEF SessionInv, Session
  <2>3. \A d \in Conns : d # c => username'[d] = username[d]
    BY <2>1 DEF TypeOK
  <2>4. QED
    BY <1>1, <2>1, <2>2, <2>3 DEF GreetInv, Fresh, BeforeRead, Greeted
<1>8. QED
  BY <1>3, <1>4, <1>6, <1>7 DEF Reading

LEMMA GreetStep ==
  ASSUME PlainPeers, TypeOK, ShapeInv, SessionInv, GreetInv, [Next]_vars
  PROVE  GreetInv'
<1>1. CASE Direct \/ Rearm \/ Broadcasting(Io)
  <2>1. stack[Io] # <<>> /\ Top(Io).at \notin BeforeRead
    BY <1>1 DEF Direct, StartDirect, SendDirect, SendNotFound, Rearm, Broadcasting,
       StartBroadcast, SkipExcluded, SendLine, SendLineFails, EndBroadcast, RemoveClient,
       EraseClient, Sending, At, BeforeRead
  <2>2. UNCHANGED <<username, acceptor>> /\ (UNCHANGED sock \/ \E S : CloseSockets(S))
    BY <1>1 DEF Direct, StartDirect, SendDirect, SendNotFound, Rearm, Broadcasting,
       StartBroadcast, SkipExcluded, SendLine, SendLineFails, EndBroadcast, RemoveClient,
       EraseClient, asio, data
  <2>3. \A c \in Conns : sock'[c] = "none" => sock[c] = "none"
    BY <2>2, CloseFacts
  <2>4. QED
    BY <2>1, <2>2, <2>3, LaterStep, GreetQuiet
<1>2. CASE RunReturns \/ AcceptFails \/ UNCHANGED vars
  <2>1. stack' = stack /\ UNCHANGED <<username, sock>> /\ acceptor'.c = acceptor.c
    BY <1>2 DEF RunReturns, AcceptFails, vars, asio, data, TypeOK, Acceptor
  <2>2. QED
    BY <2>1, GreetSame
<1>3. ASSUME NEW c \in Conns, AcceptCompletes(c) PROVE GreetInv'
  <2>1. /\ stack' = stack /\ UNCHANGED username /\ acceptor'.c = c /\ sock[c] = "none"
        /\ acceptor.op = "armed" /\ sock' = [sock EXCEPT ![c] = "open"]
    BY <1>3 DEF AcceptCompletes, data, TypeOK, Acceptor
  <2>2. Handler' = Handler /\ Handler.at \notin BeforeRead
    BY <2>1 DEF SessionInv, AcceptorInv, Handler, BeforeRead
  <2>3. \A d \in Conns : Fresh(d)' => Fresh(d)
    BY <2>1, <2>2 DEF Fresh, TypeOK
  <2>4. QED
    BY <2>1, <2>2, <2>3 DEF GreetInv, BeforeRead, Greeted
<1>4. ASSUME NEW c \in Conns, Completion(c) \/ Peers(c) PROVE GreetInv'
  <2>1. CASE AcceptCompletes(c)
    BY <1>3, <2>1
  <2>2. CASE ~AcceptCompletes(c)
    BY <1>4, <2>2, GreetSame DEF Completion, Peers, ReadCompletes, ReadSplits, ReadFails,
       PeerConnect, PeerRead, PeerLeave, PeerSend, asio, data
  <2>3. QED
    BY <2>1, <2>2
<1>5. QED
  BY <1>1, <1>2, <1>4, GreetAccepting, GreetReading DEF Next, IoStep, PlainPeers

LEMMA StopStep ==
  ASSUME PlainPeers, TypeOK, ShapeInv, SessionInv, PlainInv, NoDirectInv, GreetInv, StopInv,
         [Next]_vars
  PROVE  StopInv'
<1>1. CASE process # "up"
  <2>1. UNCHANGED vars
    BY <1>1, StoppedStays
  <2>2. QED
    BY <2>1 DEF vars, net, asio, data, StopInv, OnlyGreetingStops, WriteFails, Member
<1>2. CASE process = "up" /\ GreetThrows
  <2>1. stack[Io] # <<>> /\ Top(Io).at = "greet" /\ WriteFails(Top(Io).c)
    BY <1>2 DEF GreetThrows, At
  <2>2. Top(Io) = Handler /\ Handler.at = "greet"
    BY <2>1, OuterTop DEF Outer
  <2>3. PICK c \in Conns : c = Handler.c
    BY <2>2 DEF ShapeInv
  <2>4. stack[Io] = <<FrameAt("greet", "none", c, NoName)>> /\ sock[c] = "open" /\ username[c] = NoName
    BY <2>2, <2>3 DEF GreetInv, Fresh, BeforeRead, Greeted
  <2>5. Member(c)
    BY <2>2, <2>3, <2>4 DEF SessionInv, Session, Admitting
  <2>6. UNCHANGED <<sock, peer, stack, m_clients, username>> /\ process' = "failed"
    BY <1>2 DEF GreetThrows, net, asio, data
  <2>7. WriteFails(c)' /\ Member(c)'
    BY <2>1, <2>2, <2>3, <2>5, <2>6 DEF WriteFails, Member
  <2>8. QED
    BY <2>3, <2>4, <2>6, <2>7 DEF StopInv, OnlyGreetingStops
<1>3. CASE process = "up" /\ ~GreetThrows
  <2>1. ~SendNotFound
    <3>1. Io \in Threads
      BY IoIsThread
    <3>2. QED
      BY <3>1, TopPlace DEF SendNotFound, At, NoDirectInv, DirectAt
  <2>2. \A c \in Conns : ~OnUnparsable(c) /\ ~OnOddMessage(c)
    BY DEF OnUnparsable, OnOddMessage, ReadDone, PlainInv, PlainKinds
  <2>3. process' \in {"up", "done"}
    BY <1>3, <2>1, <2>2 DEF Next, IoStep, Accepting, Start, OnAccept, OnAcceptError,
       RejectClient, AdmitClient, PushClient, GreetClient, Direct, StartDirect,
       SendDirect, Rearm, RunReturns, Broadcasting, StartBroadcast, SkipExcluded,
       SendLine, SendLineFails, EndBroadcast, RemoveClient, EraseClient, Reading,
       OnReadError, OnBlank, OnFirstText, OnText, OnDirectMessage, Handle, CallerStep,
       CallBroadcast, CallShutdown, Shutdown, Completion, AcceptCompletes, ReadCompletes,
       ReadSplits, ReadFails, Peers, PeerConnect, PeerSend, PeerRead, PeerLeave,
       AcceptFails, vars
  <2>4. QED
    BY <2>3 DEF StopInv, OnlyGreetingStops
<1>4. QED
  BY <1>1, <1>2, <1>3

LEMMA StopInit == Init => PlainInv /\ NoDirectInv /\ GreetInv /\ StopInv
<1> SUFFICES ASSUME Init PROVE PlainInv /\ NoDirectInv /\ GreetInv /\ StopInv
  OBVIOUS
<1> DEFINE f == FrameAt("start", "none", NoConn, NoName)
<1>1. stack[Io] = <<f>>
  BY IoIsThread DEF Init
<1>2. f.at = "start" /\ f.c = NoConn /\ f = FrameAt(f.at, "none", f.c, NoName)
  BY DEF FrameAt
<1> HIDE DEF f
<1>3. Handler = f
  BY <1>1 DEF Handler, Bottom
<1>4. NoDirectInv
  BY <1>1, <1>2 DEF NoDirectInv, Places, DirectAt
<1>5. GreetInv
  BY <1>1, <1>2, <1>3 DEF Init, GreetInv, BeforeRead, Greeted
<1>6. PlainInv /\ StopInv
  BY PlainKind DEF Init, PlainInv, StopInv, OnlyGreetingStops
<1>7. QED
  BY <1>4, <1>5, <1>6

\* The server survives peers that leave or reset at any time and any number of
\* connections, but for the place between push_back and the first read of a
\* session, where remote_endpoint() throws; provided that ordinary texts
\* arrive whole and one at a time.
THEOREM GreetingStopsCorrect ==
  ASSUME PlainPeers
  PROVE  Spec => []OnlyGreetingStops
<1> DEFINE Inv == /\ TypeOK /\ ScopeInv /\ ShapeInv /\ SessionInv
                  /\ PlainInv /\ NoDirectInv /\ GreetInv /\ StopInv
<1>1. Init => Inv
  BY TypeInit, ScopeInit, ShapeInit, SessionInit, StopInit
<1>2. Inv /\ [Next]_vars => Inv'
  BY TypeStep, ScopeStep, ShapeStep, SessionStep, PlainStep, NoDirectStep, GreetStep, StopStep
<1>3. Inv => OnlyGreetingStops
  BY DEF StopInv
<1> HIDE DEF Inv
<1>4. QED
  BY <1>1, <1>2, <1>3, PTL DEF Spec

\* Without errors of the environment, an accept is outstanding unless the
\* handler of one is running, and nobody leaves.
CalmPeers == PlainPeers /\ MayLeave = {} /\ "accept" \notin Faults

CalmInv ==
  /\ process = "up"
  /\ acceptor.open /\ acceptor.op # "failed"
  /\ acceptor.op = "idle" => Handler.at \in BeforeRead
  /\ \A c \in Conns : peer[c] # "gone"

LEMMA CalmStep ==
  ASSUME CalmPeers, TypeOK, ShapeInv, SessionInv, PlainInv, NoDirectInv, GreetInv, CalmInv,
         [Next]_vars
  PROVE  CalmInv'
<1> USE DEF CalmPeers
<1>1. PlainPeers /\ StopInv /\ StopInv'
  BY StopStep DEF StopInv, OnlyGreetingStops, CalmInv
<1>2. \A c \in Conns : peer'[c] # "gone"
  <2>1. UNCHANGED peer \/ \E c \in Conns : PeerConnect(c)
    BY <1>1 DEF PlainPeers, Next, IoStep, Accepting, Start, OnAccept, OnAcceptError,
       RejectClient, AdmitClient, PushClient, GreetClient, GreetThrows, Direct, StartDirect,
       SendDirect, SendNotFound, Rearm, RunReturns, Broadcasting, StartBroadcast,
       SkipExcluded, SendLine, SendLineFails, EndBroadcast, RemoveClient, EraseClient,
       Reading, OnReadError, OnBlank, OnUnparsable, OnOddMessage, OnFirstText, OnText,
       OnDirectMessage, Handle, Completion, AcceptCompletes, ReadCompletes,
       ReadSplits, ReadFails, Peers, PeerSend, PeerRead, PeerLeave, AcceptFails, vars, net
  <2>2. QED
    BY <2>1 DEF CalmInv, PeerConnect, TypeOK
<1>3. ~GreetThrows
  <2>1. SUFFICES ASSUME GreetThrows PROVE FALSE
    OBVIOUS
  <2>2. stack[Io] # <<>> /\ Top(Io).at = "greet" /\ WriteFails(Top(Io).c)
    BY <2>1 DEF GreetThrows, At
  <2>3. Top(Io) = Handler /\ Handler.at = "greet"
    BY <2>2, OuterTop DEF Outer
  <2>4. Handler.c \in Conns /\ sock[Handler.c] = "open"
    BY <2>3 DEF ShapeInv, GreetInv, Greeted
  <2>5. QED
    BY <2>2, <2>3, <2>4 DEF WriteFails, CalmInv
<1>4. ~RunReturns
  BY IdleHandler, NoHandlerIs DEF RunReturns, CalmInv, BeforeRead
<1>5. ~SendNotFound
  BY IoIsThread, TopPlace DEF SendNotFound, At, NoDirectInv, DirectAt
<1>6. \A c \in Conns : ~OnUnparsable(c) /\ ~OnOddMessage(c)
  BY DEF OnUnparsable, OnOddMessage, ReadDone, PlainInv, PlainKinds
<1>7. process' = "up"
  BY <1>1, <1>3, <1>4, <1>5, <1>6 DEF CalmInv, PlainPeers, Next, IoStep, Accepting, Start,
     OnAccept, OnAcceptError, RejectClient, AdmitClient, PushClient, GreetClient, Direct,
     StartDirect, SendDirect, Rearm, Broadcasting, StartBroadcast, SkipExcluded,
     SendLine, SendLineFails, EndBroadcast, RemoveClient, EraseClient, Reading,
     OnReadError, OnBlank, OnFirstText, OnText, OnDirectMessage, Handle,
     Completion, AcceptCompletes, ReadCompletes,
     ReadSplits, ReadFails, Peers, PeerConnect, PeerSend, PeerRead, PeerLeave,
     AcceptFails, vars
<1> DEFINE Accepts == /\ acceptor'.open /\ acceptor'.op # "failed"
                      /\ acceptor'.op = "idle" => Handler'.at \in BeforeRead
<1>8. ASSUME AcceptConnections PROVE Accepts
  BY <1>8 DEF AcceptConnections, CalmInv, TypeOK, Acceptor
<1>9. ASSUME UNCHANGED acceptor, Handler'.at \in BeforeRead \/ Handler.at \notin BeforeRead
      PROVE  Accepts
  BY <1>9 DEF CalmInv
<1>10. ASSUME Accepting PROVE Accepts
  <2>1. CASE OnAcceptError
    BY <2>1 DEF OnAcceptError, CalmInv
  <2>2. CASE OnAccept
    <3>1. Handler'.at = "admit"
      BY <2>2, HandlerPush DEF OnAccept, IoIdle, FrameAt
    <3>2. QED
      BY <2>2, <3>1 DEF OnAccept, CalmInv, TypeOK, Acceptor, BeforeRead
  <2>3. ASSUME NEW at \in {"push", "greet"}, stack[Io] # <<>>, Top(Io).at \in Outer,
               Goto(Io, [Top(Io) EXCEPT !.at = at]), UNCHANGED acceptor
        PROVE  Accepts
    <3>1. Handler'.at = at
      <4>1. [Top(Io) EXCEPT !.at = at].at = at
        BY <2>3, MoveFacts, IoIsThread
      <4>2. Handler' = [Top(Io) EXCEPT !.at = at]
        BY <2>3, OuterTop, HandlerGoto
      <4>3. QED
        BY <4>1, <4>2
    <3>2. QED
      BY <1>9, <2>3, <3>1 DEF BeforeRead
  <2>4. CASE AdmitClient \/ PushClient
    BY <2>3, <2>4 DEF AdmitClient, PushClient, At, asio, Outer
  <2>5. QED
    BY <1>3, <1>8, <1>10, <2>1, <2>2, <2>4 DEF Accepting, Start, RejectClient, GreetClient
<1>11. ASSUME Direct \/ Rearm \/ Broadcasting(Io) PROVE Accepts
  <2>1. stack[Io] # <<>> /\ Top(Io).at \notin BeforeRead /\ UNCHANGED acceptor
    BY <1>11 DEF Direct, StartDirect, SendDirect, SendNotFound, Rearm, Broadcasting,
       StartBroadcast, SkipExcluded, SendLine, SendLineFails, EndBroadcast, RemoveClient,
       EraseClient, Sending, At, BeforeRead, asio
  <2>2. QED
    BY <1>1, <1>9, <2>1, LaterStep
<1>12. ASSUME NEW c \in Conns, Reading(c) PROVE Accepts
  <2>1. IoIdle /\ UNCHANGED acceptor
    BY <1>12 DEF Reading, OnReadError, OnBlank, OnUnparsable, OnOddMessage,
       OnFirstText, OnText, OnDirectMessage, ReadDone, Handle, asio
  <2>2. Handler.at \notin BeforeRead
    BY <2>1, IdleHandler DEF BeforeRead
  <2>3. QED
    BY <1>9, <2>1, <2>2
<1>13. ASSUME NEW c \in Conns, Completion(c) \/ Peers(c) PROVE Accepts
  <2>1. Handler' = Handler /\ (AcceptCompletes(c) \/ UNCHANGED acceptor)
    BY <1>13 DEF Completion, Peers, AcceptCompletes, ReadCompletes, ReadSplits, ReadFails,
       PeerConnect, PeerRead, PeerLeave, PeerSend, asio, Handler
  <2>2. CASE AcceptCompletes(c)
    BY <2>2 DEF AcceptCompletes, CalmInv, TypeOK, Acceptor
  <2>3. QED
    BY <1>9, <2>1, <2>2
<1>14. ASSUME AcceptFails \/ UNCHANGED vars PROVE Accepts
  BY <1>9, <1>14 DEF AcceptFails, vars, asio, Handler
<1>15. Accepts
  BY <1>1, <1>4, <1>10, <1>11, <1>12, <1>13, <1>14 DEF Next, IoStep, PlainPeers
<1>16. QED
  BY <1>2, <1>7, <1>15 DEF CalmInv

\* While peers neither leave nor have two messages under way, no message, no
\* rejection and no number of connections stops the server.
THEOREM KeepsRunningCorrect ==
  ASSUME CalmPeers
  PROVE  Spec => []KeepsRunning
<1> DEFINE Inv == /\ TypeOK /\ ScopeInv /\ ShapeInv /\ SessionInv
                  /\ PlainInv /\ NoDirectInv /\ GreetInv /\ CalmInv
<1>1. Init => Inv
  <2>1. Init => CalmInv
    <3>1. FrameAt("start", "none", NoConn, NoName).at \in BeforeRead
      BY DEF FrameAt, BeforeRead
    <3>2. QED
      BY <3>1, IoIsThread DEF Init, CalmInv, Handler, Bottom
  <2>2. QED
    BY <2>1, TypeInit, ScopeInit, ShapeInit, SessionInit, StopInit
<1>2. Inv /\ [Next]_vars => Inv'
  BY TypeStep, ScopeStep, ShapeStep, SessionStep, PlainStep, NoDirectStep, GreetStep, CalmStep
     DEF CalmPeers
<1>3. Inv => KeepsRunning
  BY DEF CalmInv, KeepsRunning
<1> HIDE DEF Inv
<1>4. QED
  BY <1>1, <1>2, <1>3, PTL DEF Spec

=============================================================================
