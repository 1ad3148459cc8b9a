--------------------------- MODULE ChatServerLines ---------------------------
(***************************************************************************)
(* The lines of ChatServer, proved for every value of its constants: each  *)
(* reaches its audience and nobody else, all clients see them in one       *)
(* order, and the iterators held while one is being sent stay valid.       *)
(***************************************************************************)
EXTENDS ChatServerSessions

(***************************************************************************)
(* The records inside a lock_guard scope; ScopeInv says that there is at   *)
(* most one.  It belongs to the last line of log, which is being sent.     *)
(***************************************************************************)
OpenLines == UNION {{f \in Range(stack[t]) : f.at \in LockedAt} : t \in Threads}

\* Those of them that are not the innermost record of t.
OpenElse(t) ==
  {f \in OpenLines :
     \E u \in Threads : \E i \in DOMAIN stack[u] :
       stack[u][i] = f /\ (u = t => i # Len(stack[t]))}

Got(c, k) == k \in Range(inbox[c])

Broadcasted(f) ==
  /\ f.kind \notin {"dm", "nouser"}
  /\ log[f.id].to = Range(m_clients)
  /\ f.next \in 1..(Len(m_clients) + 1)
  /\ \A i \in DOMAIN m_clients :
       /\ i < f.next => \/ m_clients[i] \in failed
                        \/ m_clients[i] \notin Audience(f.id)
                        \/ Got(m_clients[i], f.id)
       /\ i >= f.next => ~Got(m_clients[i], f.id)

Whom(f) == IF f.at = "dmsend" THEN m_clients[f.next] ELSE f.c

Directed(f) ==
  /\ f.kind = (IF f.at = "dmsend" THEN "dm" ELSE "nouser")
  /\ f.at = "dmsend" => f.next \in DOMAIN m_clients /\ username[m_clients[f.next]] = f.name
  /\ log[f.id].to = {Whom(f)}
  /\ process = "up" => ~Got(Whom(f), f.id)

LineOf(f) ==
  /\ f.id = Len(log) /\ f.id \in DOMAIN log
  /\ log[f.id].kind = f.kind /\ log[f.id].by = f.c
  /\ IF f.at = "sending" THEN Broadcasted(f) ELSE Directed(f)

\* Lines reach only their audience, and those no longer being sent all of it.
Reached(k) ==
  /\ \A c \in Conns : Got(c, k) => c \in Audience(k)
  /\ \/ log[k].kind \in {"dm", "nouser"}
     \/ Delivered(k)
     \/ k = Len(log) /\ m_clientsMutex # Nobody

LineInv ==
  /\ \A f \in OpenLines : LineOf(f)
  /\ \A c \in Conns : Range(inbox[c]) \subseteq DOMAIN log
  /\ TotalOrder
  /\ \A k \in DOMAIN log : Reached(k)

\* What the activation records of a thread are about.
RecordInv ==
  \A t \in Threads : \A f \in Range(stack[t]) :
    /\ f.at \in {"bcast", "sending"} => f.kind \in {"joined", "chat", "left", "notice"}
    /\ f.at \in {"dm", "dmsend", "nouser"} => t = Io

-----------------------------------------------------------------------------
(* The records of a call stack after a step of its thread.                  *)

LEMMA StackFacts ==
  ASSUME TypeOK, NEW t \in Threads, stack[t] # <<>>
  PROVE  /\ stack[t] \in Seq(Frame) /\ Len(stack[t]) \in Nat /\ Len(stack[t]) >= 1
         /\ DOMAIN stack[t] = 1..Len(stack[t])
         /\ Top(t) = stack[t][Len(stack[t])]
BY FrontFacts, LenProperties, TopType DEF TypeOK

LEMMA GotoElements ==
  ASSUME TypeOK, NEW t \in Threads, stack[t] # <<>>, NEW f, Goto(t, f)
  PROVE  /\ OthersKeepStack(t)
         /\ Len(stack'[t]) = Len(stack[t]) /\ DOMAIN stack'[t] = 1..Len(stack[t])
         /\ stack'[t][Len(stack[t])] = f
         /\ \A i \in 1..(Len(stack[t]) - 1) : stack'[t][i] = stack[t][i]
<1> DEFINE n == Len(stack[t])
           r == ReplaceAt(stack[t], n, f)
<1>1. stack'[t] = r /\ OthersKeepStack(t)
  BY DEF TypeOK, Goto, OthersKeepStack
<1>2. n \in 1..n /\ n \in Nat /\ stack[t] \in Seq(Frame \cup {f}) /\ f \in Frame \cup {f}
  BY StackFacts, SeqMonotonic
<1>3. /\ r \in Seq(Frame \cup {f}) /\ Len(r) = n
      /\ \A i \in 1..n : r[i] = IF i = n THEN f ELSE stack[t][i]
  BY <1>2, ExceptSeq DEF ReplaceAt
<1> HIDE DEF r
<1>4. QED
  BY <1>1, <1>2, <1>3, LenProperties

LEMMA ReturnElements ==
  ASSUME TypeOK, NEW t \in Threads, stack[t] # <<>>, Return(t)
  PROVE  /\ OthersKeepStack(t)
         /\ Len(stack'[t]) = Len(stack[t]) - 1 /\ DOMAIN stack'[t] = 1..(Len(stack[t]) - 1)
         /\ \A i \in 1..(Len(stack[t]) - 1) : stack'[t][i] = stack[t][i]
<1>1. stack'[t] = Front(stack[t]) /\ OthersKeepStack(t) /\ stack[t] \in Seq(Frame)
  BY DEF TypeOK, Return, OthersKeepStack
<1>2. /\ Front(stack[t]) \in Seq(Frame) /\ Len(Front(stack[t])) = Len(stack[t]) - 1
      /\ \A i \in 1..(Len(stack[t]) - 1) : Front(stack[t])[i] = stack[t][i]
  BY <1>1, FrontFacts
<1>3. QED
  BY <1>1, <1>2, LenProperties

\* A call stack that was empty.
LEMMA PushElements ==
  ASSUME TypeOK, NEW t \in Threads, stack[t] = <<>>, NEW f, Push(t, f)
  PROVE  /\ OthersKeepStack(t)
         /\ DOMAIN stack'[t] = {1} /\ stack'[t][1] = f
<1>1. stack'[t] = Append(<<>>, f) /\ OthersKeepStack(t)
  BY DEF TypeOK, Push, OthersKeepStack
<1>2. QED
  BY <1>1

LEMMA HandleElements ==
  ASSUME TypeOK, NEW c, NEW f, Handle(c, f)
  PROVE  /\ OthersKeepStack(Io) /\ DOMAIN stack'[Io] = {1, 2}
         /\ stack'[Io][1] = FrameAt("rearm", "none", c, NoName) /\ stack'[Io][2] = f
<1>1. /\ stack'[Io] = <<FrameAt("rearm", "none", c, NoName), f>>
      /\ OthersKeepStack(Io)
  BY IoIsThread DEF TypeOK, Handle, OthersKeepStack
<1>2. QED
  BY <1>1

\* What such a step does to the n records of the stack, of which it leaves m.
StackMove(t, f, g, n, m) ==
  /\ n \in Nat /\ n >= 1 /\ m \in Nat
  /\ DOMAIN stack[t] = 1..n /\ DOMAIN stack'[t] = 1..m
  /\ Top(t) = stack[t][n]
  /\ \A i \in 1..(n - 1) : stack'[t][i] = stack[t][i]
  /\ \/ m = n - 1
     \/ m = n /\ stack'[t][n] = f /\ Continues(t, f)
     \/ m = n + 1 /\ stack'[t][n] = f /\ stack'[t][n + 1] = g /\ Calls(t, f, g)

LEMMA StackMoves ==
  ASSUME TypeOK, NEW t \in Threads, stack[t] # <<>>, NEW f, NEW g,
         \/ Return(t)
         \/ Goto(t, f) /\ Continues(t, f)
         \/ Call(t, f, g) /\ Calls(t, f, g)
  PROVE  OthersKeepStack(t) /\ \E n, m \in Nat : StackMove(t, f, g, n, m)
<1> DEFINE n == Len(stack[t])
<1>1. /\ n \in Nat /\ n >= 1 /\ DOMAIN stack[t] = 1..n
      /\ Top(t) = stack[t][n]
  BY StackFacts
<1>2. CASE Return(t)
  <2>1. StackMove(t, f, g, n, n - 1) /\ OthersKeepStack(t)
    BY <1>1, <1>2, ReturnElements DEF StackMove
  <2>2. n - 1 \in Nat
    BY <1>1
  <2>3. QED
    BY <1>1, <2>1, <2>2, Zenon
<1>3. CASE Goto(t, f) /\ Continues(t, f)
  <2>1. StackMove(t, f, g, n, n) /\ OthersKeepStack(t)
    BY <1>1, <1>3, GotoElements DEF StackMove
  <2>2. QED
    BY <1>1, <2>1, Zenon
<1>4. CASE Call(t, f, g) /\ Calls(t, f, g)
  <2>1. StackMove(t, f, g, n, n + 1) /\ OthersKeepStack(t)
    BY <1>1, <1>4, CallElements DEF StackMove
  <2>2. n + 1 \in Nat
    BY <1>1
  <2>3. QED
    BY <1>1, <2>1, <2>2, Zenon
<1>5. QED
  BY <1>2, <1>3, <1>4

LEMMA MovedRecords ==
  ASSUME NEW t, NEW f, NEW g, NEW n, NEW m, StackMove(t, f, g, n, m)
  PROVE  \A x \in Range(stack'[t]) :
           \/ x \in Range(stack[t])
           \/ x = f /\ (Continues(t, f) \/ Calls(t, f, g))
           \/ x = g /\ Calls(t, f, g)
<1> SUFFICES ASSUME NEW x \in Range(stack'[t])
             PROVE  \/ x \in Range(stack[t])
                    \/ x = f /\ (Continues(t, f) \/ Calls(t, f, g))
                    \/ x = g /\ Calls(t, f, g)
  OBVIOUS
<1>1. n \in Nat /\ n >= 1 /\ m \in Nat /\ DOMAIN stack[t] = 1..n /\ DOMAIN stack'[t] = 1..m
  BY DEF StackMove
<1>2. PICK i \in 1..m : stack'[t][i] = x
  BY <1>1 DEF Range
<1>3. CASE i \in 1..(n - 1)
  BY <1>1, <1>2, <1>3 DEF StackMove, Range
<1>4. CASE i \notin 1..(n - 1)
  BY <1>1, <1>2, <1>4 DEF StackMove
<1>5. QED
  BY <1>3, <1>4

LEMMA RecordInit == Init => RecordInv
<1> SUFFICES ASSUME Init PROVE RecordInv
  OBVIOUS
<1> DEFINE f == FrameAt("start", "none", NoConn, NoName)
<1>1. f.at = "start"
  BY DEF FrameAt
<1>2. \A t \in Threads : stack[t] = <<f>> \/ stack[t] = <<>>
  BY DEF Init
<1> HIDE DEF f
<1>3. \A t \in Threads : \A x \in Range(stack[t]) : x = f
  BY <1>2 DEF Range
<1>4. QED
  BY <1>1, <1>3 DEF RecordInv

LEMMA RecordStep == TypeOK /\ RecordInv /\ [Next]_vars => RecordInv'
<1>1. SUFFICES ASSUME TypeOK, RecordInv, StackStep PROVE RecordInv'
  BY StackSteps
<1>2. Io \in Threads /\ Io \notin Callers
  BY ConstantsAssumption DEF Threads
<1> DEFINE Right(t, x) ==
      /\ x.at \in {"bcast", "sending"} => x.kind \in {"joined", "chat", "left", "notice"}
      /\ x.at \in {"dm", "dmsend", "nouser"} => t = Io
<1>3. \A t \in Threads : \A x \in Range(stack[t]) : Right(t, x)
  BY <1>1 DEF RecordInv
<1>4. SUFFICES \A t \in Threads : \A x \in Range(stack'[t]) : Right(t, x)
  BY DEF RecordInv
<1>5. ASSUME NEW t \in Threads, OthersKeepStack(t), \A x \in Range(stack'[t]) : Right(t, x)
      PROVE  \A u \in Threads : \A x \in Range(stack'[u]) : Right(u, x)
  BY <1>3, <1>5 DEF OthersKeepStack
<1>6. CASE stack' = stack
  BY <1>3, <1>6
<1>7. CASE \E c \in Conns : \E f : stack[Io] = <<>> /\ Handle(c, f) /\ f.c = c /\ Answers(c, f)
  <2>1. PICK c \in Conns : \E f : Handle(c, f) /\ f.c = c /\ Answers(c, f)
    BY <1>7
  <2>2. PICK f : Handle(c, f) /\ f.c = c /\ Answers(c, f)
    BY <2>1
  <2> DEFINE r == FrameAt("rearm", "none", c, NoName)
  <2>3. r.at = "rearm"
    BY DEF FrameAt
  <2>4. OthersKeepStack(Io) /\ Range(stack'[Io]) = {r, f}
    BY <1>1, <2>2, HandleElements DEF Range
  <2> HIDE DEF r
  <2>5. Right(Io, r) /\ Right(Io, f)
    BY <2>2, <2>3 DEF Answers
  <2>6. QED
    BY <1>2, <1>5, <2>4, <2>5
<1>8. ASSUME NEW t \in Threads, NEW f, Begins(t, f)
      PROVE  \A u \in Threads : \A x \in Range(stack'[u]) : Right(u, x)
  <2>1. OthersKeepStack(t) /\ Range(stack'[t]) = {f}
    BY <1>1, <1>8, PushElements DEF Begins, Range
  <2>2. Right(t, f)
    BY <1>8 DEF Begins
  <2>3. QED
    BY <1>5, <2>1, <2>2
<1>9. ASSUME NEW t \in Threads, stack[t] # <<>>, NEW f, NEW g,
             \/ Return(t)
             \/ Goto(t, f) /\ Continues(t, f)
             \/ Call(t, f, g) /\ Calls(t, f, g)
      PROVE  \A u \in Threads : \A x \in Range(stack'[u]) : Right(u, x)
  <2>1. OthersKeepStack(t) /\ \E n, m \in Nat : StackMove(t, f, g, n, m)
    BY <1>1, <1>9, StackMoves
  <2>2. Right(t, Top(t))
    <3>1. Top(t) \in Range(stack[t])
      BY <1>1, <1>9, StackFacts DEF Range
    <3>2. QED
      BY <1>3, <3>1
  <2>3. Continues(t, f) => Right(t, f)
    BY <2>2 DEF Continues
  <2>4. Calls(t, f, g) => Right(t, f) /\ Right(t, g)
    BY <2>2 DEF Calls
  <2>5. \A x \in Range(stack'[t]) : Right(t, x)
    BY <1>3, <2>1, <2>3, <2>4, MovedRecords
  <2>6. QED
    BY <1>5, <2>1, <2>5
<1>10. QED
  BY <1>1, <1>6, <1>7, <1>8, <1>9 DEF StackStep

-----------------------------------------------------------------------------
(* What a step does to the records in scope.                                *)

LEMMA OpenNow ==
  ASSUME TypeOK, NEW t \in Threads, stack[t] # <<>>
  PROVE  OpenLines = OpenElse(t) \cup {f \in {Top(t)} : f.at \in LockedAt}
<1>1. /\ Len(stack[t]) \in DOMAIN stack[t]
      /\ Top(t) = stack[t][Len(stack[t])]
  BY StackFacts
<1>2. Top(t) \in Range(stack[t])
  BY <1>1 DEF Range
<1>3. ASSUME NEW f \in OpenLines, f # Top(t) PROVE f \in OpenElse(t)
  <2>1. PICK u \in Threads : f \in Range(stack[u])
    BY DEF OpenLines
  <2>2. PICK i \in DOMAIN stack[u] : stack[u][i] = f
    BY <2>1 DEF Range
  <2>3. QED
    BY <1>1, <1>3, <2>2 DEF OpenElse
<1>4. OpenElse(t) \subseteq OpenLines /\ \A f \in OpenLines : f.at \in LockedAt
  BY DEF OpenElse, OpenLines
<1>5. Top(t).at \in LockedAt => Top(t) \in OpenLines
  BY <1>2 DEF OpenLines
<1>6. QED
  BY <1>3, <1>4, <1>5

\* There is no other record in scope when the mutex is free, or when the
\* innermost record of t is in scope.
LEMMA OpenAlone ==
  ASSUME TypeOK, ScopeInv, NEW t \in Threads, stack[t] # <<>>,
         m_clientsMutex = Nobody \/ Top(t).at \in LockedAt
  PROVE  OpenElse(t) = {}
<1>1. SUFFICES ASSUME NEW f \in OpenLines, NEW u \in Threads, NEW i \in DOMAIN stack[u],
                      stack[u][i] = f, u = t => i # Len(stack[t])
               PROVE  FALSE
  BY DEF OpenElse
<1>2. f.at \in LockedAt
  BY DEF OpenLines
<1>3. i \in Scopes(u)
  BY <1>1, <1>2 DEF Scopes, Places
<1>4. m_clientsMutex = u
  BY <1>3 DEF ScopeInv
<1>5. Top(t).at \in LockedAt
  BY <1>4, ConstantsAssumption
<1>6. Len(stack[t]) \in Scopes(t)
  BY <1>5, TopPlace DEF Scopes
<1>7. QED
  BY <1>1, <1>3, <1>4, <1>6 DEF ScopeInv

LEMMA OpenFree ==
  ASSUME ScopeInv, m_clientsMutex = Nobody
  PROVE  OpenLines = {}
BY FreeMeansNoScope DEF OpenLines

LEMMA OpenTop ==
  ASSUME TypeOK, ScopeInv, NEW t \in Threads, stack[t] # <<>>, Top(t).at \in LockedAt
  PROVE  OpenLines = {Top(t)} /\ m_clientsMutex = t
<1>1. OpenLines = {Top(t)}
  BY OpenNow, OpenAlone
<1>2. Len(stack[t]) \in Scopes(t)
  BY TopPlace DEF Scopes
<1>3. QED
  BY <1>1, <1>2 DEF ScopeInv

\* The records that t leaves on its stack.
LEMMA OpenBelow ==
  ASSUME TypeOK, NEW t \in Threads, stack[t] # <<>>, OthersKeepStack(t),
         NEW m \in Nat, DOMAIN stack'[t] = 1..m, m >= Len(stack[t]) - 1,
         \A i \in 1..(Len(stack[t]) - 1) : stack'[t][i] = stack[t][i]
  PROVE  OpenLines' = OpenElse(t) \cup
           {f \in {stack'[t][i] : i \in Len(stack[t])..m} : f.at \in LockedAt}
<1> DEFINE n == Len(stack[t])
           New == {f \in {stack'[t][i] : i \in n..m} : f.at \in LockedAt}
<1>1. n \in Nat /\ n >= 1 /\ DOMAIN stack[t] = 1..n
  BY StackFacts
<1>2. \A f : f \in OpenLines' <=>
        f.at \in LockedAt /\ \E u \in Threads : \E i \in DOMAIN stack'[u] : stack'[u][i] = f
  BY DEF OpenLines, Range
<1>3. \A f : f \in OpenElse(t) <=>
        f.at \in LockedAt /\ \E u \in Threads : \E i \in DOMAIN stack[u] :
                               stack[u][i] = f /\ (u = t => i # n)
  BY DEF OpenElse, OpenLines, Range
<1>4. ASSUME NEW f \in OpenLines' PROVE f \in OpenElse(t) \cup New
  <2>1. PICK u \in Threads : \E i \in DOMAIN stack'[u] : stack'[u][i] = f
    BY <1>2
  <2>2. PICK i \in DOMAIN stack'[u] : stack'[u][i] = f
    BY <2>1
  <2>3. f.at \in LockedAt
    BY <1>2
  <2>4. CASE u # t
    <3>1. i \in DOMAIN stack[u] /\ stack[u][i] = f
      BY <2>2, <2>4 DEF OthersKeepStack
    <3>2. QED
      BY <1>3, <2>3, <2>4, <3>1
  <2>5. CASE u = t /\ i < n
    <3>1. i \in DOMAIN stack[u] /\ stack[u][i] = f /\ i # n
      BY <1>1, <2>2, <2>5
    <3>2. QED
      BY <1>3, <2>3, <3>1
  <2>6. CASE u = t /\ i >= n
    <3>1. i \in n..m /\ stack'[t][i] = f
      BY <1>1, <2>2, <2>6
    <3>2. QED
      BY <2>3, <3>1
  <2>7. i \in Nat \/ u # t
    BY <2>2
  <2>8. QED
    BY <1>1, <2>4, <2>5, <2>6, <2>7
<1>5. ASSUME NEW f \in OpenElse(t) PROVE f \in OpenLines'
  <2>1. PICK u \in Threads : \E i \in DOMAIN stack[u] : stack[u][i] = f /\ (u = t => i # n)
    BY <1>3
  <2>2. PICK i \in DOMAIN stack[u] : stack[u][i] = f /\ (u = t => i # n)
    BY <2>1
  <2>3. i \in DOMAIN stack'[u] /\ stack'[u][i] = f
    <3>1. CASE u # t
      BY <2>2, <3>1 DEF OthersKeepStack
    <3>2. CASE u = t
      BY <1>1, <2>2, <3>2
    <3>3. QED
      BY <3>1, <3>2
  <2>4. QED
    BY <1>2, <1>3, <2>3
<1>6. ASSUME NEW f \in New PROVE f \in OpenLines'
  <2>1. PICK i \in n..m : stack'[t][i] = f /\ f.at \in LockedAt
    OBVIOUS
  <2>2. i \in DOMAIN stack'[t]
    BY <1>1
  <2>3. QED
    BY <1>2, <2>1, <2>2
<1>7. QED
  BY <1>4, <1>5, <1>6

LEMMA OpenGoto ==
  ASSUME TypeOK, NEW t \in Threads, stack[t] # <<>>, NEW f, Goto(t, f)
  PROVE  OpenLines' = OpenElse(t) \cup {x \in {f} : x.at \in LockedAt}
<1> DEFINE n == Len(stack[t])
<1>1. /\ OthersKeepStack(t) /\ n \in Nat /\ n >= n - 1
      /\ DOMAIN stack'[t] = 1..n /\ stack'[t][n] = f
      /\ \A i \in 1..(n - 1) : stack'[t][i] = stack[t][i]
  BY GotoElements, StackFacts
<1>2. {stack'[t][i] : i \in n..n} = {f}
  BY <1>1
<1> HIDE DEF n
<1>3. OpenLines' = OpenElse(t) \cup {x \in {stack'[t][i] : i \in n..n} : x.at \in LockedAt}
  BY <1>1, OpenBelow DEF n
<1>4. QED
  BY <1>2, <1>3

LEMMA OpenCall ==
  ASSUME TypeOK, NEW t \in Threads, stack[t] # <<>>, NEW f, NEW g, Call(t, f, g)
  PROVE  OpenLines' = OpenElse(t) \cup {x \in {f, g} : x.at \in LockedAt}
<1> DEFINE n == Len(stack[t])
<1>1. /\ OthersKeepStack(t) /\ n \in Nat /\ n + 1 \in Nat /\ n + 1 >= n - 1
      /\ DOMAIN stack'[t] = 1..(n + 1) /\ stack'[t][n] = f /\ stack'[t][n + 1] = g
      /\ \A i \in 1..(n - 1) : stack'[t][i] = stack[t][i]
  BY CallElements, StackFacts
<1>2. {stack'[t][i] : i \in n..(n + 1)} = {f, g}
  BY <1>1
<1> HIDE DEF n
<1>3. OpenLines' = OpenElse(t) \cup {x \in {stack'[t][i] : i \in n..(n + 1)} : x.at \in LockedAt}
  BY <1>1, OpenBelow DEF n
<1>4. QED
  BY <1>2, <1>3

LEMMA OpenReturn ==
  ASSUME TypeOK, NEW t \in Threads, stack[t] # <<>>, Return(t)
  PROVE  OpenLines' = OpenElse(t)
<1> DEFINE n == Len(stack[t])
<1>1. /\ OthersKeepStack(t) /\ n \in Nat /\ n - 1 \in Nat /\ n - 1 >= n - 1
      /\ DOMAIN stack'[t] = 1..(n - 1)
      /\ \A i \in 1..(n - 1) : stack'[t][i] = stack[t][i]
  BY ReturnElements, StackFacts
<1>2. {stack'[t][i] : i \in n..(n - 1)} = {}
  BY <1>1
<1> HIDE DEF n
<1>3. OpenLines' = OpenElse(t) \cup {x \in {stack'[t][i] : i \in n..(n - 1)} : x.at \in LockedAt}
  BY <1>1, OpenBelow DEF n
<1>4. QED
  BY <1>2, <1>3

\* A call stack that was empty, and has no record in scope afterwards.
LEMMA OpenBegin ==
  ASSUME NEW t \in Threads, stack[t] = <<>>, OthersKeepStack(t),
         \A x \in Range(stack'[t]) : x.at \notin LockedAt
  PROVE  OpenLines' = OpenLines
<1> DEFINE In(u) == {f \in Range(stack[u]) : f.at \in LockedAt}
<1>1. \A u \in Threads : In(u)' = In(u)
  <2>1. In(t) = {} /\ In(t)' = {}
    BY DEF Range
  <2>2. \A u \in Threads : u # t => In(u)' = In(u)
    BY DEF OthersKeepStack
  <2>3. QED
    BY <2>1, <2>2
<1>2. QED
  BY <1>1 DEF OpenLines

\* The places at which an activation enters a scope, or is inside one.
Talking == {"bcast", "sending", "dm", "dmsend", "nouser"}

\* What a thread does elsewhere leaves the records in scope alone.
LEMMA OpenKept ==
  ASSUME TypeOK, StackStep,
         \A t \in Threads : stack'[t] # stack[t] => stack[t] = <<>> \/ Top(t).at \notin Talking
  PROVE  OpenLines' = OpenLines
<1>1. Io \in Threads /\ Callers \subseteq Threads
  BY DEF Threads
<1>2. CASE stack' = stack
  BY <1>2 DEF OpenLines
<1>3. CASE \E c \in Conns : \E f : stack[Io] = <<>> /\ Handle(c, f) /\ f.c = c /\ Answers(c, f)
  <2>1. PICK c \in Conns : \E f : stack[Io] = <<>> /\ Handle(c, f) /\ f.c = c /\ Answers(c, f)
    BY <1>3
  <2>2. PICK f : stack[Io] = <<>> /\ Handle(c, f) /\ f.c = c /\ Answers(c, f)
    BY <2>1
  <2> DEFINE r == FrameAt("rearm", "none", c, NoName)
  <2>3. r.at = "rearm"
    BY DEF FrameAt
  <2>4. OthersKeepStack(Io) /\ Range(stack'[Io]) = {r, f}
    BY <2>2, HandleElements DEF Range
  <2> HIDE DEF r
  <2>5. \A x \in Range(stack'[Io]) : x.at \notin LockedAt
    BY <2>2, <2>3, <2>4 DEF Answers, LockedAt
  <2>6. QED
    BY <1>1, <2>2, <2>4, <2>5, OpenBegin
<1>4. ASSUME NEW t \in Threads, NEW f, Begins(t, f) PROVE OpenLines' = OpenLines
  <2>1. stack[t] = <<>> /\ OthersKeepStack(t) /\ Range(stack'[t]) = {f}
    BY <1>4, PushElements DEF Begins, Range
  <2>2. f.at \notin LockedAt
    BY <1>4 DEF Begins, LockedAt
  <2>3. QED
    BY <2>1, <2>2, OpenBegin
<1>5. ASSUME NEW t \in Threads, stack[t] # <<>>, stack'[t] = stack[t], OthersKeepStack(t)
      PROVE  OpenLines' = OpenLines
  <2>1. \A u \in Threads : stack'[u] = stack[u]
    BY <1>5 DEF OthersKeepStack
  <2>2. QED
    BY <2>1 DEF OpenLines
<1>6. ASSUME NEW t \in Threads, stack[t] # <<>>, Top(t).at \notin Talking
      PROVE  OpenLines = OpenElse(t)
  BY <1>6, OpenNow DEF Talking, LockedAt
<1>7. ASSUME NEW t \in Threads, stack[t] # <<>>, Return(t) PROVE OpenLines' = OpenLines
  <2>1. stack'[t] # stack[t]
    BY <1>7, ReturnElements, StackFacts
  <2>2. QED
    BY <1>6, <1>7, <2>1, OpenReturn
<1>8. ASSUME NEW t \in Threads, stack[t] # <<>>, NEW f, Goto(t, f), Continues(t, f)
      PROVE  OpenLines' = OpenLines
  <2>1. CASE stack'[t] = stack[t]
    BY <1>5, <1>8, <2>1, GotoElements
  <2>2. CASE Top(t).at \notin Talking
    <3>1. f.at \notin LockedAt
      BY <1>8, <2>2 DEF Continues, Talking, LockedAt
    <3>2. OpenLines' = OpenElse(t) \cup {x \in {f} : x.at \in LockedAt}
      BY <1>8, OpenGoto
    <3>3. QED
      BY <1>6, <1>8, <2>2, <3>1, <3>2
  <2>3. QED
    BY <1>1, <1>8, <2>1, <2>2
<1>9. ASSUME NEW t \in Threads, stack[t] # <<>>, NEW f, NEW g, Call(t, f, g), Calls(t, f, g)
      PROVE  OpenLines' = OpenLines
  <2>1. CASE stack'[t] = stack[t]
    BY <1>5, <1>9, <2>1, CallElements
  <2>2. CASE Top(t).at \notin Talking
    <3>1. f.at \notin LockedAt /\ g.at \notin LockedAt
      BY <1>9, <2>2 DEF Calls, Talking, LockedAt
    <3>2. OpenLines' = OpenElse(t) \cup {x \in {f, g} : x.at \in LockedAt}
      BY <1>9, OpenCall
    <3>3. QED
      BY <1>6, <1>9, <2>2, <3>1, <3>2
  <2>3. QED
    BY <1>9, <2>1, <2>2
<1>10. QED
  BY <1>2, <1>3, <1>4, <1>7, <1>8, <1>9 DEF StackStep

-----------------------------------------------------------------------------
(* What a step does to the lines.                                           *)

\* A step that is not about lines.  m_clients may change while no line is being
\* sent, and a username while no direct message is.
LEMMA LinesKept ==
  ASSUME LineInv, OpenLines' = OpenLines, UNCHANGED <<log, inbox, failed, m_clientsMutex>>,
         m_clients' = m_clients \/ OpenLines = {},
         username' = username \/ \A f \in OpenLines : f.at # "dmsend",
         process' = "up" => process = "up"
  PROVE  LineInv'
<1>1. ASSUME NEW f \in OpenLines PROVE LineOf(f)'
  <2>1. m_clients' = m_clients /\ LineOf(f)
    BY <1>1 DEF LineInv
  <2>2. Broadcasted(f) => Broadcasted(f)'
    BY <2>1 DEF Broadcasted, Audience, Got
  <2>3. f.at = "dmsend" => username' = username
    BY <1>1
  <2>4. Directed(f) => Directed(f)'
    BY <2>1, <2>3 DEF Directed, Whom, Got
  <2>5. QED
    BY <2>1, <2>2, <2>4 DEF LineOf
<1>2. \A k \in DOMAIN log : Reached(k) => Reached(k)'
  BY DEF Reached, Audience, Delivered, Got
<1>3. TotalOrder => TotalOrder'
  BY DEF TotalOrder
<1>4. QED
  BY <1>1, <1>2, <1>3 DEF LineInv

\* A new line, while none is being sent.
LEMMA NewLine ==
  ASSUME TypeOK, LineInv, m_clientsMutex = Nobody, m_clientsMutex' # Nobody,
         UNCHANGED inbox, NEW l \in Line, log' = Append(log, l),
         NEW k, k = Len(log) + 1
  PROVE  /\ k = Len(log') /\ k \in DOMAIN log' /\ log'[k] = l
         /\ \A c \in Conns : k \notin Range(inbox'[c])
         /\ \A c \in Conns : (Range(inbox[c]) \subseteq DOMAIN log)'
         /\ TotalOrder'
         /\ \A j \in DOMAIN log' : Reached(j)'
<1>1. /\ log \in Seq(Line) /\ Len(log) \in Nat /\ DOMAIN log = 1..Len(log)
      /\ Len(log') = k /\ DOMAIN log' = 1..k /\ log'[k] = l /\ k \in Nat \ {0}
      /\ \A j \in 1..Len(log) : log'[j] = log[j]
  BY AppendProperties, LenProperties DEF TypeOK
<1>2. \A c \in Conns : Range(inbox[c]) \subseteq DOMAIN log /\ k \notin Range(inbox[c])
  BY <1>1 DEF LineInv
<1>3. ASSUME NEW j \in DOMAIN log', j # k PROVE Reached(j)'
  <2>0. j \in 1..Len(log)
    BY <1>1, <1>3
  <2>1. Audience(j)' = Audience(j) /\ log'[j] = log[j]
    BY <1>1, <2>0 DEF Audience
  <2>2. Reached(j)
    BY <1>1, <2>0 DEF LineInv
  <2>3. log[j].kind \in {"dm", "nouser"} \/ Delivered(j)'
    BY <2>1, <2>2 DEF Reached, Delivered
  <2>4. \A c \in Conns : Got(c, j)' => c \in Audience(j)'
    BY <2>1, <2>2 DEF Reached, Got
  <2>5. QED
    BY <2>1, <2>3, <2>4 DEF Reached
<1>4. \A c \in Conns : k \notin Range(inbox'[c])
  BY <1>2
<1>5. ASSUME NEW j \in DOMAIN log', j = k PROVE Reached(j)'
  BY <1>1, <1>4, <1>5 DEF Reached, Got
<1>6. TotalOrder'
  BY DEF LineInv, TotalOrder
<1>7. \A j \in DOMAIN log' : Reached(j)'
  BY <1>3, <1>5, Zenon
<1>8. \A c \in Conns : (Range(inbox[c]) \subseteq DOMAIN log)'
  <2>1. DOMAIN log \subseteq DOMAIN log'
    BY <1>1
  <2>2. QED
    BY <1>2, <2>1
<1>9. QED
  BY <1>1, <1>4, <1>6, <1>7, <1>8

LEMMA LineStartBroadcast ==
  ASSUME TypeOK, ScopeInv, RecordInv, LineInv, NEW t \in Threads, StartBroadcast(t)
  PROVE  LineInv'
<1> PICK f : f = Top(t)
  OBVIOUS
<1> PICK k : k = Len(log) + 1
  OBVIOUS
<1> PICK g : g = [f EXCEPT !.at = "sending", !.id = k, !.next = 1]
  OBVIOUS
<1> PICK l : l = [kind |-> f.kind, by |-> f.c, who |-> f.name, to |-> Range(m_clients)]
  OBVIOUS
<1>1. /\ stack[t] # <<>> /\ f.at = "bcast" /\ m_clientsMutex = Nobody /\ m_clientsMutex' = t
      /\ log' = Append(log, l) /\ Goto(t, g)
      /\ UNCHANGED <<inbox, m_clients, failed>>
  BY DEF StartBroadcast, At, Lock, CanLock, data
<1>2. f \in Frame /\ f \in Range(stack[t]) /\ m_clients \in Seq(Conns) /\ Nobody \notin Threads
  <2>1. stack \in [Threads -> Seq(Frame)] /\ m_clients \in Seq(Conns)
    BY DEF TypeOK
  <2>2. f \in Frame
    BY <1>1, <2>1, TopType
  <2>3. Len(stack[t]) \in DOMAIN stack[t] /\ f = stack[t][Len(stack[t])]
    BY <1>1, StackFacts
  <2>4. f \in Range(stack[t])
    BY <2>3 DEF Range
  <2>5. QED
    BY <2>1, <2>2, <2>4, ConstantsAssumption
<1>3. f.kind \in {"joined", "chat", "left", "notice"}
  BY <1>1, <1>2 DEF RecordInv
<1>4. g.at = "sending" /\ g.id = k /\ g.next = 1 /\ g.kind = f.kind /\ g.c = f.c
  BY <1>2 DEF Frame
<1>5. l \in Line /\ l.kind = f.kind /\ l.by = f.c /\ l.to = Range(m_clients)
  BY <1>2, <1>3 DEF Frame, Line, LineKinds, Range
<1>6. /\ k = Len(log') /\ k \in DOMAIN log' /\ log'[k] = l
      /\ \A c \in Conns : k \notin Range(inbox'[c])
      /\ \A c \in Conns : (Range(inbox[c]) \subseteq DOMAIN log)'
      /\ TotalOrder'
      /\ \A j \in DOMAIN log' : Reached(j)'
  BY <1>1, <1>2, <1>5, NewLine
<1>7. OpenLines' = {g}
  <2>1. OpenElse(t) = {}
    BY <1>1, OpenAlone
  <2>2. OpenLines' = OpenElse(t) \cup {x \in {g} : x.at \in LockedAt}
    BY <1>1, OpenGoto
  <2>3. QED
    BY <1>4, <2>1, <2>2 DEF LockedAt
<1>8. Broadcasted(g)'
  <2>1. /\ DOMAIN m_clients = 1..Len(m_clients) /\ Len(m_clients) \in Nat
        /\ \A i \in DOMAIN m_clients : m_clients[i] \in Conns
    BY <1>2, LenProperties
  <2>2. 1 \in 1..(Len(m_clients) + 1)
    BY <2>1
  <2>3. \A i \in DOMAIN m_clients : i >= 1 /\ k \notin Range(inbox'[m_clients[i]])
    BY <1>6, <2>1
  <2>4. \A i \in DOMAIN m_clients : ~(i < 1)
    BY <2>1
  <2>5. QED
    BY <1>1, <1>3, <1>4, <1>5, <1>6, <2>2, <2>3, <2>4 DEF Broadcasted, Got
<1>9. LineOf(g)'
  BY <1>4, <1>5, <1>6, <1>8 DEF LineOf
<1>10. QED
  BY <1>6, <1>7, <1>9 DEF LineInv

LEMMA LineStartDirect ==
  ASSUME TypeOK, ScopeInv, LineInv, StartDirect
  PROVE  LineInv'
<1> PICK f : f = Top(Io)
  OBVIOUS
<1> PICK it : it = FindClient(f.name)
  OBVIOUS
<1> PICK k : k = Len(log) + 1
  OBVIOUS
<1> PICK whom : whom = IF it = 0 THEN f.c ELSE m_clients[it]
  OBVIOUS
<1> DEFINE kind == IF it = 0 THEN "nouser" ELSE "dm"
<1> PICK g : g = [f EXCEPT !.at = IF it = 0 THEN "nouser" ELSE "dmsend",
                           !.kind = kind, !.id = k, !.next = it]
  OBVIOUS
<1> PICK l : l = [kind |-> kind, by |-> f.c, who |-> username[f.c], to |-> {whom}]
  OBVIOUS
<1>1. /\ stack[Io] # <<>> /\ f.at = "dm" /\ m_clientsMutex = Nobody /\ m_clientsMutex' = Io
      /\ log' = Append(log, l) /\ Goto(Io, g)
      /\ UNCHANGED <<inbox, m_clients, username>>
  BY DEF StartDirect, At, Lock, CanLock, data
<1>2. f \in Frame /\ m_clients \in Seq(Conns) /\ Nobody \notin Threads /\ Io \in Threads
  BY <1>1, IoIsThread, TopType, ConstantsAssumption DEF TypeOK
<1>3. f.c \in Conns
  BY <1>1, <1>2, FrameConn
<1>4. it = 0 \/ (it \in DOMAIN m_clients /\ username[m_clients[it]] = f.name)
  BY <1>2, FindClientFacts, LenProperties
<1>5. whom \in Conns
  BY <1>2, <1>3, <1>4
<1>6. /\ g.at = (IF it = 0 THEN "nouser" ELSE "dmsend") /\ g.kind = kind
      /\ g.id = k /\ g.next = it /\ g.c = f.c /\ g.name = f.name
  BY <1>2 DEF Frame
<1>7. l \in Line /\ l.kind = kind /\ l.by = f.c /\ l.to = {whom}
  BY <1>2, <1>3, <1>5 DEF Line, LineKinds, TypeOK
<1>8. /\ k = Len(log') /\ k \in DOMAIN log' /\ log'[k] = l
      /\ \A c \in Conns : k \notin Range(inbox'[c])
      /\ \A c \in Conns : (Range(inbox[c]) \subseteq DOMAIN log)'
      /\ TotalOrder'
      /\ \A j \in DOMAIN log' : Reached(j)'
  BY <1>1, <1>2, <1>7, NewLine
<1>9. OpenLines' = {g}
  <2>1. OpenElse(Io) = {}
    BY <1>1, <1>2, OpenAlone
  <2>2. OpenLines' = OpenElse(Io) \cup {x \in {g} : x.at \in LockedAt}
    BY <1>1, <1>2, OpenGoto
  <2>3. QED
    BY <1>6, <2>1, <2>2 DEF LockedAt
<1>10. Whom(g)' = whom
  BY <1>1, <1>6 DEF Whom
<1>11. Directed(g)'
  BY <1>1, <1>4, <1>5, <1>6, <1>7, <1>8, <1>10 DEF Directed, Got
<1>12. LineOf(g)'
  BY <1>6, <1>7, <1>8, <1>11 DEF LineOf
<1>13. QED
  BY <1>8, <1>9, <1>12 DEF LineInv

\* One session is written the last line.
LEMMA LineWritten ==
  ASSUME TypeOK, LineInv, NEW c \in Conns, NEW k, k = Len(log), k \in DOMAIN log,
         c \in Audience(k), k \notin Range(inbox[c]), Deliver(c, k)
  PROVE  /\ \A d \in Conns : \A j : j \in Range(inbox'[d]) <=>
                               j \in Range(inbox[d]) \/ (d = c /\ j = k)
         /\ \A d \in Conns : Range(inbox'[d]) \subseteq DOMAIN log
         /\ \A j \in DOMAIN log : \A d \in Conns : j \in Range(inbox'[d]) => d \in Audience(j)
         /\ TotalOrder'
<1> DEFINE s == inbox[c]
           n == Len(s)
<1>1. /\ inbox \in [Conns -> Seq(Nat)] /\ log \in Seq(Line)
      /\ DOMAIN log = 1..k /\ k \in Nat
  BY LenProperties DEF TypeOK
<1>2. /\ inbox'[c] = Append(s, k) /\ s \in Seq(Nat)
      /\ \A d \in Conns : d # c => inbox'[d] = inbox[d]
  BY <1>1 DEF Deliver
<1>3. /\ n \in Nat /\ DOMAIN s = 1..n
      /\ DOMAIN inbox'[c] = 1..(n + 1) /\ inbox'[c][n + 1] = k
      /\ \A i \in 1..n : inbox'[c][i] = s[i]
  BY <1>1, <1>2, AppendProperties, LenProperties
<1> HIDE DEF n
<1>4. \A j : j \in Range(inbox'[c]) <=> j \in Range(s) \/ j = k
  BY <1>3 DEF Range
<1>5. \A d \in Conns : \A j : j \in Range(inbox'[d]) <=>
                          j \in Range(inbox[d]) \/ (d = c /\ j = k)
  BY <1>2, <1>4
<1>6. \A d \in Conns : Range(inbox'[d]) \subseteq DOMAIN log
  BY <1>5 DEF LineInv
<1>7. \A j \in DOMAIN log : \A d \in Conns : j \in Range(inbox'[d]) => d \in Audience(j)
  BY <1>5 DEF LineInv, Reached, Got
<1>8. \A i \in 1..n : s[i] \in Nat /\ s[i] < k
  <2>1. ASSUME NEW i \in 1..n PROVE s[i] \in 1..k /\ s[i] # k
    <3>1. s[i] \in Range(s)
      BY <1>3 DEF Range
    <3>2. QED
      BY <1>1, <3>1 DEF LineInv
  <2>2. QED
    BY <1>1, <2>1
<1>9. \A i, j \in 1..n : i < j => s[i] < s[j]
  BY <1>3 DEF LineInv, TotalOrder
<1>10. \A i, j \in DOMAIN inbox'[c] : i < j => inbox'[c][i] < inbox'[c][j]
  BY <1>3, <1>8, <1>9
<1>11. TotalOrder'
  BY <1>2, <1>10 DEF LineInv, TotalOrder
<1>12. QED
  BY <1>5, <1>6, <1>7, <1>11

\* A broadcast goes on to the next session.
LEMMA LineSending ==
  ASSUME TypeOK, ScopeInv, SessionInv, LineInv, NEW t \in Threads,
         SkipExcluded(t) \/ SendLine(t) \/ SendLineFails(t)
  PROVE  LineInv'
<1> PICK f : f = Top(t)
  OBVIOUS
<1> PICK g : g = Advanced(t)
  OBVIOUS
<1> PICK c : c = Target(t)
  OBVIOUS
<1> PICK k : k = f.id
  OBVIOUS
<1>1. /\ stack[t] # <<>> /\ f.at = "sending" /\ f.next <= Len(m_clients)
      /\ UNCHANGED <<log, m_clients, m_clientsMutex>>
  BY DEF SkipExcluded, SendLine, SendLineFails, Sending, At, data, hist
<1>2. f \in Frame /\ m_clients \in Seq(Conns)
  BY <1>1, TopType DEF TypeOK
<1>3. OpenLines = {f} /\ m_clientsMutex = t
  BY <1>1, OpenTop DEF LockedAt
<1>4. LineOf(f) /\ Broadcasted(f)
  BY <1>1, <1>3 DEF LineInv, LineOf
<1>5. /\ f.next \in 1..Len(m_clients) /\ f.next \in DOMAIN m_clients
      /\ DOMAIN m_clients = 1..Len(m_clients) /\ Len(m_clients) \in Nat
      /\ c = m_clients[f.next] /\ c \in Conns
  BY <1>1, <1>2, <1>4, LenProperties DEF Broadcasted, Target
<1>6. g.at = "sending" /\ g.id = k /\ g.next = f.next + 1 /\ g.kind = f.kind /\ g.c = f.c
  BY <1>1, <1>2 DEF Frame, Advanced
<1>7. /\ k = Len(log) /\ k \in DOMAIN log /\ k \notin Range(inbox[c])
      /\ log[k].kind = f.kind /\ log[k].by = f.c /\ log[k].to = Range(m_clients)
      /\ f.kind \notin {"dm", "nouser"}
  BY <1>4, <1>5 DEF LineOf, Broadcasted, Got
<1>8. c \in Audience(k) <=> ~Excluded(f, c)
  BY <1>5, <1>7 DEF Audience, Excluded, Range
<1>9. OpenLines' = {g}
  <2>1. OpenElse(t) = {}
    BY <1>1, OpenAlone DEF LockedAt
  <2> DEFINE r == FrameAt("remove", "none", Target(t), NoName)
  <2>2. r.at \notin LockedAt
    BY DEF FrameAt, LockedAt
  <2>3. Goto(t, g) \/ Call(t, g, r)
    BY DEF SkipExcluded, SendLine, SendLineFails
  <2> HIDE DEF r
  <2>4. \/ OpenLines' = OpenElse(t) \cup {x \in {g} : x.at \in LockedAt}
        \/ OpenLines' = OpenElse(t) \cup {x \in {g, r} : x.at \in LockedAt}
    BY <1>1, <2>3, OpenGoto, OpenCall
  <2>5. QED
    BY <1>6, <2>1, <2>2, <2>4 DEF LockedAt
<1>10. /\ \A d \in Conns : \A j : j \in Range(inbox'[d]) =>
                              j \in Range(inbox[d]) \/ (d = c /\ j = k)
       /\ \A d \in Conns : Range(inbox[d]) \subseteq Range(inbox'[d])
       /\ \A d \in Conns : Range(inbox'[d]) \subseteq DOMAIN log
       /\ \A j \in DOMAIN log : \A d \in Conns : j \in Range(inbox'[d]) => d \in Audience(j)
       /\ TotalOrder'
       /\ failed \subseteq failed'
       /\ c \in failed' \/ c \notin Audience(k) \/ k \in Range(inbox'[c])
  <2>1. CASE SendLine(t)
    <3>1. Deliver(c, k) /\ c \in Audience(k) /\ failed' = failed
      BY <1>8, <2>1 DEF SendLine
    <3>2. QED
      BY <1>5, <1>7, <3>1, LineWritten
  <2>2. CASE SkipExcluded(t) \/ SendLineFails(t)
    <3>1. /\ inbox' = inbox
          /\ failed \subseteq failed' /\ (c \in failed' \/ c \notin Audience(k))
      BY <1>8, <2>2 DEF SkipExcluded, SendLineFails, hist
    <3>2. TotalOrder'
      BY <3>1 DEF LineInv, TotalOrder
    <3>3. QED
      BY <3>1, <3>2 DEF LineInv, Reached, Got
  <2>3. QED
    BY <2>1, <2>2
<1>11. Broadcasted(g)'
  <2>1. ASSUME NEW i \in DOMAIN m_clients, i < f.next + 1
        PROVE  \/ m_clients[i] \in failed' \/ m_clients[i] \notin Audience(k)
               \/ k \in Range(inbox'[m_clients[i]])
    <3>1. CASE i = f.next
      BY <1>5, <1>10, <3>1
    <3>2. CASE i < f.next
      <4>1. m_clients[i] \in Conns
        BY <1>2, <1>5
      <4>2. QED
        BY <1>4, <1>10, <3>2, <4>1 DEF Broadcasted, Got
    <3>3. QED
      BY <1>5, <2>1, <3>1, <3>2
  <2>2. ASSUME NEW i \in DOMAIN m_clients, i >= f.next + 1
        PROVE  k \notin Range(inbox'[m_clients[i]])
    <3>1. i >= f.next /\ i # f.next
      BY <1>5, <2>2
    <3>2. m_clients[i] # c /\ m_clients[i] \in Conns
      BY <1>2, <1>5, <3>1 DEF SessionInv, IsInjective
    <3>3. k \notin Range(inbox[m_clients[i]])
      BY <1>4, <3>1 DEF Broadcasted, Got
    <3>4. QED
      BY <1>10, <3>2, <3>3
  <2>3. f.next + 1 \in 1..(Len(m_clients) + 1)
    BY <1>5
  <2>4. Audience(k)' = Audience(k)
    BY <1>1 DEF Audience
  <2>5. QED
    BY <1>1, <1>6, <1>7, <2>1, <2>2, <2>3, <2>4 DEF Broadcasted, Got, Audience
<1>12. LineOf(g)'
  BY <1>1, <1>6, <1>7, <1>11 DEF LineOf
<1>13. ASSUME NEW j \in DOMAIN log PROVE Reached(j)'
  <2>1. Reached(j)
    BY DEF LineInv
  <2>2. Audience(j)' = Audience(j)
    BY <1>1 DEF Audience
  <2>3. Audience(j) \cap Conns = Audience(j)
    <3>1. log[j] \in Line
      BY DEF TypeOK
    <3>2. QED
      BY <3>1 DEF Line, Audience
  <2>4. Delivered(j) => Delivered(j)'
    BY <1>10, <2>2, <2>3 DEF Delivered
  <2>5. QED
    BY <1>1, <1>10, <2>1, <2>2, <2>4 DEF Reached, Got
<1>14. QED
  BY <1>1, <1>9, <1>10, <1>12, <1>13 DEF LineInv

\* A broadcast whose writes have all succeeded has reached its audience.
LEMMA LineEndBroadcast ==
  ASSUME TypeOK, ScopeInv, LineInv, failed = {}, NEW t \in Threads, EndBroadcast(t)
  PROVE  LineInv'
<1> PICK f : f = Top(t)
  OBVIOUS
<1> PICK k : k = f.id
  OBVIOUS
<1>1. /\ stack[t] # <<>> /\ f.at = "sending" /\ f.next > Len(m_clients)
      /\ UNCHANGED <<log, inbox, m_clients, failed>> /\ Return(t)
  BY DEF EndBroadcast, At, data, hist
<1>2. /\ m_clients \in Seq(Conns) /\ DOMAIN m_clients = 1..Len(m_clients)
      /\ Len(m_clients) \in Nat
  BY LenProperties DEF TypeOK
<1>3. OpenLines = {f}
  BY <1>1, OpenTop DEF LockedAt
<1>4. LineOf(f) /\ Broadcasted(f)
  BY <1>1, <1>3 DEF LineInv, LineOf
<1>5. k = Len(log) /\ k \in DOMAIN log /\ log[k].to = Range(m_clients)
  BY <1>4 DEF LineOf, Broadcasted
<1>6. Delivered(k)
  <2>1. SUFFICES ASSUME NEW d \in Audience(k) PROVE k \in Range(inbox[d])
    BY DEF Delivered
  <2>2. d \in Range(m_clients)
    BY <1>5 DEF Audience
  <2>3. PICK i \in 1..Len(m_clients) : m_clients[i] = d
    BY <1>2, <2>2 DEF Range
  <2>4. i < f.next /\ i \in DOMAIN m_clients
    BY <1>1, <1>2, <1>4 DEF Broadcasted
  <2>5. QED
    BY <1>4, <2>1, <2>3, <2>4 DEF Broadcasted, Got
<1>7. OpenLines' = {}
  BY <1>1, OpenAlone, OpenReturn DEF LockedAt
<1>8. ASSUME NEW j \in DOMAIN log PROVE Reached(j)'
  <2>1. Reached(j)
    BY DEF LineInv
  <2>2. log[j].kind \in {"dm", "nouser"} \/ Delivered(j)
    BY <1>5, <1>6, <2>1 DEF Reached
  <2>3. Audience(j)' = Audience(j)
    BY <1>1 DEF Audience
  <2>4. QED
    BY <1>1, <2>1, <2>2, <2>3 DEF Reached, Got, Delivered
<1>9. TotalOrder'
  BY <1>1 DEF LineInv, TotalOrder
<1>10. QED
  BY <1>1, <1>7, <1>8, <1>9 DEF LineInv

\* A direct message, or the answer that there is no such user, is written once.
LEMMA LineDirect ==
  ASSUME TypeOK, ScopeInv, LineInv, SendDirect \/ SendNotFound
  PROVE  LineInv'
<1> PICK f : f = Top(Io)
  OBVIOUS
<1> PICK k : k = f.id
  OBVIOUS
<1> PICK w : w = Whom(f)
  OBVIOUS
<1>1. /\ stack[Io] # <<>> /\ f.at \in {"dmsend", "nouser"} /\ process = "up"
      /\ UNCHANGED <<log, m_clients, username, failed>> /\ Io \in Threads
  BY IoIsThread DEF SendDirect, SendNotFound, At, data
<1>2. f \in Frame /\ m_clients \in Seq(Conns)
  BY <1>1, TopType DEF TypeOK
<1>3. OpenLines = {f} /\ m_clientsMutex = Io
  BY <1>1, OpenTop DEF LockedAt
<1>4. LineOf(f) /\ Directed(f)
  BY <1>1, <1>3 DEF LineInv, LineOf
<1>5. w \in Conns
  <2>1. CASE f.at = "dmsend"
    BY <1>2, <1>4, <2>1 DEF Directed, Whom
  <2>2. CASE f.at # "dmsend"
    BY <1>1, <1>2, <2>2, FrameConn DEF Whom
  <2>3. QED
    BY <2>1, <2>2
<1>6. WriteDirect(w)
  BY <1>1 DEF SendDirect, SendNotFound, At, Whom, Target
<1>7. /\ k = Len(log) /\ k \in DOMAIN log /\ k \notin Range(inbox[w])
      /\ log[k].kind \in {"dm", "nouser"} /\ log[k].to = {w}
  BY <1>1, <1>4 DEF LineOf, Directed, Got
<1>8. w \in Audience(k)
  BY <1>7 DEF Audience
<1>9. /\ \A d \in Conns : Range(inbox[d]) \subseteq Range(inbox'[d])
      /\ \A d \in Conns : Range(inbox'[d]) \subseteq DOMAIN log
      /\ \A j \in DOMAIN log : \A d \in Conns : j \in Range(inbox'[d]) => d \in Audience(j)
      /\ TotalOrder'
  <2>1. CASE Deliver(w, k)
    BY <1>5, <1>7, <1>8, <2>1, LineWritten
  <2>2. CASE UNCHANGED inbox
    <3>1. TotalOrder'
      BY <2>2 DEF LineInv, TotalOrder
    <3>2. QED
      BY <2>2, <3>1 DEF LineInv, Reached, Got
  <2>3. QED
    BY <1>6, <2>1, <2>2 DEF WriteDirect
<1>10. ASSUME NEW j \in DOMAIN log PROVE Reached(j)'
  <2>1. Reached(j)
    BY DEF LineInv
  <2>2. Audience(j)' = Audience(j)
    BY <1>1 DEF Audience
  <2>3. Audience(j) \cap Conns = Audience(j)
    <3>1. log[j] \in Line
      BY DEF TypeOK
    <3>2. QED
      BY <3>1 DEF Line, Audience
  <2>4. log[j].kind \in {"dm", "nouser"} \/ Delivered(j)
    BY <1>7, <2>1 DEF Reached
  <2>5. Delivered(j) => Delivered(j)'
    BY <1>9, <2>2, <2>3 DEF Delivered
  <2>6. QED
    BY <1>1, <1>9, <2>2, <2>4, <2>5 DEF Reached, Got
<1>11. \A x \in OpenLines' : LineOf(x)'
  <2>1. CASE Return(Io)
    <3>1. OpenLines' = {}
      BY <1>1, <2>1, OpenAlone, OpenReturn DEF LockedAt
    <3>2. QED
      BY <3>1
  <2>2. CASE UNCHANGED stack /\ process' = "crashed"
    <3>1. OpenLines' = {f}
      BY <1>3, <2>2 DEF OpenLines
    <3>2. Whom(f)' = Whom(f)
      BY <1>1 DEF Whom
    <3>3. Directed(f)'
      BY <1>1, <1>4, <2>2, <3>2 DEF Directed
    <3>4. LineOf(f)'
      BY <1>1, <1>4, <3>3 DEF LineOf
    <3>5. QED
      BY <3>1, <3>4
  <2>3. QED
    BY <2>1, <2>2 DEF SendDirect, SendNotFound
<1>12. QED
  BY <1>1, <1>9, <1>10, <1>11 DEF LineInv

\* A step of threads that are not about to enter or to leave a scope.
LEMMA LineQuiet ==
  ASSUME TypeOK, ScopeInv, RecordInv, LineInv, [Next]_vars,
         UNCHANGED <<log, inbox, failed, m_clientsMutex>>,
         username' = username \/ stack[Io] = <<>>,
         \A t \in Threads : stack'[t] # stack[t] => stack[t] = <<>> \/ Top(t).at \notin Talking
  PROVE  LineInv'
<1>1. OpenLines' = OpenLines
  BY StackSteps, OpenKept
<1>2. m_clients' = m_clients \/ OpenLines = {}
  BY ClientsChangeUnlocked, OpenFree
<1>3. username' = username \/ \A f \in OpenLines : f.at # "dmsend"
  <2>1. ASSUME stack[Io] = <<>>, NEW f \in OpenLines, f.at = "dmsend" PROVE FALSE
    <3>1. PICK t \in Threads : f \in Range(stack[t])
      BY DEF OpenLines
    <3>2. t = Io
      BY <2>1, <3>1 DEF RecordInv
    <3>3. QED
      BY <2>1, <3>1, <3>2 DEF Range
  <2>2. QED
    BY <2>1
<1>4. process' = "up" => process = "up"
  BY StoppedStays DEF vars
<1>5. QED
  BY <1>1, <1>2, <1>3, <1>4, LinesKept

LEMMA LineInit == Init => LineInv
<1> SUFFICES ASSUME Init PROVE LineInv
  OBVIOUS
<1>1. OpenLines = {}
  BY ScopeInit, OpenFree DEF Init
<1>2. log = <<>> /\ \A c \in Conns : inbox[c] = <<>>
  BY DEF Init
<1>3. DOMAIN log = {} /\ \A c \in Conns : DOMAIN inbox[c] = {} /\ Range(inbox[c]) = {}
  BY <1>2 DEF Range
<1>4. QED
  BY <1>1, <1>3 DEF LineInv, TotalOrder

\* The steps that are not about lines.
Quiet ==
  \/ Accepting \/ Rearm \/ RunReturns \/ \E c \in Conns : Reading(c)
  \/ \E t \in Threads : RemoveClient(t) \/ EraseClient(t)
  \/ \E t \in Callers : CallBroadcast(t) \/ CallShutdown(t) \/ Shutdown(t)
  \/ \E c \in Conns : Completion(c) \/ Peers(c)
  \/ AcceptFails \/ UNCHANGED vars

\* Of the threads only t, which is not about to enter or to leave a scope, moves.
Aside(t) ==
  /\ \A u \in Threads : u # t => stack'[u] = stack[u]
  /\ stack'[t] = stack[t] \/ stack[t] = <<>> \/ Top(t).at \notin Talking

LEMMA QuietStacks ==
  ASSUME TypeOK, Quiet
  PROVE  \A u \in Threads : stack'[u] # stack[u] => stack[u] = <<>> \/ Top(u).at \notin Talking
<1>1. SUFFICES \E t \in Threads : Aside(t)
  BY DEF Aside
<1>2. Io \in Threads /\ Callers \subseteq Threads
  BY DEF Threads
<1>3. CASE \E c \in Conns : Reading(c)
  <2>1. Aside(Io)
    BY <1>3 DEF Reading, OnReadError, OnBlank, OnUnparsable, OnOddMessage, OnFirstText, OnText,
       OnDirectMessage, ReadDone, IoIdle, Handle, Push, TypeOK, Aside
  <2>2. QED
    BY <1>2, <2>1
<1>4. CASE Accepting \/ Rearm \/ RunReturns
  <2>1. \A u \in Threads : u # Io => stack'[u] = stack[u]
    BY <1>4 DEF Accepting, Start, OnAccept, OnAcceptError, RejectClient, AdmitClient, PushClient,
       GreetClient, GreetThrows, Rearm, RunReturns, Push, Goto, Return, TypeOK
  <2>2. \/ stack'[Io] = stack[Io] \/ stack[Io] = <<>>
        \/ Top(Io).at \in {"start", "admit", "push", "greet", "rearm"}
    BY <1>4 DEF Accepting, Start, OnAccept, OnAcceptError, RejectClient, AdmitClient, PushClient,
       GreetClient, GreetThrows, Rearm, RunReturns, At, IoIdle
  <2>3. QED
    BY <1>2, <2>1, <2>2 DEF Aside, Talking
<1>5. CASE \E t \in Threads : RemoveClient(t) \/ EraseClient(t)
  <2>1. PICK t \in Threads : RemoveClient(t) \/ EraseClient(t)
    BY <1>5
  <2>2. Top(t).at \in {"remove", "erase"}
    BY <2>1 DEF RemoveClient, EraseClient, At
  <2>3. \A u \in Threads : u # t => stack'[u] = stack[u]
    BY <2>1 DEF RemoveClient, EraseClient, Goto, Call, Return, TypeOK
  <2>4. QED
    BY <2>2, <2>3 DEF Aside, Talking
<1>6. CASE \E t \in Callers : CallBroadcast(t) \/ CallShutdown(t) \/ Shutdown(t)
  <2>1. PICK t \in Callers : CallBroadcast(t) \/ CallShutdown(t) \/ Shutdown(t)
    BY <1>6
  <2>2. stack[t] = <<>> \/ Top(t).at = "shutdown"
    BY <2>1 DEF CallBroadcast, CallShutdown, Shutdown, At
  <2>3. \A u \in Threads : u # t => stack'[u] = stack[u]
    BY <2>1 DEF CallBroadcast, CallShutdown, Shutdown, Push, Return, TypeOK
  <2>4. QED
    BY <1>2, <2>2, <2>3 DEF Aside, Talking
<1>7. CASE (\E c \in Conns : Completion(c) \/ Peers(c)) \/ AcceptFails \/ UNCHANGED vars
  <2>1. UNCHANGED stack
    BY <1>7 DEF Completion, Peers, AcceptCompletes, ReadCompletes, ReadSplits, ReadFails,
       PeerConnect, PeerSend, PeerRead, PeerLeave, AcceptFails, vars
  <2>2. QED
    BY <1>2, <2>1 DEF Aside
<1>8. QED
  BY <1>3, <1>4, <1>5, <1>6, <1>7 DEF Quiet

LEMMA QuietLog ==
  ASSUME Quiet
  PROVE  /\ UNCHANGED <<log, inbox, failed, m_clientsMutex>>
         /\ username' = username \/ stack[Io] = <<>>
<1>1. CASE \E c \in Conns : Reading(c)
  BY <1>1 DEF Reading, OnReadError, OnBlank, OnUnparsable, OnOddMessage, OnFirstText,
     OnText, OnDirectMessage, Handle, ReadDone, IoIdle, hist
<1>2. CASE Accepting \/ Rearm \/ RunReturns
  BY <1>2 DEF Accepting, Start, OnAccept, OnAcceptError, RejectClient, AdmitClient,
     PushClient, GreetClient, GreetThrows, Rearm, RunReturns, data, hist
<1>3. CASE \E t \in Threads : RemoveClient(t) \/ EraseClient(t)
  BY <1>3 DEF RemoveClient, EraseClient, data, hist
<1>4. CASE \E t \in Callers : CallBroadcast(t) \/ CallShutdown(t) \/ Shutdown(t)
  BY <1>4 DEF CallBroadcast, CallShutdown, Shutdown, data, hist
<1>5. CASE (\E c \in Conns : Completion(c) \/ Peers(c)) \/ AcceptFails \/ UNCHANGED vars
  BY <1>5 DEF Completion, Peers, AcceptCompletes, ReadCompletes, ReadSplits, ReadFails,
     PeerConnect, PeerSend, PeerRead, PeerLeave, AcceptFails, vars, data, hist
<1>6. QED
  BY <1>1, <1>2, <1>3, <1>4, <1>5 DEF Quiet

\* A step of one of the three functions that send lines, or a quiet one.
LEMMA StepKinds ==
  ASSUME [Next]_vars
  PROVE  \/ \E t \in Threads : \/ StartBroadcast(t) \/ EndBroadcast(t)
                               \/ SkipExcluded(t) \/ SendLine(t) \/ SendLineFails(t)
         \/ StartDirect \/ SendDirect \/ SendNotFound
         \/ Quiet
<1>1. Io \in Threads /\ Callers \subseteq Threads
  BY DEF Threads
<1>2. QED
  BY <1>1 DEF Next, IoStep, CallerStep, Direct, Broadcasting, Quiet

LEMMA LineStep ==
  TypeOK /\ ScopeInv /\ SessionInv /\ RecordInv /\ LineInv /\ [Next]_vars
    /\ (failed' # {} => m_clientsMutex' # Nobody) => LineInv'
<1>1. SUFFICES ASSUME TypeOK, ScopeInv, SessionInv, RecordInv, LineInv, [Next]_vars,
                      failed' # {} => m_clientsMutex' # Nobody
               PROVE  LineInv'
  OBVIOUS
<1>2. CASE \E t \in Threads : EndBroadcast(t)
  <2>1. failed = {}
    BY <1>1, <1>2 DEF EndBroadcast, Unlock, hist
  <2>2. QED
    BY <1>1, <1>2, <2>1, LineEndBroadcast
<1>3. CASE Quiet
  BY <1>1, <1>3, QuietStacks, QuietLog, LineQuiet
<1>4. QED
  BY <1>1, <1>2, <1>3, StepKinds, LineStartBroadcast, LineSending, LineStartDirect, LineDirect

-----------------------------------------------------------------------------
(* The theorems.                                                            *)

LEMMA LinesCorrect == Spec => [](TypeOK /\ ScopeInv /\ LineInv)
<1> DEFINE Inv == /\ TypeOK /\ ScopeInv /\ ShapeInv /\ SessionInv
                  /\ StuckInv /\ RecordInv /\ LineInv
<1>1. Init => Inv
  BY TypeInit, ScopeInit, ShapeInit, SessionInit, RecordInit, LineInit DEF Init, StuckInv
<1>2. Inv /\ [Next]_vars => Inv'
  <2>1. SUFFICES ASSUME Inv, [Next]_vars PROVE Inv'
    OBVIOUS
  <2>2. TypeOK' /\ ScopeInv' /\ ShapeInv' /\ SessionInv' /\ RecordInv'
    BY <2>1, TypeStep, ScopeStep, ShapeStep, SessionStep, RecordStep
  <2>3. StuckInv'
    BY <2>1, <2>2, StuckStep
  <2>4. failed' # {} => m_clientsMutex' # Nobody
    BY <2>2, <2>3, ConstantsAssumption DEF ScopeInv, StuckInv
  <2>5. LineInv'
    BY <2>1, <2>4, LineStep
  <2>6. QED
    BY <2>2, <2>3, <2>5
<1>3. Inv => TypeOK /\ ScopeInv /\ LineInv
  OBVIOUS
<1> HIDE DEF Inv
<1>4. QED
  BY <1>1, <1>2, <1>3, PTL DEF Spec

\* All clients see the lines they have in common in one order, whichever threads
\* broadcast and however long a write takes.
THEOREM TotalOrderCorrect == Spec => []TotalOrder
<1>1. LineInv => TotalOrder
  BY DEF LineInv
<1>2. QED
  BY <1>1, LinesCorrect, PTL

\* The iterators of broadcastMessage and of the search in handleMessage are
\* valid wherever they are used, and a direct message goes to a session that
\* has the name asked for.
THEOREM IteratorsCorrect == Spec => []IteratorsValid
<1>1. LineInv => IteratorsValid
  <2>1. SUFFICES ASSUME LineInv, NEW t \in Threads, NEW f \in Range(stack[t]),
                        f.at \in {"sending", "dmsend"}
                 PROVE  /\ f.at = "sending" => f.next \in 1..(Len(m_clients) + 1)
                        /\ f.at = "dmsend" => /\ f.next \in DOMAIN m_clients
                                              /\ username[m_clients[f.next]] = f.name
                                              /\ log[f.id].to = {m_clients[f.next]}
    BY DEF IteratorsValid
  <2>2. f \in OpenLines
    BY <2>1 DEF OpenLines, LockedAt
  <2>3. LineOf(f)
    BY <2>1, <2>2 DEF LineInv
  <2>4. CASE f.at = "sending"
    BY <2>3, <2>4 DEF LineOf, Broadcasted
  <2>5. CASE f.at = "dmsend"
    BY <2>3, <2>5 DEF LineOf, Directed, Whom
  <2>6. QED
    BY <2>1, <2>4, <2>5
<1>2. QED
  BY <1>1, LinesCorrect, PTL

\* A line reaches nobody but its audience, and a broadcast that has returned has
\* reached every session of it: also when writes fail, since such a broadcast
\* does not return.
THEOREM FanOutCorrect == Spec => []FanOut
<1>1. TypeOK /\ ScopeInv /\ LineInv => FanOut
  <2>1. SUFFICES ASSUME TypeOK, ScopeInv, LineInv, NEW k \in DOMAIN log
                 PROVE  /\ \A c \in Conns : k \in Range(inbox[c]) => c \in Audience(k)
                        /\ \/ log[k].kind \in {"dm", "nouser"}
                           \/ \E t \in Threads : \E f \in Range(stack[t]) : f.id = k
                           \/ Delivered(k)
    BY DEF FanOut
  <2>2. Reached(k)
    BY <2>1 DEF LineInv
  <2>3. ASSUME k = Len(log), m_clientsMutex # Nobody
        PROVE  \E t \in Threads : \E f \in Range(stack[t]) : f.id = k
    <3>1. PICK t \in Threads : Scopes(t) # {}
      BY <2>1, <2>3 DEF TypeOK, ScopeInv
    <3>2. PICK f \in Range(stack[t]) : f.at \in LockedAt
      BY <3>1 DEF Scopes, Places, Range
    <3>3. f \in OpenLines
      BY <3>2 DEF OpenLines
    <3>4. f.id = Len(log)
      BY <2>1, <3>3 DEF LineInv, LineOf
    <3>5. QED
      BY <2>3, <3>2, <3>4
  <2>4. QED
    BY <2>2, <2>3 DEF Reached, Got
<1>2. QED
  BY <1>1, LinesCorrect, PTL

=============================================================================
