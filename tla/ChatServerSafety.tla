--------------------------- MODULE ChatServerSafety ---------------------------
(***************************************************************************)
(* Safety of ChatServer, proved for every value of its constants: that     *)
(* every variable keeps its type, who holds m_clientsMutex and when, that  *)
(* the session list is never changed under an iteration, that m_maxClients *)
(* is respected although the check and the insertion are two critical      *)
(* sections, and that a failed write of a broadcast leaves the mutex held  *)
(* for ever.                                                               *)
(***************************************************************************)
EXTENDS ChatServer, SequenceTheorems, WellFoundedInduction, TLAPS

(***************************************************************************)
(* Lemmas about the sequence operators the model is built from.            *)
(***************************************************************************)

\* A prefix has the length asked for.
LEMMA PrefixLen ==
  ASSUME NEW S, NEW s \in Seq(S), NEW n \in Nat, n <= Len(s)
  PROVE  Len(SubSeq(s, 1, n)) = n
OBVIOUS

\* Returning from a call keeps every activation record but the last.
LEMMA FrontFacts ==
  ASSUME NEW S, NEW s \in Seq(S), s # <<>>
  PROVE  /\ Front(s) \in Seq(S)
         /\ Len(Front(s)) = Len(s) - 1
         /\ Len(s) \in 1..Len(s)
         /\ \A i \in 1..(Len(s) - 1) : Front(s)[i] = s[i]
<1>1. Len(s) \in Nat /\ Len(s) - 1 \in Nat /\ Len(s) > 0 /\ Len(s) - 1 <= Len(s)
  BY EmptySeq, LenProperties
<1>2. \A i \in 1..(Len(s) - 1) : s[i] \in S
  BY <1>1, ElementOfSeq
<1>3. Front(s) \in Seq(S)
  BY <1>1, <1>2, SubSeqProperties DEF Front
<1>4. Len(Front(s)) = Len(s) - 1
  BY <1>1, PrefixLen, Zenon DEF Front
<1>5. \A i \in 1..(Len(s) - 1) : Front(s)[i] = s[i]
  BY <1>1, <1>2 DEF Front
<1>6. QED
  BY <1>1, <1>3, <1>4, <1>5

\* A non-empty set of naturals has a least element, so Min is a member.
LEMMA MinIsMember ==
  ASSUME NEW T, T \subseteq Nat, T # {}
  PROVE  Min(T) \in T
<1>1. PICK x \in T : \A y \in T : <<y, x>> \notin OpToRel(<, Nat)
  BY NatLessThanWellFounded, WFMin, Zenon
<1>2. ASSUME NEW y \in T PROVE y >= x
  <2>1. <<y, x>> \notin OpToRel(<, Nat)
    BY <1>1
  <2>2. ~(y < x)
    BY <2>1 DEF OpToRel
  <2>3. QED
    BY <2>2
<1>3. QED
  BY <1>2 DEF Min

\* Removing one element of a sequence.
LEMMA RemoveAtFacts ==
  ASSUME NEW S, NEW s \in Seq(S), NEW i \in 1..Len(s)
  PROVE  /\ RemoveAt(s, i) \in Seq(S)
         /\ Len(RemoveAt(s, i)) = Len(s) - 1
<1> DEFINE a == SubSeq(s, 1, i - 1)
           b == SubSeq(s, i + 1, Len(s))
<1>1. a \in Seq(S) /\ Len(a) = i - 1
  BY PrefixLen
<1>2. b \in Seq(S) /\ Len(b) = Len(s) - i
  BY SubSeqProperties
<1>3. RemoveAt(s, i) = a \o b
  BY DEF RemoveAt
<1> HIDE DEF a, b
<1>4. a \o b \in Seq(S) /\ Len(a \o b) = Len(a) + Len(b)
  BY <1>1, <1>2, ConcatProperties, Zenon
<1>5. Len(s) \in Nat
  BY LenProperties
<1>6. Len(a) + Len(b) = Len(s) - 1
  BY <1>1, <1>2, <1>5
<1>7. QED
  BY <1>3, <1>4, <1>6, Zenon

\* std::find and erase: the result is a shorter or the same list.
LEMMA RemoveFirstFacts ==
  ASSUME NEW S, NEW s \in Seq(S), NEW e
  PROVE  /\ RemoveFirst(s, e) \in Seq(S)
         /\ Len(RemoveFirst(s, e)) <= Len(s)
<1> DEFINE I == {i \in 1..Len(s) : s[i] = e}
<1>1. CASE I = {}
  BY <1>1 DEF RemoveFirst
<1>2. CASE I # {}
  <2>1. Min(I) \in I
    <3>1. I \subseteq Nat
      OBVIOUS
    <3>2. QED
      BY <3>1, <1>2, MinIsMember, Zenon
  <2>2. RemoveFirst(s, e) = RemoveAt(s, Min(I))
    BY <1>2 DEF RemoveFirst, SelectInSeq
  <2>3. QED
    BY <2>1, <2>2, RemoveAtFacts
<1>3. QED
  BY <1>1, <1>2

\* std::find_if: 0 for "not found", and otherwise the position of a session
\* with that name.
LEMMA FindClientFacts ==
  ASSUME m_clients \in Seq(Conns), NEW name
  PROVE  LET it == FindClient(name) IN
         it = 0 \/ (it \in 1..Len(m_clients) /\ username[m_clients[it]] = name)
<1> DEFINE I == {i \in 1..Len(m_clients) : username[m_clients[i]] = name}
<1>1. FindClient(name) = IF I # {} THEN Min(I) ELSE 0
  BY DEF FindClient, SelectInSeq
<1>2. I # {} => Min(I) \in I
  <2>1. I \subseteq Nat
    OBVIOUS
  <2>2. QED
    BY <2>1, MinIsMember, Zenon
<1>3. QED
  BY <1>1, <1>2

-----------------------------------------------------------------------------
(* Type correctness.                                                        *)

LEMMA IoIsThread == Io \in Threads
BY DEF Threads

\* The innermost call of a running thread is an activation record.
LEMMA TopType ==
  ASSUME stack \in [Threads -> Seq(Frame)], NEW t \in Threads, stack[t] # <<>>
  PROVE  /\ Top(t) \in Frame
         /\ Len(stack[t]) \in 1..Len(stack[t])
         /\ Top(t) = stack[t][Len(stack[t])]
<1>1. stack[t] \in Seq(Frame)
  OBVIOUS
<1>2. Len(stack[t]) \in 1..Len(stack[t])
  BY <1>1, FrontFacts
<1>3. QED
  BY <1>1, <1>2, ElementOfSeq DEF Top, Last

\* A call is pushed.
LEMMA PushType ==
  ASSUME stack \in [Threads -> Seq(Frame)], NEW t \in Threads, NEW f \in Frame,
         Push(t, f)
  PROVE  stack' \in [Threads -> Seq(Frame)]
<1>1. Append(stack[t], f) \in Seq(Frame)
  BY AppendProperties
<1>2. QED
  BY <1>1 DEF Push

\* Replacing the innermost record.
LEMMA ReplaceTopType ==
  ASSUME NEW s \in Seq(Frame), s # <<>>, NEW f \in Frame
  PROVE  /\ ReplaceAt(s, Len(s), f) \in Seq(Frame)
         /\ Len(ReplaceAt(s, Len(s), f)) = Len(s)
         /\ \A i \in 1..Len(s) :
              ReplaceAt(s, Len(s), f)[i] = IF i = Len(s) THEN f ELSE s[i]
<1>1. Len(s) \in 1..Len(s)
  BY FrontFacts
<1>2. QED
  BY <1>1, ExceptSeq DEF ReplaceAt

LEMMA GotoType ==
  ASSUME stack \in [Threads -> Seq(Frame)], NEW t \in Threads, NEW f \in Frame,
         stack[t] # <<>>, Goto(t, f)
  PROVE  stack' \in [Threads -> Seq(Frame)]
<1>1. ReplaceAt(stack[t], Len(stack[t]), f) \in Seq(Frame)
  BY ReplaceTopType
<1>2. QED
  BY <1>1 DEF Goto

LEMMA CallType ==
  ASSUME stack \in [Threads -> Seq(Frame)], NEW t \in Threads, NEW f \in Frame,
         NEW g \in Frame, stack[t] # <<>>, Call(t, f, g)
  PROVE  stack' \in [Threads -> Seq(Frame)]
<1>1. ReplaceAt(stack[t], Len(stack[t]), f) \in Seq(Frame)
  BY ReplaceTopType
<1>2. Append(ReplaceAt(stack[t], Len(stack[t]), f), g) \in Seq(Frame)
  BY <1>1, AppendProperties
<1>3. QED
  BY <1>2 DEF Call

LEMMA ReturnType ==
  ASSUME stack \in [Threads -> Seq(Frame)], NEW t \in Threads,
         stack[t] # <<>>, Return(t)
  PROVE  stack' \in [Threads -> Seq(Frame)]
<1>1. Front(stack[t]) \in Seq(Frame)
  BY FrontFacts
<1>2. QED
  BY <1>1 DEF Return

\* The record a call starts with.
LEMMA FrameAtType ==
  ASSUME NEW at \in Labels, NEW kind \in LineKinds \cup {"none"},
         NEW c \in Conns \cup {NoConn}, NEW name \in Names \cup {NoName},
         \/ c # NoConn
         \/ at \in {"start", "shutdown"}
         \/ at = "bcast" /\ kind = "notice",
         at = "bcast" => kind \in LineKinds, at # "sending"
  PROVE  FrameAt(at, kind, c, name) \in Frame
BY DEF FrameAt, Frame

\* Only these calls are made without a connection.
LEMMA FrameConn ==
  ASSUME NEW f \in Frame
  PROVE  \/ f.c \in Conns
         \/ f.at \in {"start", "shutdown"}
         \/ f.at \in {"bcast", "sending"} /\ f.kind = "notice"
BY DEF Frame

\* A record of which only the place to continue from changes.
LEMMA MoveToType ==
  ASSUME NEW f \in Frame, f.c # NoConn,
         NEW at \in Labels, at \notin {"bcast", "sending"}
  PROVE  /\ [f EXCEPT !.at = at] \in Frame
         /\ [f EXCEPT !.at = at].at = at
BY DEF Frame

\* The record of a broadcast that has taken the mutex.
LEMMA SendingType ==
  ASSUME NEW f \in Frame, f.at = "bcast", NEW id \in Nat
  PROVE  [f EXCEPT !.at = "sending", !.id = id, !.next = 1] \in Frame
<1> DEFINE g == [f EXCEPT !.at = "sending", !.id = id, !.next = 1]
<1>1. /\ g.at = "sending" /\ g.kind = f.kind /\ g.c = f.c /\ g.next = 1
      /\ f.c = NoConn => f.kind = "notice"
  BY DEF Frame
<1>2. g \in [at : Labels, kind : LineKinds \cup {"none"}, c : Conns \cup {NoConn},
             name : Names \cup {NoName}, id : Nat, next : Nat]
  BY DEF Frame, Labels
<1> HIDE DEF g
<1>3. g \in Frame
  BY <1>1, <1>2 DEF Frame
<1>4. QED
  BY <1>3 DEF g

\* A read returns a message the peer wrote, white space, or something that
\* does not parse.
LEMMA ChunkType ==
  ASSUME NEW s \in Seq(Message)
  PROVE  Chunk(s) \in Message
<1>1. Blank \in Message /\ Raw \in Message
  BY DEF Blank, Raw, Message
<1>2. DOMAIN s = 1..Len(s)
  BY LenProperties
<1>3. \A i \in DOMAIN s : s[i] \in Message
  BY <1>2, ElementOfSeq
<1>4. (\E i \in DOMAIN s : Solid(s) = {i}) =>
        (CHOOSE i \in DOMAIN s : Solid(s) = {i}) \in DOMAIN s
  BY Zenon
<1>5. QED
  BY <1>1, <1>3, <1>4, Zenon DEF Chunk

LEMMA CloseSocketsType ==
  ASSUME TypeOK, NEW S, CloseSockets(S)
  PROVE  /\ sock' \in [Conns -> {"none", "open", "closed"}]
         /\ reads' \in [Conns -> ReadState]
BY DEF TypeOK, CloseSockets, ReadState

LEMMA ReadClientMessageType ==
  ASSUME TypeOK, NEW c \in Conns, ReadClientMessage(c)
  PROVE  reads' \in [Conns -> ReadState]
BY DEF TypeOK, ReadClientMessage, ReadState

LEMMA DeliverType ==
  ASSUME TypeOK, NEW c, NEW id \in Nat, Deliver(c, id)
  PROVE  inbox' \in [Conns -> Seq(Nat)]
<1>1. \A d \in Conns : Append(inbox[d], id) \in Seq(Nat)
  BY AppendProperties DEF TypeOK
<1>2. DOMAIN inbox' = Conns /\ inbox' = [d \in Conns |-> inbox'[d]]
  BY DEF TypeOK, Deliver
<1>3. ASSUME NEW d \in Conns PROVE inbox'[d] \in Seq(Nat)
  <2>1. inbox'[d] = IF d = c THEN Append(inbox[d], id) ELSE inbox[d]
    BY DEF TypeOK, Deliver
  <2>2. QED
    BY <1>1, <2>1 DEF TypeOK
<1>4. QED
  BY <1>2, <1>3, Zenon

LEMMA AcceptConnectionsType ==
  ASSUME TypeOK, AcceptConnections
  PROVE  acceptor' \in Acceptor
BY DEF TypeOK, AcceptConnections, Acceptor

LEMMA TypeInit == Init => TypeOK
<1>1. FrameAt("start", "none", NoConn, NoName) \in Frame
  BY FrameAtType DEF Labels, LineKinds
<1>2. <<FrameAt("start", "none", NoConn, NoName)>> \in Seq(Frame) /\ <<>> \in Seq(Frame)
  BY <1>1
<1>3. SUFFICES ASSUME Init PROVE TypeOK
  OBVIOUS
<1>4. stack \in [Threads -> Seq(Frame)]
  BY <1>2, <1>3 DEF Init
<1>5. uplink \in [Conns -> Seq(Message)] /\ inbox \in [Conns -> Seq(Nat)]
      /\ m_clients \in Seq(Conns) /\ log \in Seq(Line)
  BY <1>3, EmptySeq DEF Init
<1>6. QED
  BY <1>3, <1>4, <1>5 DEF Init, TypeOK, ReadState, Idle, Message, Acceptor

\* The steps of the accept handler.
LEMMA TypeAccepting == TypeOK /\ Accepting => TypeOK'
<1>1. SUFFICES ASSUME TypeOK, Accepting PROVE TypeOK'
  OBVIOUS
<1>2. Io \in Threads /\ stack \in [Threads -> Seq(Frame)]
  BY <1>1, IoIsThread DEF TypeOK
<1>3. stack[Io] # <<>> =>
        /\ Top(Io) \in Frame
        /\ Top(Io).at \in {"admit", "push", "greet"} => Top(Io).c \in Conns \ {NoConn}
  BY <1>2, TopType, FrameConn, ConstantsAssumption, Zenon
<1>4. CASE Start
  <2>1. stack' \in [Threads -> Seq(Frame)]
    BY <1>2, <1>4, ReturnType DEF Start, At
  <2>2. QED
    BY <1>1, <1>4, <2>1, AcceptConnectionsType DEF Start, TypeOK, net, hist
<1>5. CASE OnAccept
  <2>1. FrameAt("admit", "none", acceptor.c, NoName) \in Frame
    BY <1>1, <1>5, FrameAtType, ConstantsAssumption
       DEF OnAccept, TypeOK, Labels, Acceptor
  <2>2. stack' \in [Threads -> Seq(Frame)]
    BY <1>2, <1>5, <2>1, PushType DEF OnAccept
  <2>3. acceptor' \in Acceptor
    BY <1>1, <1>5 DEF OnAccept, TypeOK, Acceptor
  <2>4. QED
    BY <1>1, <1>5, <2>2, <2>3 DEF OnAccept, TypeOK, net, data, hist
<1>6. CASE OnAcceptError
  <2>1. acceptor' \in Acceptor
    BY <1>1, <1>6 DEF OnAcceptError, TypeOK, Acceptor
  <2>2. QED
    BY <1>1, <1>6, <2>1 DEF OnAcceptError, TypeOK, net, data, hist
<1>7. CASE RejectClient
  <2>1. stack' \in [Threads -> Seq(Frame)]
    BY <1>2, <1>7, ReturnType DEF RejectClient, At
  <2>2. QED
    BY <1>1, <1>7, <2>1, CloseSocketsType, AcceptConnectionsType
       DEF RejectClient, TypeOK, net, data, hist
<1>8. CASE AdmitClient
  <2>1. [Top(Io) EXCEPT !.at = "push"] \in Frame
    BY <1>3, <1>8, MoveToType DEF AdmitClient, At, Labels
  <2>2. stack' \in [Threads -> Seq(Frame)]
    BY <1>2, <1>8, <2>1, GotoType DEF AdmitClient, At
  <2>3. QED
    BY <1>1, <1>8, <2>2 DEF AdmitClient, TypeOK, net, asio, data, hist
<1>9. CASE PushClient
  <2>1. [Top(Io) EXCEPT !.at = "greet"] \in Frame
    BY <1>3, <1>9, MoveToType DEF PushClient, At, Labels
  <2>2. stack' \in [Threads -> Seq(Frame)]
    BY <1>2, <1>9, <2>1, GotoType DEF PushClient, At
  <2>3. m_clients' \in Seq(Conns)
    BY <1>1, <1>3, <1>9, AppendProperties DEF PushClient, At, TypeOK
  <2>4. QED
    BY <1>1, <1>9, <2>2, <2>3 DEF PushClient, TypeOK, net, asio, hist
<1>10. CASE GreetClient
  <2>1. stack' \in [Threads -> Seq(Frame)]
    BY <1>2, <1>10, ReturnType DEF GreetClient, At
  <2>2. reads' \in [Conns -> ReadState]
    BY <1>1, <1>3, <1>10, ReadClientMessageType DEF GreetClient, At
  <2>3. QED
    BY <1>1, <1>10, <2>1, <2>2, AcceptConnectionsType
       DEF GreetClient, TypeOK, net, data, hist
<1>11. CASE GreetThrows
  BY <1>1, <1>11 DEF GreetThrows, TypeOK, net, asio, data, hist
<1>12. QED
  BY <1>1, <1>4, <1>5, <1>6, <1>7, <1>8, <1>9, <1>10, <1>11 DEF Accepting

\* The steps of the read handler.
LEMMA TypeReading == ASSUME NEW c \in Conns PROVE TypeOK /\ Reading(c) => TypeOK'
<1>1. SUFFICES ASSUME TypeOK, Reading(c) PROVE TypeOK'
  OBVIOUS
<1>2. Io \in Threads /\ stack \in [Threads -> Seq(Frame)]
  BY <1>1, IoIsThread DEF TypeOK
<1>3. c # NoConn /\ Idle \in ReadState
  BY ConstantsAssumption DEF ReadState
<1>4. [reads EXCEPT ![c] = Idle] \in [Conns -> ReadState]
  BY <1>1, <1>3 DEF TypeOK
<1>5. ASSUME NEW f \in Frame, Handle(c, f) PROVE stack' \in [Threads -> Seq(Frame)]
  <2>1. FrameAt("rearm", "none", c, NoName) \in Frame
    BY <1>3, FrameAtType DEF Labels
  <2>2. <<FrameAt("rearm", "none", c, NoName), f>> \in Seq(Frame)
    BY <1>5, <2>1
  <2>3. QED
    BY <1>2, <1>5, <2>2 DEF Handle
<1>6. CASE OnReadError(c)
  <2>1. FrameAt("remove", "none", c, NoName) \in Frame
    BY <1>3, FrameAtType DEF Labels
  <2>2. stack' \in [Threads -> Seq(Frame)]
    BY <1>2, <1>6, <2>1, PushType DEF OnReadError
  <2>3. QED
    BY <1>1, <1>4, <1>6, <2>2 DEF OnReadError, TypeOK, net, data, hist
<1>7. CASE OnBlank(c)
  <2>1. reads' \in [Conns -> ReadState]
    BY <1>1, <1>7, ReadClientMessageType DEF OnBlank
  <2>2. QED
    BY <1>1, <1>7, <2>1 DEF OnBlank, TypeOK, net, data, hist
<1>8. CASE OnUnparsable(c) \/ OnOddMessage(c)
  BY <1>1, <1>4, <1>8 DEF OnUnparsable, OnOddMessage, TypeOK, net, data, hist
<1>9. CASE OnFirstText(c)
  <2>1. UserOf[c] \in Names \cup {NoName}
    BY ConstantsAssumption
  <2>2. FrameAt("bcast", "joined", c, UserOf[c]) \in Frame
    BY <1>3, <2>1, FrameAtType DEF Labels, LineKinds
  <2>3. stack' \in [Threads -> Seq(Frame)]
    BY <1>5, <1>9, <2>2 DEF OnFirstText
  <2>4. username' \in [Conns -> Names \cup {NoName}]
    BY <1>1, <1>9, <2>1 DEF OnFirstText, TypeOK
  <2>5. QED
    BY <1>1, <1>4, <1>9, <2>3, <2>4 DEF OnFirstText, Handle, TypeOK, net, hist
<1>10. CASE OnText(c)
  <2>1. FrameAt("bcast", "chat", c, username[c]) \in Frame
    BY <1>1, <1>3, FrameAtType DEF Labels, LineKinds, TypeOK
  <2>2. stack' \in [Threads -> Seq(Frame)]
    BY <1>5, <1>10, <2>1 DEF OnText
  <2>3. QED
    BY <1>1, <1>4, <1>10, <2>2 DEF OnText, Handle, TypeOK, net, hist
<1>11. CASE OnDirectMessage(c)
  <2>1. reads[c].to \in Names \cup {NoName}
    BY <1>1, <1>11 DEF TypeOK, ReadState, Idle, Armed, Eof, Message
  <2>2. FrameAt("dm", "dm", c, reads[c].to) \in Frame
    BY <1>3, <2>1, FrameAtType DEF Labels, LineKinds
  <2>3. stack' \in [Threads -> Seq(Frame)]
    BY <1>5, <1>11, <2>2 DEF OnDirectMessage
  <2>4. QED
    BY <1>1, <1>4, <1>11, <2>3 DEF OnDirectMessage, Handle, TypeOK, net, hist
<1>12. QED
  BY <1>1, <1>6, <1>7, <1>8, <1>9, <1>10, <1>11 DEF Reading

\* The steps of a direct message, and starting the next read after a message.
LEMMA TypeDirect == TypeOK /\ (Direct \/ Rearm) => TypeOK'
<1>1. SUFFICES ASSUME TypeOK, Direct \/ Rearm PROVE TypeOK'
  OBVIOUS
<1>2. Io \in Threads /\ stack \in [Threads -> Seq(Frame)]
  BY <1>1, IoIsThread DEF TypeOK
<1>3. stack[Io] # <<>> =>
        /\ Top(Io) \in Frame
        /\ Top(Io).at \in {"dm", "rearm"} => Top(Io).c \in Conns \ {NoConn}
  BY <1>2, TopType, FrameConn, ConstantsAssumption, Zenon
<1>4. ASSUME NEW c, stack[Io] # <<>>, WriteDirect(c)
      PROVE  inbox' \in [Conns -> Seq(Nat)]
  <2>1. Top(Io).id \in Nat
    BY <1>3, <1>4 DEF Frame
  <2>2. QED
    BY <1>1, <1>4, <2>1, DeliverType DEF WriteDirect, TypeOK
<1>5. CASE StartDirect
  <2> DEFINE f    == Top(Io)
             it   == FindClient(f.name)
             kind == IF it = 0 THEN "nouser" ELSE "dm"
             whom == IF it = 0 THEN f.c ELSE m_clients[it]
             g    == [f EXCEPT !.at = IF it = 0 THEN "nouser" ELSE "dmsend",
                               !.kind = kind, !.id = Len(log) + 1, !.next = it]
             line == [kind |-> kind, by |-> f.c, who |-> username[f.c], to |-> {whom}]
  <2>1. stack[Io] # <<>> /\ f \in Frame /\ f.c \in Conns \ {NoConn}
    BY <1>3, <1>5 DEF StartDirect, At
  <2>2. it = 0 \/ it \in 1..Len(m_clients)
    BY <1>1, FindClientFacts DEF TypeOK
  <2>3. Len(m_clients) \in Nat /\ Len(log) \in Nat
    BY <1>1, LenProperties DEF TypeOK
  <2>4. whom \in Conns
    BY <1>1, <2>1, <2>2, ElementOfSeq DEF TypeOK
  <2>5. g \in Frame
    <3>1. it \in Nat /\ Len(log) + 1 \in Nat
      BY <2>2, <2>3
    <3>2. g \in [at : Labels, kind : LineKinds \cup {"none"}, c : Conns \cup {NoConn},
                 name : Names \cup {NoName}, id : Nat, next : Nat]
      BY <2>1, <3>1 DEF Frame, Labels, LineKinds
    <3>3. g.at \in {"nouser", "dmsend"} /\ g.c = f.c
      BY <2>1 DEF Frame
    <3>4. QED
      BY <2>1, <3>2, <3>3 DEF Frame
  <2>6. stack' \in [Threads -> Seq(Frame)]
    BY <1>2, <1>5, <2>1, <2>5, GotoType DEF StartDirect
  <2>7. line \in Line
    BY <1>1, <2>1, <2>4 DEF Line, LineKinds, TypeOK
  <2>8. log' \in Seq(Line)
    BY <1>1, <1>5, <2>7, AppendProperties DEF StartDirect, TypeOK
  <2>9. QED
    BY <1>1, <1>2, <1>5, <2>6, <2>8
       DEF StartDirect, Lock, TypeOK, net, asio, data
<1>6. CASE SendDirect
  <2>1. stack' \in [Threads -> Seq(Frame)]
    BY <1>2, <1>6, ReturnType DEF SendDirect, At
  <2>2. inbox' \in [Conns -> Seq(Nat)]
    BY <1>4, <1>6 DEF SendDirect, At
  <2>3. QED
    BY <1>1, <1>6, <2>1, <2>2 DEF SendDirect, Unlock, TypeOK, net, asio, data
<1>7. CASE SendNotFound
  <2>1. stack' \in [Threads -> Seq(Frame)]
    BY <1>2, <1>7, ReturnType DEF SendNotFound, At
  <2>2. inbox' \in [Conns -> Seq(Nat)]
    BY <1>4, <1>7 DEF SendNotFound, At
  <2>3. QED
    BY <1>1, <1>7, <2>1, <2>2 DEF SendNotFound, Unlock, TypeOK, net, asio, data
<1>8. CASE Rearm
  <2>1. stack' \in [Threads -> Seq(Frame)]
    BY <1>2, <1>8, ReturnType DEF Rearm, At
  <2>2. reads' \in [Conns -> ReadState]
    BY <1>1, <1>3, <1>8, ReadClientMessageType DEF Rearm, At
  <2>3. QED
    BY <1>1, <1>8, <2>1, <2>2 DEF Rearm, TypeOK, net, data, hist
<1>9. QED
  BY <1>1, <1>5, <1>6, <1>7, <1>8 DEF Direct

\* The steps of broadcastMessage and removeClient.
LEMMA TypeBroadcasting ==
  ASSUME NEW t \in Threads PROVE TypeOK /\ Broadcasting(t) => TypeOK'
<1>1. SUFFICES ASSUME TypeOK, Broadcasting(t) PROVE TypeOK'
  OBVIOUS
<1>2. stack \in [Threads -> Seq(Frame)] /\ m_clients \in Seq(Conns)
  BY <1>1 DEF TypeOK
<1>3. stack[t] # <<>> =>
        /\ Top(t) \in Frame
        /\ Top(t).at \in {"remove", "erase"} => Top(t).c \in Conns \ {NoConn}
  BY <1>2, TopType, FrameConn, ConstantsAssumption, Zenon
<1>4. Sending(t) =>
        /\ stack[t] # <<>> /\ Target(t) \in Conns \ {NoConn}
        /\ Advanced(t) \in Frame
  <2>1. SUFFICES ASSUME Sending(t)
                 PROVE  Target(t) \in Conns \ {NoConn} /\ Advanced(t) \in Frame
    BY DEF Sending, At
  <2>2. Top(t) \in Frame /\ Top(t).next \in 1..Len(m_clients)
    BY <1>2, <1>3, <2>1, LenProperties DEF Sending, At, Frame
  <2>3. Target(t) \in Conns
    BY <1>2, <2>2, ElementOfSeq DEF Target
  <2>4. Advanced(t) \in Frame
    BY <2>2 DEF Advanced, Frame
  <2>5. QED
    BY <2>3, <2>4, ConstantsAssumption
<1>5. CASE StartBroadcast(t)
  <2> DEFINE f    == Top(t)
             g    == [f EXCEPT !.at = "sending", !.id = Len(log) + 1, !.next = 1]
             line == [kind |-> f.kind, by |-> f.c, who |-> f.name, to |-> Range(m_clients)]
  <2>1. stack[t] # <<>> /\ f \in Frame /\ f.at = "bcast"
    BY <1>3, <1>5 DEF StartBroadcast, At
  <2>2. Len(log) \in Nat
    BY <1>1, LenProperties DEF TypeOK
  <2>3. g \in Frame
    <3>1. Len(log) + 1 \in Nat
      BY <2>2
    <3>2. QED
      BY <2>1, <3>1, SendingType, Zenon
  <2>4. stack' \in [Threads -> Seq(Frame)]
    BY <1>2, <1>5, <2>1, <2>3, GotoType DEF StartBroadcast
  <2>5. Range(m_clients) \subseteq Conns
    BY <1>2, LenProperties, ElementOfSeq DEF Range
  <2>6. line \in Line
    BY <2>1, <2>5 DEF Frame, Line
  <2>7. log' \in Seq(Line)
    BY <1>1, <1>5, <2>6, AppendProperties DEF StartBroadcast, TypeOK
  <2>8. QED
    BY <1>1, <1>5, <2>4, <2>7 DEF StartBroadcast, Lock, TypeOK, net, asio, data
<1>6. CASE SkipExcluded(t)
  <2>1. stack' \in [Threads -> Seq(Frame)]
    BY <1>2, <1>4, <1>6, GotoType DEF SkipExcluded
  <2>2. QED
    BY <1>1, <1>6, <2>1 DEF SkipExcluded, TypeOK, net, asio, data, hist
<1>7. CASE SendLine(t)
  <2>1. stack' \in [Threads -> Seq(Frame)]
    BY <1>2, <1>4, <1>7, GotoType DEF SendLine
  <2>2. Top(t).id \in Nat
    BY <1>3, <1>4, <1>7 DEF SendLine, Frame
  <2>3. inbox' \in [Conns -> Seq(Nat)]
    BY <1>1, <1>7, <2>2, DeliverType DEF SendLine
  <2>4. QED
    BY <1>1, <1>7, <2>1, <2>3 DEF SendLine, TypeOK, net, asio, data
<1>8. CASE SendLineFails(t)
  <2>1. FrameAt("remove", "none", Target(t), NoName) \in Frame
    BY <1>4, <1>8, FrameAtType DEF SendLineFails, Labels
  <2>2. stack' \in [Threads -> Seq(Frame)]
    BY <1>2, <1>4, <1>8, <2>1, CallType DEF SendLineFails
  <2>3. failed' \in SUBSET Conns
    BY <1>1, <1>4, <1>8 DEF SendLineFails, TypeOK
  <2>4. QED
    BY <1>1, <1>8, <2>2, <2>3 DEF SendLineFails, TypeOK, net, asio, data
<1>9. CASE EndBroadcast(t)
  <2>1. stack' \in [Threads -> Seq(Frame)]
    BY <1>2, <1>9, ReturnType DEF EndBroadcast, At
  <2>2. QED
    BY <1>1, <1>9, <2>1 DEF EndBroadcast, Unlock, TypeOK, net, asio, data, hist
<1>10. CASE RemoveClient(t)
  <2> DEFINE f == Top(t)
             g == [f EXCEPT !.at = "erase"]
  <2>1. stack[t] # <<>> /\ f \in Frame /\ f.c \in Conns \ {NoConn}
    BY <1>3, <1>10 DEF RemoveClient, At
  <2>2. g \in Frame
    BY <2>1, MoveToType DEF Labels
  <2>3. FrameAt("bcast", "left", f.c, username[f.c]) \in Frame
    BY <1>1, <2>1, FrameAtType DEF Labels, LineKinds, TypeOK
  <2>4. stack' \in [Threads -> Seq(Frame)]
    <3>1. CASE Call(t, g, FrameAt("bcast", "left", f.c, username[f.c]))
      BY <1>2, <2>1, <2>2, <2>3, <3>1, CallType
    <3>2. CASE Goto(t, g)
      BY <1>2, <2>1, <2>2, <3>2, GotoType
    <3>3. QED
      BY <1>10, <3>1, <3>2 DEF RemoveClient
  <2>5. QED
    BY <1>1, <1>10, <2>4 DEF RemoveClient, TypeOK, net, asio, data, hist
<1>11. CASE EraseClient(t)
  <2>1. stack' \in [Threads -> Seq(Frame)]
    BY <1>2, <1>11, ReturnType DEF EraseClient, At
  <2>2. m_clients' \in Seq(Conns)
    BY <1>2, <1>11, RemoveFirstFacts DEF EraseClient
  <2>3. QED
    BY <1>1, <1>11, <2>1, <2>2, CloseSocketsType
       DEF EraseClient, TypeOK, net, hist
<1>12. QED
  BY <1>1, <1>5, <1>6, <1>7, <1>8, <1>9, <1>10, <1>11 DEF Broadcasting

\* The public interface, called from another thread.
LEMMA TypeCaller ==
  ASSUME NEW t \in Callers
  PROVE  TypeOK /\ (CallBroadcast(t) \/ CallShutdown(t) \/ Shutdown(t)) => TypeOK'
<1>1. SUFFICES ASSUME TypeOK, CallBroadcast(t) \/ CallShutdown(t) \/ Shutdown(t)
               PROVE  TypeOK'
  OBVIOUS
<1>2. t \in Threads /\ stack \in [Threads -> Seq(Frame)]
  BY <1>1 DEF TypeOK, Threads
<1>3. CASE CallBroadcast(t)
  <2>1. FrameAt("bcast", "notice", NoConn, NoName) \in Frame
    BY FrameAtType DEF Labels, LineKinds
  <2>2. stack' \in [Threads -> Seq(Frame)]
    BY <1>2, <1>3, <2>1, PushType DEF CallBroadcast
  <2>3. QED
    BY <1>1, <1>3, <2>2 DEF CallBroadcast, TypeOK, net, asio, data, hist
<1>4. CASE CallShutdown(t)
  <2>1. FrameAt("shutdown", "none", NoConn, NoName) \in Frame
    BY FrameAtType DEF Labels, LineKinds
  <2>2. stack' \in [Threads -> Seq(Frame)]
    BY <1>2, <1>4, <2>1, PushType DEF CallShutdown
  <2>3. m_running' \in BOOLEAN /\ calls' \in Nat
    <3>1. m_running' = FALSE
      BY <1>4 DEF CallShutdown
    <3>2. calls' \in Nat
      BY <1>1, <1>4 DEF CallShutdown, TypeOK
    <3>3. QED
      BY <3>1, <3>2, Zenon
  <2>4. QED
    BY <1>1, <1>4, <2>2, <2>3 DEF CallShutdown, TypeOK, net, asio, hist
<1>5. CASE Shutdown(t)
  <2>1. stack' \in [Threads -> Seq(Frame)]
    BY <1>2, <1>5, ReturnType DEF Shutdown, At
  <2>2. acceptor' \in Acceptor
    BY <1>1, <1>5 DEF Shutdown, TypeOK, Acceptor
  <2>3. m_clients' \in Seq(Conns)
    BY <1>5, EmptySeq DEF Shutdown
  <2>4. QED
    BY <1>1, <1>5, <2>1, <2>2, <2>3, CloseSocketsType
       DEF Shutdown, TypeOK, net, hist
<1>6. QED
  BY <1>1, <1>3, <1>4, <1>5

\* Completions of asynchronous operations, and the peers.
LEMMA TypeEnvironment ==
  ASSUME NEW c \in Conns
  PROVE  TypeOK /\ (Completion(c) \/ Peers(c)) => TypeOK'
<1>1. SUFFICES ASSUME TypeOK, Completion(c) \/ Peers(c) PROVE TypeOK'
  OBVIOUS
<1>2. CASE AcceptCompletes(c)
  <2>1. acceptor' \in Acceptor
    BY <1>1, <1>2 DEF AcceptCompletes, TypeOK, Acceptor
  <2>2. QED
    BY <1>1, <1>2, <2>1 DEF AcceptCompletes, TypeOK, net, data, hist
<1>3. CASE ReadCompletes(c)
  <2>1. PICK n \in 1..Len(uplink[c]) :
          /\ reads' = [reads EXCEPT ![c] = Chunk(SubSeq(uplink[c], 1, n))]
          /\ uplink' = [uplink EXCEPT ![c] = SubSeq(@, n + 1, Len(@))]
    BY <1>3 DEF ReadCompletes
  <2>2. uplink[c] \in Seq(Message) /\ Len(uplink[c]) \in Nat
    BY <1>1, LenProperties DEF TypeOK
  <2>3. \A i \in 1..Len(uplink[c]) : uplink[c][i] \in Message
    BY <2>2, ElementOfSeq
  <2>4. SubSeq(uplink[c], 1, n) \in Seq(Message)
        /\ SubSeq(uplink[c], n + 1, Len(uplink[c])) \in Seq(Message)
    BY <2>2, <2>3, SubSeqProperties
  <2>5. reads' \in [Conns -> ReadState]
    BY <1>1, <2>1, <2>4, ChunkType DEF TypeOK, ReadState
  <2>6. uplink' \in [Conns -> Seq(Message)]
    BY <1>1, <2>1, <2>4 DEF TypeOK
  <2>7. QED
    BY <1>1, <1>3, <2>5, <2>6 DEF ReadCompletes, TypeOK, data, hist
<1>4. CASE ReadSplits(c)
  <2>1. reads' \in [Conns -> ReadState]
    BY <1>1, <1>4 DEF ReadSplits, TypeOK, ReadState, Raw, Message
  <2>2. QED
    BY <1>1, <1>4, <2>1 DEF ReadSplits, TypeOK, net, data, hist
<1>5. CASE ReadFails(c)
  <2>1. reads' \in [Conns -> ReadState]
    BY <1>1, <1>5 DEF ReadFails, TypeOK, ReadState
  <2>2. QED
    BY <1>1, <1>5, <2>1 DEF ReadFails, TypeOK, net, data, hist
<1>6. CASE PeerConnect(c)
  BY <1>1, <1>6 DEF PeerConnect, TypeOK, asio, data, hist
<1>7. CASE \E m \in Inputs : PeerSend(c, m)
  <2>1. PICK m \in Inputs : PeerSend(c, m)
    BY <1>7
  <2>2. Append(uplink[c], m) \in Seq(Message)
    BY <1>1, AppendProperties, ConstantsAssumption DEF TypeOK
  <2>3. uplink' \in [Conns -> Seq(Message)] /\ sent' \in Nat
    BY <1>1, <2>1, <2>2 DEF PeerSend, TypeOK
  <2>4. QED
    BY <1>1, <2>1, <2>3 DEF PeerSend, TypeOK, asio, data, hist
<1>8. CASE PeerRead(c)
  <2>1. PICK n \in 1..(Len(inbox[c]) - seen[c]) : seen' = [seen EXCEPT ![c] = @ + n]
    BY <1>8 DEF PeerRead
  <2>2. n \in Nat
    BY <1>1, <2>1, LenProperties DEF TypeOK
  <2>3. seen' \in [Conns -> Nat]
    BY <1>1, <2>1, <2>2 DEF TypeOK
  <2> QED
    BY <1>1, <1>8, <2>3 DEF PeerRead, TypeOK, asio, data, hist
<1>9. CASE PeerLeave(c)
  BY <1>1, <1>9 DEF PeerLeave, TypeOK, asio, data, hist
<1>10. QED
  BY <1>1, <1>2, <1>3, <1>4, <1>5, <1>6, <1>7, <1>8, <1>9
     DEF Completion, Peers

LEMMA TypeStep == TypeOK /\ [Next]_vars => TypeOK'
<1>1. SUFFICES ASSUME TypeOK, [Next]_vars PROVE TypeOK'
  OBVIOUS
<1>2. Io \in Threads /\ Callers \subseteq Threads
  BY DEF Threads
<1>3. CASE IoStep
  <2>1. CASE RunReturns
    BY <1>1, <2>1 DEF RunReturns, TypeOK, net, asio, data, hist
  <2>2. QED
    BY <1>1, <1>2, <1>3, <2>1, TypeAccepting, TypeDirect, TypeBroadcasting,
       TypeReading DEF IoStep
<1>4. CASE \E t \in Callers : CallerStep(t) \/ CallBroadcast(t) \/ CallShutdown(t)
  BY <1>1, <1>2, <1>4, TypeCaller, TypeBroadcasting DEF CallerStep
<1>5. CASE \E c \in Conns : Completion(c) \/ Peers(c)
  BY <1>1, <1>5, TypeEnvironment
<1>6. CASE AcceptFails
  <2>1. acceptor' \in Acceptor
    BY <1>1, <1>6 DEF AcceptFails, TypeOK, Acceptor
  <2>2. QED
    BY <1>1, <1>6, <2>1 DEF AcceptFails, TypeOK, net, data, hist
<1>7. CASE UNCHANGED vars
  BY <1>1, <1>7 DEF vars, TypeOK, net, asio, data, hist
<1>8. QED
  BY <1>1, <1>3, <1>4, <1>5, <1>6, <1>7 DEF Next

\* Every variable of the server keeps the type its declaration promises; in
\* particular every call of a handler is made for an accepted connection.
THEOREM TypeCorrect == Spec => []TypeOK
<1>1. Init => TypeOK
  BY TypeInit
<1>2. TypeOK /\ [Next]_vars => TypeOK'
  BY TypeStep
<1>3. QED
  BY <1>1, <1>2, PTL DEF Spec

-----------------------------------------------------------------------------
(***************************************************************************)
(* The positions of a call stack at which one of the labels L stands, and  *)
(* how a call, a return and a change of the innermost record affect them.  *)
(***************************************************************************)
Places(s, L) == {i \in DOMAIN s : s[i].at \in L}

LEMMA PlacesCall ==
  ASSUME NEW S, NEW s \in Seq(S), NEW f, NEW L, f.at \notin L
  PROVE  Places(Append(s, f), L) = Places(s, L)
<1> DEFINE T == S \cup {f}
<1>0. s \in Seq(T) /\ f \in T
  BY SeqMonotonic
<1>1. /\ DOMAIN s = 1..Len(s) /\ Len(s) \in Nat
      /\ DOMAIN Append(s, f) = 1..(Len(s) + 1)
      /\ Append(s, f)[Len(s) + 1] = f
      /\ \A i \in 1..Len(s) : Append(s, f)[i] = s[i]
  BY <1>0, LenProperties, AppendProperties
<1>2. QED
  BY <1>1 DEF Places

LEMMA PlacesReturn ==
  ASSUME NEW S, NEW s \in Seq(S), s # <<>>, NEW L
  PROVE  Places(Front(s), L) = Places(s, L) \ {Len(s)}
<1>1. DOMAIN s = 1..Len(s) /\ Len(s) \in Nat
  BY LenProperties
<1>2. /\ Front(s) \in Seq(S) /\ Len(Front(s)) = Len(s) - 1
      /\ \A i \in 1..(Len(s) - 1) : Front(s)[i] = s[i]
  BY FrontFacts
<1>3. DOMAIN Front(s) = 1..(Len(s) - 1)
  BY <1>2, LenProperties
<1>4. QED
  BY <1>1, <1>2, <1>3 DEF Places

LEMMA PlacesReplace ==
  ASSUME NEW S, NEW s \in Seq(S), s # <<>>, NEW f, NEW L
  PROVE  /\ f.at \in L =>
              Places(ReplaceAt(s, Len(s), f), L) = Places(s, L) \cup {Len(s)}
         /\ f.at \notin L =>
              Places(ReplaceAt(s, Len(s), f), L) = Places(s, L) \ {Len(s)}
<1> DEFINE T == S \cup {f}
           r == ReplaceAt(s, Len(s), f)
<1>0. s \in Seq(T) /\ f \in T
  BY SeqMonotonic
<1>1. DOMAIN s = 1..Len(s) /\ Len(s) \in 1..Len(s)
  BY LenProperties, FrontFacts
<1>2. /\ r \in Seq(T) /\ Len(r) = Len(s)
      /\ \A i \in 1..Len(s) : r[i] = IF i = Len(s) THEN f ELSE s[i]
  BY <1>0, <1>1, ExceptSeq DEF ReplaceAt
<1>3. DOMAIN r = 1..Len(s)
  BY <1>2, LenProperties
<1> HIDE DEF r
<1>4. /\ f.at \in L => Places(r, L) = Places(s, L) \cup {Len(s)}
      /\ f.at \notin L => Places(r, L) = Places(s, L) \ {Len(s)}
  BY <1>1, <1>2, <1>3 DEF Places
<1>5. QED
  BY <1>4 DEF r

-----------------------------------------------------------------------------
(***************************************************************************)
(* The four ways a step of thread t changes its call stack.                *)
(***************************************************************************)
OthersKeepStack(t) == \A u \in Threads : u # t => stack'[u] = stack[u]

LEMMA PushPlaces ==
  ASSUME TypeOK, NEW t \in Threads, NEW f, Push(t, f), NEW L, f.at \notin L
  PROVE  /\ OthersKeepStack(t)
         /\ Places(stack'[t], L) = Places(stack[t], L)
<1>1. stack[t] \in Seq(Frame) /\ stack'[t] = Append(stack[t], f)
  BY DEF TypeOK, Push
<1>2. OthersKeepStack(t)
  BY DEF TypeOK, Push, OthersKeepStack
<1>3. QED
  BY <1>1, <1>2, PlacesCall

LEMMA ReturnPlaces ==
  ASSUME TypeOK, NEW t \in Threads, stack[t] # <<>>, Return(t), NEW L
  PROVE  /\ OthersKeepStack(t)
         /\ Places(stack'[t], L) = Places(stack[t], L) \ {Len(stack[t])}
<1>1. stack[t] \in Seq(Frame) /\ stack'[t] = Front(stack[t])
  BY DEF TypeOK, Return
<1>2. OthersKeepStack(t)
  BY DEF TypeOK, Return, OthersKeepStack
<1>3. QED
  BY <1>1, <1>2, PlacesReturn

LEMMA GotoPlaces ==
  ASSUME TypeOK, NEW t \in Threads, stack[t] # <<>>, NEW f, Goto(t, f), NEW L
  PROVE  /\ OthersKeepStack(t)
         /\ f.at \in L =>
              Places(stack'[t], L) = Places(stack[t], L) \cup {Len(stack[t])}
         /\ f.at \notin L =>
              Places(stack'[t], L) = Places(stack[t], L) \ {Len(stack[t])}
<1>1. /\ stack[t] \in Seq(Frame)
      /\ stack'[t] = ReplaceAt(stack[t], Len(stack[t]), f)
  BY DEF TypeOK, Goto
<1>2. OthersKeepStack(t)
  BY DEF TypeOK, Goto, OthersKeepStack
<1>3. QED
  BY <1>1, <1>2, PlacesReplace

LEMMA CallPlaces ==
  ASSUME TypeOK, NEW t \in Threads, stack[t] # <<>>, NEW f, NEW g,
         Call(t, f, g), NEW L, g.at \notin L
  PROVE  /\ OthersKeepStack(t)
         /\ f.at \in L =>
              Places(stack'[t], L) = Places(stack[t], L) \cup {Len(stack[t])}
         /\ f.at \notin L =>
              Places(stack'[t], L) = Places(stack[t], L) \ {Len(stack[t])}
<1> DEFINE r == ReplaceAt(stack[t], Len(stack[t]), f)
<1>1. stack[t] \in Seq(Frame) /\ stack'[t] = Append(r, g)
  BY DEF TypeOK, Call
<1>2. OthersKeepStack(t)
  BY DEF TypeOK, Call, OthersKeepStack
<1>3. r \in Seq(Frame \cup {f})
  <2>1. stack[t] \in Seq(Frame \cup {f}) /\ f \in Frame \cup {f}
    BY <1>1, SeqMonotonic
  <2>2. Len(stack[t]) \in 1..Len(stack[t])
    BY <1>1, FrontFacts
  <2>3. QED
    BY <2>1, <2>2, ExceptSeq DEF ReplaceAt
<1>4. Places(stack'[t], L) = Places(r, L)
  BY <1>1, <1>3, PlacesCall
<1>5. QED
  BY <1>1, <1>2, <1>4, PlacesReplace

\* Whether the innermost record stands at one of the labels L.
LEMMA TopPlace ==
  ASSUME TypeOK, NEW t \in Threads, stack[t] # <<>>, NEW L
  PROVE  Len(stack[t]) \in Places(stack[t], L) <=> Top(t).at \in L
<1>1. stack[t] \in Seq(Frame)
  BY DEF TypeOK
<1>2. /\ Top(t) = stack[t][Len(stack[t])]
      /\ Len(stack[t]) \in 1..Len(stack[t])
  BY TopType DEF TypeOK
<1>3. DOMAIN stack[t] = 1..Len(stack[t])
  BY <1>1, LenProperties
<1>4. QED
  BY <1>2, <1>3 DEF Places

-----------------------------------------------------------------------------
(* The mutex.                                                               *)

Scopes(t) == Places(stack[t], LockedAt)

\* MutexHeldInScope in terms of the open scopes of each thread.
ScopeInv ==
  \A t \in Threads :
    /\ m_clientsMutex = t <=> Scopes(t) # {}
    /\ \A i, j \in Scopes(t) : i = j

LEMMA ScopeInvMeaning == ScopeInv <=> MutexHeldInScope
<1>1. ASSUME NEW t \in Threads
      PROVE  Scopes(t) # {} <=> \E f \in Range(stack[t]) : f.at \in LockedAt
  BY DEF Scopes, Places, Range
<1>2. ASSUME NEW t \in Threads
      PROVE  (\A i, j \in Scopes(t) : i = j) <=>
               \A i, j \in DOMAIN stack[t] :
                 stack[t][i].at \in LockedAt /\ stack[t][j].at \in LockedAt => i = j
  BY DEF Scopes, Places
<1>3. QED
  BY <1>1, <1>2 DEF ScopeInv, MutexHeldInScope

\* A step of t that neither takes nor releases the mutex.
LEMMA ScopeKept ==
  ASSUME ScopeInv, NEW t \in Threads, OthersKeepStack(t),
         Places(stack'[t], LockedAt) = Scopes(t),
         UNCHANGED m_clientsMutex
  PROVE  ScopeInv'
<1>1. \A u \in Threads : Scopes(u)' = Scopes(u)
  BY DEF Scopes, OthersKeepStack
<1>2. QED
  BY <1>1 DEF ScopeInv

\* t enters a lock_guard scope: the mutex was free, so t had no scope open.
LEMMA ScopeEntered ==
  ASSUME ScopeInv, NEW t \in Threads, OthersKeepStack(t), NEW i,
         Places(stack'[t], LockedAt) = Scopes(t) \cup {i}, Lock(t)
  PROVE  ScopeInv'
<1>1. \A u \in Threads : u # t => Scopes(u)' = Scopes(u)
  BY DEF Scopes, OthersKeepStack
<1>2. \A u \in Threads : m_clientsMutex # u /\ Scopes(u) = {}
  BY ConstantsAssumption DEF ScopeInv, Lock, CanLock
<1>3. Scopes(t)' = {i}
  BY <1>2 DEF Scopes
<1>4. m_clientsMutex' = t
  BY DEF Lock
<1>5. QED
  BY <1>1, <1>2, <1>3, <1>4 DEF ScopeInv

\* t leaves a scope: it was the only one.
LEMMA ScopeLeft ==
  ASSUME ScopeInv, NEW t \in Threads, OthersKeepStack(t), NEW i \in Scopes(t),
         Places(stack'[t], LockedAt) = Scopes(t) \ {i}, Unlock
  PROVE  ScopeInv'
<1>1. \A u \in Threads : u # t => Scopes(u)' = Scopes(u)
  BY DEF Scopes, OthersKeepStack
<1>2. m_clientsMutex = t
  BY DEF ScopeInv
<1>3. \A u \in Threads : u # t => Scopes(u) = {}
  BY <1>2 DEF ScopeInv
<1>4. Scopes(t)' = {}
  BY DEF Scopes, ScopeInv
<1>5. m_clientsMutex' = Nobody /\ Nobody \notin Threads
  BY ConstantsAssumption DEF Unlock
<1>6. QED
  BY <1>1, <1>3, <1>4, <1>5 DEF ScopeInv

\* What the type invariant says of the innermost record of a running call.
LEMMA TopFrame ==
  ASSUME TypeOK, NEW t \in Threads, stack[t] # <<>>
  PROVE  /\ Top(t) \in Frame
         /\ \A at : [Top(t) EXCEPT !.at = at].at = at
         /\ Advanced(t).at = Top(t).at
<1>1. Top(t) \in Frame
  BY TopType DEF TypeOK
<1>2. Top(t) \in [at : Labels, kind : LineKinds \cup {"none"}, c : Conns \cup {NoConn},
                   name : Names \cup {NoName}, id : Nat, next : Nat]
  BY <1>1 DEF Frame
<1>3. \A at : [Top(t) EXCEPT !.at = at].at = at
  BY <1>2
<1>4. Advanced(t).at = Top(t).at
  BY <1>2 DEF Advanced
<1>5. QED
  BY <1>1, <1>3, <1>4

\* A step that leaves the call stacks and the mutex alone.
LEMMA ScopeStutter ==
  ASSUME ScopeInv, UNCHANGED <<stack, m_clientsMutex>>
  PROVE  ScopeInv'
BY DEF ScopeInv, Scopes

\* Entering a function outside any lock_guard scope.
LEMMA ScopePush ==
  ASSUME TypeOK, ScopeInv, NEW t \in Threads, NEW f, f.at \notin LockedAt,
         Push(t, f), UNCHANGED m_clientsMutex
  PROVE  ScopeInv'
BY PushPlaces, ScopeKept DEF Scopes

\* Returning from a call that holds nothing.
LEMMA ScopeReturn ==
  ASSUME TypeOK, ScopeInv, NEW t \in Threads, stack[t] # <<>>,
         Top(t).at \notin LockedAt, Return(t), UNCHANGED m_clientsMutex
  PROVE  ScopeInv'
<1>1. Len(stack[t]) \notin Scopes(t)
  BY TopPlace DEF Scopes
<1>2. /\ OthersKeepStack(t)
      /\ Places(stack'[t], LockedAt) = Scopes(t) \ {Len(stack[t])}
  BY ReturnPlaces DEF Scopes
<1>3. Places(stack'[t], LockedAt) = Scopes(t)
  BY <1>1, <1>2
<1>4. QED
  BY <1>2, <1>3, ScopeKept

\* Moving on inside or outside a scope, possibly calling a function.
LEMMA ScopeMove ==
  ASSUME TypeOK, ScopeInv, NEW t \in Threads, stack[t] # <<>>, NEW f, NEW g,
         f.at \in LockedAt <=> Top(t).at \in LockedAt, g.at \notin LockedAt,
         Goto(t, f) \/ Call(t, f, g), UNCHANGED m_clientsMutex
  PROVE  ScopeInv'
<1>1. Len(stack[t]) \in Scopes(t) <=> f.at \in LockedAt
  BY TopPlace DEF Scopes
<1>2. /\ OthersKeepStack(t)
      /\ f.at \in LockedAt =>
           Places(stack'[t], LockedAt) = Scopes(t) \cup {Len(stack[t])}
      /\ f.at \notin LockedAt =>
           Places(stack'[t], LockedAt) = Scopes(t) \ {Len(stack[t])}
  BY GotoPlaces, CallPlaces DEF Scopes
<1>3. Places(stack'[t], LockedAt) = Scopes(t)
  BY <1>1, <1>2
<1>4. QED
  BY <1>2, <1>3, ScopeKept

\* lock_guard's constructor and destructor.
LEMMA ScopeLock ==
  ASSUME TypeOK, ScopeInv, NEW t \in Threads, stack[t] # <<>>, NEW f,
         f.at \in LockedAt, Goto(t, f), Lock(t)
  PROVE  ScopeInv'
BY GotoPlaces, ScopeEntered DEF Scopes

LEMMA ScopeUnlock ==
  ASSUME TypeOK, ScopeInv, NEW t \in Threads, stack[t] # <<>>,
         Top(t).at \in LockedAt, Return(t), Unlock
  PROVE  ScopeInv'
<1>1. Len(stack[t]) \in Scopes(t)
  BY TopPlace DEF Scopes
<1>2. QED
  BY <1>1, ReturnPlaces, ScopeLeft DEF Scopes

\* A message handler starts on an empty call stack.
LEMMA ScopeHandle ==
  ASSUME TypeOK, ScopeInv, NEW c, NEW f, f.at \notin LockedAt, IoIdle, Handle(c, f)
  PROVE  ScopeInv'
<1> DEFINE r == FrameAt("rearm", "none", c, NoName)
           s == <<r, f>>
<1>1. Io \in Threads /\ stack[Io] = <<>> /\ stack' = [stack EXCEPT ![Io] = s]
  BY IoIsThread DEF IoIdle, Handle
<1>2. OthersKeepStack(Io) /\ stack'[Io] = s
  BY <1>1 DEF TypeOK, OthersKeepStack
<1>3. r.at \notin LockedAt
  BY DEF FrameAt, LockedAt
<1>4. DOMAIN s = {1, 2} /\ s[1] = r /\ s[2] = f
  OBVIOUS
<1>5. Places(s, LockedAt) = {}
  BY <1>3, <1>4 DEF Places
<1>6. Scopes(Io) = {}
  BY <1>1 DEF Scopes, Places
<1>7. QED
  BY <1>1, <1>2, <1>5, <1>6, ScopeKept DEF Handle

\* The handlers of the io thread.
LEMMA ScopeAccepting == TypeOK /\ ScopeInv /\ Accepting => ScopeInv'
<1>1. SUFFICES ASSUME TypeOK, ScopeInv, Accepting PROVE ScopeInv'
  OBVIOUS
<1>2. Io \in Threads
  BY IoIsThread
<1>3. stack[Io] # <<>> => \A at : [Top(Io) EXCEPT !.at = at].at = at
  BY <1>1, <1>2, TopFrame
<1>4. CASE Start \/ RejectClient \/ GreetClient
  <2>1. stack[Io] # <<>> /\ Top(Io).at \notin LockedAt
    BY <1>4 DEF Start, RejectClient, GreetClient, At, LockedAt
  <2>2. QED
    BY <1>1, <1>2, <1>4, <2>1, ScopeReturn DEF Start, RejectClient, GreetClient
<1>5. CASE OnAccept
  <2>1. FrameAt("admit", "none", acceptor.c, NoName).at \notin LockedAt
    BY DEF FrameAt, LockedAt
  <2>2. QED
    BY <1>1, <1>2, <1>5, <2>1, ScopePush DEF OnAccept
<1>6. CASE OnAcceptError \/ GreetThrows
  BY <1>1, <1>6, ScopeStutter DEF OnAcceptError, GreetThrows
<1>7. CASE AdmitClient
  <2> DEFINE f == [Top(Io) EXCEPT !.at = "push"]
  <2>1. stack[Io] # <<>> /\ Top(Io).at \notin LockedAt /\ f.at \notin LockedAt
    BY <1>3, <1>7 DEF AdmitClient, At, LockedAt
  <2>2. Goto(Io, f) /\ UNCHANGED m_clientsMutex
    BY <1>7 DEF AdmitClient
  <2> HIDE DEF f
  <2>3. QED
    BY <1>1, <1>2, <2>1, <2>2, ScopeMove
<1>8. CASE PushClient
  <2> DEFINE f == [Top(Io) EXCEPT !.at = "greet"]
  <2>1. stack[Io] # <<>> /\ Top(Io).at \notin LockedAt /\ f.at \notin LockedAt
    BY <1>3, <1>8 DEF PushClient, At, LockedAt
  <2>2. Goto(Io, f) /\ UNCHANGED m_clientsMutex
    BY <1>8 DEF PushClient
  <2> HIDE DEF f
  <2>3. QED
    BY <1>1, <1>2, <2>1, <2>2, ScopeMove
<1>9. QED
  BY <1>1, <1>4, <1>5, <1>6, <1>7, <1>8 DEF Accepting

LEMMA ScopeReading ==
  ASSUME NEW c \in Conns PROVE TypeOK /\ ScopeInv /\ Reading(c) => ScopeInv'
<1>1. SUFFICES ASSUME TypeOK, ScopeInv, Reading(c) PROVE ScopeInv'
  OBVIOUS
<1>2. \A kind, name :
        /\ FrameAt("remove", kind, c, name).at \notin LockedAt
        /\ FrameAt("bcast", kind, c, name).at \notin LockedAt
        /\ FrameAt("dm", kind, c, name).at \notin LockedAt
  BY DEF FrameAt, LockedAt
<1>3. CASE OnReadError(c)
  BY <1>1, <1>2, <1>3, IoIsThread, ScopePush DEF OnReadError
<1>4. CASE OnBlank(c) \/ OnUnparsable(c) \/ OnOddMessage(c)
  BY <1>1, <1>4, ScopeStutter DEF OnBlank, OnUnparsable, OnOddMessage
<1>5. CASE OnFirstText(c)
  BY <1>1, <1>2, <1>5, ScopeHandle DEF OnFirstText, ReadDone
<1>6. CASE OnText(c)
  BY <1>1, <1>2, <1>6, ScopeHandle DEF OnText, ReadDone
<1>7. CASE OnDirectMessage(c)
  BY <1>1, <1>2, <1>7, ScopeHandle DEF OnDirectMessage, ReadDone
<1>8. QED
  BY <1>1, <1>3, <1>4, <1>5, <1>6, <1>7 DEF Reading

LEMMA ScopeDirect == TypeOK /\ ScopeInv /\ (Direct \/ Rearm) => ScopeInv'
<1>1. SUFFICES ASSUME TypeOK, ScopeInv, Direct \/ Rearm PROVE ScopeInv'
  OBVIOUS
<1>2. Io \in Threads
  BY IoIsThread
<1>3. CASE StartDirect
  <2> DEFINE it == FindClient(Top(Io).name)
             f  == [Top(Io) EXCEPT !.at = IF it = 0 THEN "nouser" ELSE "dmsend",
                                   !.kind = IF it = 0 THEN "nouser" ELSE "dm",
                                   !.id = Len(log) + 1, !.next = it]
  <2>1. stack[Io] # <<>> /\ Goto(Io, f) /\ Lock(Io)
    BY <1>3 DEF StartDirect, At
  <2>2. Top(Io) \in Frame
    BY <1>1, <1>2, <2>1, TopFrame
  <2>3. f.at \in {"nouser", "dmsend"}
    BY <2>2 DEF Frame
  <2>4. f.at \in LockedAt
    BY <2>3 DEF LockedAt
  <2> HIDE DEF f
  <2>5. QED
    BY <1>1, <1>2, <2>1, <2>4, ScopeLock
<1>4. CASE SendDirect
  <2>1. stack[Io] # <<>> /\ Top(Io).at \in LockedAt /\ Return(Io) /\ Unlock
    BY <1>4 DEF SendDirect, At, LockedAt
  <2>2. QED
    BY <1>1, <1>2, <2>1, ScopeUnlock
<1>5. CASE SendNotFound
  <2>1. stack[Io] # <<>> /\ Top(Io).at \in LockedAt
    BY <1>5 DEF SendNotFound, At, LockedAt
  <2>2. (Return(Io) /\ Unlock) \/ UNCHANGED <<stack, m_clientsMutex>>
    BY <1>5 DEF SendNotFound
  <2>3. QED
    BY <1>1, <1>2, <2>1, <2>2, ScopeUnlock, ScopeStutter
<1>6. CASE Rearm
  <2>1. stack[Io] # <<>> /\ Top(Io).at \notin LockedAt
    BY <1>6 DEF Rearm, At, LockedAt
  <2>2. QED
    BY <1>1, <1>2, <1>6, <2>1, ScopeReturn DEF Rearm
<1>7. QED
  BY <1>1, <1>3, <1>4, <1>5, <1>6 DEF Direct

\* broadcastMessage and removeClient, in any thread.
LEMMA ScopeBroadcasting ==
  ASSUME NEW t \in Threads PROVE TypeOK /\ ScopeInv /\ Broadcasting(t) => ScopeInv'
<1>1. SUFFICES ASSUME TypeOK, ScopeInv, Broadcasting(t) PROVE ScopeInv'
  OBVIOUS
<1>2. stack[t] # <<>> =>
        /\ Top(t) \in Frame
        /\ \A at : [Top(t) EXCEPT !.at = at].at = at
        /\ Advanced(t).at = Top(t).at
  BY <1>1, TopFrame
<1>3. CASE StartBroadcast(t)
  <2> DEFINE f == [Top(t) EXCEPT !.at = "sending", !.id = Len(log) + 1, !.next = 1]
  <2>1. stack[t] # <<>> /\ Goto(t, f) /\ Lock(t)
    BY <1>3 DEF StartBroadcast, At
  <2>2. f.at = "sending"
    BY <1>2, <2>1 DEF Frame
  <2>3. f.at \in LockedAt
    BY <2>2 DEF LockedAt
  <2> HIDE DEF f
  <2>4. QED
    BY <1>1, <2>1, <2>3, ScopeLock
<1>4. CASE SkipExcluded(t) \/ SendLine(t)
  <2>1. stack[t] # <<>> /\ Goto(t, Advanced(t)) /\ UNCHANGED m_clientsMutex
    BY <1>4 DEF SkipExcluded, SendLine, Sending, At
  <2>2. FrameAt("remove", "none", NoConn, NoName).at \notin LockedAt
    BY DEF FrameAt, LockedAt
  <2>3. QED
    BY <1>1, <1>2, <2>1, <2>2, ScopeMove
<1>5. CASE SendLineFails(t)
  <2> DEFINE g == FrameAt("remove", "none", Target(t), NoName)
  <2>1. stack[t] # <<>> /\ Call(t, Advanced(t), g) /\ UNCHANGED m_clientsMutex
    BY <1>5 DEF SendLineFails, Sending, At
  <2>2. g.at \notin LockedAt
    BY DEF FrameAt, LockedAt
  <2> HIDE DEF g
  <2>3. QED
    BY <1>1, <1>2, <2>1, <2>2, ScopeMove
<1>6. CASE EndBroadcast(t)
  <2>1. stack[t] # <<>> /\ Top(t).at \in LockedAt /\ Return(t) /\ Unlock
    BY <1>6 DEF EndBroadcast, At, LockedAt
  <2>2. QED
    BY <1>1, <2>1, ScopeUnlock
<1>7. CASE RemoveClient(t)
  <2> DEFINE f == [Top(t) EXCEPT !.at = "erase"]
             g == FrameAt("bcast", "left", Top(t).c, username[Top(t).c])
  <2>1. stack[t] # <<>> /\ Top(t).at \notin LockedAt
    BY <1>7 DEF RemoveClient, At, LockedAt
  <2>2. f.at \notin LockedAt /\ g.at \notin LockedAt
    BY <1>2, <2>1 DEF FrameAt, LockedAt
  <2>3. (Goto(t, f) \/ Call(t, f, g)) /\ UNCHANGED m_clientsMutex
    BY <1>7 DEF RemoveClient
  <2> HIDE DEF f, g
  <2>4. QED
    BY <1>1, <2>1, <2>2, <2>3, ScopeMove
<1>8. CASE EraseClient(t)
  <2>1. stack[t] # <<>> /\ Top(t).at \notin LockedAt
    BY <1>8 DEF EraseClient, At, LockedAt
  <2>2. QED
    BY <1>1, <1>8, <2>1, ScopeReturn DEF EraseClient
<1>9. QED
  BY <1>1, <1>3, <1>4, <1>5, <1>6, <1>7, <1>8 DEF Broadcasting

LEMMA ScopeCaller ==
  ASSUME NEW t \in Callers
  PROVE  TypeOK /\ ScopeInv /\ (CallBroadcast(t) \/ CallShutdown(t) \/ Shutdown(t))
           => ScopeInv'
<1>1. SUFFICES ASSUME TypeOK, ScopeInv,
                      CallBroadcast(t) \/ CallShutdown(t) \/ Shutdown(t)
               PROVE  ScopeInv'
  OBVIOUS
<1>2. t \in Threads
  BY DEF Threads
<1>3. \A kind : /\ FrameAt("bcast", kind, NoConn, NoName).at \notin LockedAt
                /\ FrameAt("shutdown", kind, NoConn, NoName).at \notin LockedAt
  BY DEF FrameAt, LockedAt
<1>4. CASE CallBroadcast(t) \/ CallShutdown(t)
  BY <1>1, <1>2, <1>3, <1>4, ScopePush DEF CallBroadcast, CallShutdown
<1>5. CASE Shutdown(t)
  <2>1. stack[t] # <<>> /\ Top(t).at \notin LockedAt
    BY <1>5 DEF Shutdown, At, LockedAt
  <2>2. QED
    BY <1>1, <1>2, <1>5, <2>1, ScopeReturn DEF Shutdown
<1>6. QED
  BY <1>1, <1>4, <1>5

LEMMA ScopeStep == TypeOK /\ ScopeInv /\ [Next]_vars => ScopeInv'
<1>1. SUFFICES ASSUME TypeOK, ScopeInv, [Next]_vars PROVE ScopeInv'
  OBVIOUS
<1>2. Io \in Threads /\ Callers \subseteq Threads
  BY DEF Threads
<1>3. CASE IoStep
  <2>1. CASE RunReturns
    BY <1>1, <2>1, ScopeStutter DEF RunReturns
  <2>2. QED
    BY <1>1, <1>2, <1>3, <2>1, ScopeAccepting, ScopeDirect, ScopeBroadcasting,
       ScopeReading DEF IoStep
<1>4. CASE \E t \in Callers : CallerStep(t) \/ CallBroadcast(t) \/ CallShutdown(t)
  BY <1>1, <1>2, <1>4, ScopeCaller, ScopeBroadcasting DEF CallerStep
<1>5. CASE (\E c \in Conns : Completion(c) \/ Peers(c)) \/ AcceptFails
  <2>1. UNCHANGED <<stack, m_clientsMutex>>
    BY <1>5 DEF Completion, Peers, AcceptCompletes, ReadCompletes, ReadSplits,
                ReadFails, PeerConnect, PeerSend, PeerRead, PeerLeave, AcceptFails
  <2>2. QED
    BY <1>1, <2>1, ScopeStutter
<1>6. CASE UNCHANGED vars
  BY <1>1, <1>6, ScopeStutter DEF vars
<1>7. QED
  BY <1>1, <1>3, <1>4, <1>5, <1>6 DEF Next

LEMMA ScopeInit == Init => ScopeInv
<1>1. SUFFICES ASSUME Init PROVE ScopeInv
  OBVIOUS
<1>2. ASSUME NEW t \in Threads PROVE Scopes(t) = {}
  <2> DEFINE f == FrameAt("start", "none", NoConn, NoName)
  <2>1. f.at \notin LockedAt
    BY DEF FrameAt, LockedAt
  <2>2. stack[t] = <<f>> \/ stack[t] = <<>>
    BY <1>1 DEF Init
  <2>3. Places(<<f>>, LockedAt) = {} /\ Places(<<>>, LockedAt) = {}
    BY <2>1 DEF Places
  <2>4. QED
    BY <2>2, <2>3 DEF Scopes
<1>3. m_clientsMutex = Nobody /\ Nobody \notin Threads
  BY <1>1, ConstantsAssumption DEF Init
<1>4. QED
  BY <1>2, <1>3 DEF ScopeInv

\* m_clientsMutex is owned exactly by the thread that is inside a lock_guard
\* scope, at most one scope at a time, on every path of server.cpp.
THEOREM MutexCorrect == Spec => []MutexHeldInScope
<1>1. Init => TypeOK /\ ScopeInv
  BY TypeInit, ScopeInit
<1>2. TypeOK /\ ScopeInv /\ [Next]_vars => (TypeOK /\ ScopeInv)'
  BY TypeStep, ScopeStep
<1>3. ScopeInv => MutexHeldInScope
  BY ScopeInvMeaning
<1>4. QED
  BY <1>1, <1>2, <1>3, PTL DEF Spec

-----------------------------------------------------------------------------
(* The session list.                                                        *)

\* While the mutex is free no thread is iterating over m_clients.
LEMMA FreeMeansNoScope ==
  ASSUME ScopeInv, m_clientsMutex = Nobody,
         NEW t \in Threads, NEW f \in Range(stack[t])
  PROVE  f.at \notin LockedAt
<1>1. Scopes(t) = {}
  BY ConstantsAssumption DEF ScopeInv
<1>2. QED
  BY <1>1 DEF Scopes, Places, Range

\* m_clients changes only in the three scopes of one step that change it, each
\* of which finds the mutex free.
LEMMA ClientsChangeUnlocked ==
  ASSUME [Next]_vars, m_clients' # m_clients
  PROVE  m_clientsMutex = Nobody
<1>1. CASE IoStep
  <2>1. CASE Accepting
    BY <2>1 DEF Accepting, Start, OnAccept, OnAcceptError, RejectClient, AdmitClient,
                PushClient, GreetClient, GreetThrows, CanLock, data
  <2>2. CASE Direct \/ Rearm \/ RunReturns
    BY <2>2 DEF Direct, StartDirect, SendDirect, SendNotFound, Rearm, RunReturns, data
  <2>3. CASE Broadcasting(Io)
    BY <2>3 DEF Broadcasting, StartBroadcast, SkipExcluded, SendLine, SendLineFails,
                EndBroadcast, RemoveClient, EraseClient, CanLock, data
  <2>4. CASE \E c \in Conns : Reading(c)
    BY <2>4 DEF Reading, OnReadError, OnBlank, OnUnparsable, OnOddMessage, OnFirstText, OnText,
                OnDirectMessage, Handle, data
  <2>5. QED
    BY <1>1, <2>1, <2>2, <2>3, <2>4 DEF IoStep
<1>2. CASE \E t \in Callers : CallerStep(t) \/ CallBroadcast(t) \/ CallShutdown(t)
  <2>1. PICK t \in Callers : CallerStep(t) \/ CallBroadcast(t) \/ CallShutdown(t)
    BY <1>2
  <2>2. CASE Broadcasting(t)
    BY <2>2 DEF Broadcasting, StartBroadcast, SkipExcluded, SendLine, SendLineFails,
                EndBroadcast, RemoveClient, EraseClient, CanLock, data
  <2>3. CASE Shutdown(t) \/ CallBroadcast(t) \/ CallShutdown(t)
    BY <2>3 DEF Shutdown, CallBroadcast, CallShutdown, CanLock, data
  <2>4. QED
    BY <2>1, <2>2, <2>3 DEF CallerStep
<1>3. CASE (\E c \in Conns : Completion(c) \/ Peers(c)) \/ AcceptFails
  BY <1>3 DEF Completion, Peers, AcceptCompletes, ReadCompletes, ReadSplits,
              ReadFails, PeerConnect, PeerSend, PeerRead, PeerLeave, AcceptFails, data
<1>4. CASE UNCHANGED vars
  BY <1>4 DEF vars, data
<1>5. QED
  BY <1>1, <1>2, <1>3, <1>4 DEF Next

\* The range-for of broadcastMessage never has m_clients changed under it,
\* neither by the removeClient it calls itself nor by another thread.
THEOREM IterationCorrect == Spec => IterationSafe
<1>1. Init => TypeOK /\ ScopeInv
  BY TypeInit, ScopeInit
<1>2. TypeOK /\ ScopeInv /\ [Next]_vars => (TypeOK /\ ScopeInv)'
  BY TypeStep, ScopeStep
<1>3. ScopeInv /\ [Next]_vars =>
        [(\E t \in Threads : \E f \in Range(stack[t]) : f.at = "sending")
           => m_clients' = m_clients]_vars
  <2>1. SUFFICES ASSUME ScopeInv, [Next]_vars, m_clients' # m_clients,
                        NEW t \in Threads, NEW f \in Range(stack[t]), f.at = "sending"
                 PROVE  FALSE
    OBVIOUS
  <2>2. m_clientsMutex = Nobody
    BY <2>1, ClientsChangeUnlocked
  <2>3. QED
    BY <2>1, <2>2, FreeMeansNoScope DEF LockedAt
<1>4. QED
  BY <1>1, <1>2, <1>3, PTL DEF Spec, IterationSafe

-----------------------------------------------------------------------------
(* The limit.                                                               *)

Pushing == Places(stack[Io], {"push"})

\* A handler between the limit check and the push_back is the innermost call,
\* and there is still room for its client.
LimitInv ==
  /\ Len(m_clients) <= MaxClients
  /\ \A i \in Pushing : i = Len(stack[Io]) /\ Len(m_clients) < MaxClients

\* The steps that change m_clients.
LEMMA ClientsChange ==
  ASSUME [Next]_vars
  PROVE  \/ m_clients' = m_clients
         \/ PushClient
         \/ \E t \in Threads : EraseClient(t)
         \/ \E t \in Callers : Shutdown(t)
<1>1. Io \in Threads /\ Callers \subseteq Threads
  BY DEF Threads
<1>2. ASSUME NEW t \in Threads, Broadcasting(t)
      PROVE  m_clients' = m_clients \/ EraseClient(t)
  BY <1>2 DEF Broadcasting, StartBroadcast, SkipExcluded, SendLine, SendLineFails,
              EndBroadcast, RemoveClient, data
<1>3. CASE IoStep
  <2>1. CASE Accepting
    BY <2>1 DEF Accepting, Start, OnAccept, OnAcceptError, RejectClient,
                AdmitClient, GreetClient, GreetThrows, data
  <2>2. CASE Direct \/ Rearm \/ RunReturns
    BY <2>2 DEF Direct, StartDirect, SendDirect, SendNotFound, Rearm, RunReturns,
                data
  <2>3. CASE \E c \in Conns : Reading(c)
    BY <2>3 DEF Reading, OnReadError, OnBlank, OnUnparsable, OnOddMessage, OnFirstText, OnText,
                OnDirectMessage, Handle, data
  <2>4. QED
    BY <1>1, <1>2, <1>3, <2>1, <2>2, <2>3 DEF IoStep
<1>4. CASE \E t \in Callers : CallerStep(t) \/ CallBroadcast(t) \/ CallShutdown(t)
  BY <1>1, <1>2, <1>4 DEF CallerStep, CallBroadcast, CallShutdown, data
<1>5. CASE (\E c \in Conns : Completion(c) \/ Peers(c)) \/ AcceptFails
  BY <1>5 DEF Completion, Peers, AcceptCompletes, ReadCompletes, ReadSplits,
              ReadFails, PeerConnect, PeerSend, PeerRead, PeerLeave, AcceptFails, data
<1>6. QED
  BY <1>3, <1>4, <1>5 DEF Next, vars, data

\* Only PushClient lengthens the list.
LEMMA ClientsShrink ==
  ASSUME TypeOK, [Next]_vars, ~PushClient
  PROVE  Len(m_clients') \in Nat /\ Len(m_clients') <= Len(m_clients)
<1>1. Len(m_clients) \in Nat
  BY LenProperties DEF TypeOK
<1>2. CASE m_clients' = m_clients
  BY <1>1, <1>2
<1>3. CASE \E t \in Threads : EraseClient(t)
  <2>1. PICK t \in Threads : m_clients' = RemoveFirst(m_clients, Top(t).c)
    BY <1>3 DEF EraseClient
  <2>2. QED
    BY <1>1, <2>1, RemoveFirstFacts, LenProperties DEF TypeOK
<1>4. CASE \E t \in Callers : Shutdown(t)
  BY <1>1, <1>4, EmptySeq DEF Shutdown
<1>5. m_clients' = m_clients \/ (\E t \in Threads : EraseClient(t))
        \/ (\E t \in Callers : Shutdown(t))
  BY ClientsChange
<1>6. QED
  BY <1>2, <1>3, <1>4, <1>5

\* Whatever the io thread does from "push" but PushClient, and whatever it does
\* from elsewhere but AdmitClient, no record stands at "push" afterwards.
LEMMA PushingEnds ==
  ASSUME TypeOK, [Next]_vars, ~AdmitClient, Pushing \subseteq {Len(stack[Io])}
  PROVE  Pushing' = {} \/ stack'[Io] = stack[Io]
<1>1. Io \in Threads /\ Callers \subseteq Threads /\ \A t \in Callers : t # Io
  BY ConstantsAssumption DEF Threads
<1>2. ASSUME stack[Io] # <<>>, Return(Io) PROVE Pushing' = {}
  <2>1. Places(stack'[Io], {"push"}) = Pushing \ {Len(stack[Io])}
    BY <1>1, <1>2, ReturnPlaces DEF Pushing
  <2>2. QED
    BY <2>1 DEF Pushing
<1>3. ASSUME NEW f, NEW g, stack[Io] # <<>>, Goto(Io, f) \/ Call(Io, f, g),
             f.at # "push", g.at # "push"
      PROVE  Pushing' = {}
  <2>1. f.at \notin {"push"} /\ g.at \notin {"push"}
    BY <1>3
  <2>2. CASE Goto(Io, f)
    <3>1. Places(stack'[Io], {"push"}) = Places(stack[Io], {"push"}) \ {Len(stack[Io])}
      BY <1>1, <1>3, <2>1, <2>2, GotoPlaces, Zenon
    <3>2. QED
      BY <3>1 DEF Pushing
  <2>3. CASE Call(Io, f, g)
    <3>1. Places(stack'[Io], {"push"}) = Places(stack[Io], {"push"}) \ {Len(stack[Io])}
      BY <1>1, <1>3, <2>1, <2>3, CallPlaces, ZenonT(60)
    <3>2. QED
      BY <3>1 DEF Pushing
  <2>4. QED
    BY <1>3, <2>2, <2>3
<1>4. ASSUME NEW f, stack[Io] = <<>>, Push(Io, f), f.at # "push" PROVE Pushing' = {}
  <2>1. f.at \notin {"push"}
    BY <1>4
  <2>2. Places(stack'[Io], {"push"}) = Places(<<>>, {"push"})
    BY <1>1, <1>4, <2>1, PushPlaces
  <2>3. QED
    BY <2>2 DEF Pushing, Places
<1>5. \A at, kind, c, name : FrameAt(at, kind, c, name).at = at
  BY DEF FrameAt
<1>6. stack[Io] # <<>> =>
        /\ Top(Io) \in Frame
        /\ \A at : [Top(Io) EXCEPT !.at = at].at = at
        /\ Advanced(Io).at = Top(Io).at
  BY <1>1, TopFrame
<1>7. CASE Accepting
  <2>1. CASE Start \/ RejectClient \/ GreetClient
    BY <1>2, <2>1 DEF Start, RejectClient, GreetClient, At
  <2>2. CASE OnAccept
    BY <1>4, <1>5, <2>2 DEF OnAccept, IoIdle
  <2>3. CASE OnAcceptError \/ GreetThrows
    BY <2>3 DEF OnAcceptError, GreetThrows
  <2>4. CASE PushClient
    <3> DEFINE f == [Top(Io) EXCEPT !.at = "greet"]
               g == FrameAt("greet", "none", NoConn, NoName)
    <3>1. stack[Io] # <<>> /\ Goto(Io, f)
      BY <2>4 DEF PushClient, At
    <3>2. f.at # "push" /\ g.at # "push"
      BY <1>5, <1>6, <3>1
    <3> HIDE DEF f, g
    <3>3. QED
      BY <1>3, <3>1, <3>2
  <2>5. QED
    BY <1>7, <2>1, <2>2, <2>3, <2>4 DEF Accepting
<1>8. CASE Direct \/ Rearm \/ RunReturns
  <2>1. CASE StartDirect
    <3> DEFINE it == FindClient(Top(Io).name)
               f  == [Top(Io) EXCEPT !.at = IF it = 0 THEN "nouser" ELSE "dmsend",
                                     !.kind = IF it = 0 THEN "nouser" ELSE "dm",
                                     !.id = Len(log) + 1, !.next = it]
               g == FrameAt("dm", "none", NoConn, NoName)
    <3>1. stack[Io] # <<>> /\ Goto(Io, f)
      BY <2>1 DEF StartDirect, At
    <3>2. f.at \in {"nouser", "dmsend"}
      BY <1>6, <3>1 DEF Frame
    <3>3. f.at # "push" /\ g.at # "push"
      BY <1>5, <3>2
    <3> HIDE DEF f, g
    <3>4. QED
      BY <1>3, <3>1, <3>3
  <2>2. CASE SendDirect \/ Rearm
    BY <1>2, <2>2 DEF SendDirect, Rearm, At
  <2>3. CASE SendNotFound
    BY <1>2, <2>3 DEF SendNotFound, At
  <2>4. CASE RunReturns
    BY <2>4 DEF RunReturns
  <2>5. QED
    BY <1>8, <2>1, <2>2, <2>3, <2>4 DEF Direct
<1>9. CASE \E c \in Conns : Reading(c)
  <2>1. PICK c \in Conns : Reading(c)
    BY <1>9
  <2>2. ASSUME NEW f, Handle(c, f), f.at # "push" PROVE Pushing' = {}
    <3> DEFINE r == FrameAt("rearm", "none", c, NoName)
               s == <<r, f>>
    <3>1. stack'[Io] = s
      BY <1>1, <2>2 DEF Handle, TypeOK
    <3>2. DOMAIN s = {1, 2} /\ s[1] = r /\ s[2] = f /\ r.at # "push"
      BY <1>5
    <3>3. QED
      BY <2>2, <3>1, <3>2 DEF Pushing, Places
  <2>3. CASE OnReadError(c)
    BY <1>4, <1>5, <2>3 DEF OnReadError, ReadDone, IoIdle
  <2>4. CASE OnBlank(c) \/ OnUnparsable(c) \/ OnOddMessage(c)
    BY <2>4 DEF OnBlank, OnUnparsable, OnOddMessage
  <2>5. CASE OnFirstText(c)
    BY <1>5, <2>2, <2>5 DEF OnFirstText
  <2>6. CASE OnText(c)
    BY <1>5, <2>2, <2>6 DEF OnText
  <2>7. CASE OnDirectMessage(c)
    BY <1>5, <2>2, <2>7 DEF OnDirectMessage
  <2>8. QED
    BY <2>1, <2>3, <2>4, <2>5, <2>6, <2>7 DEF Reading
<1>10. CASE Broadcasting(Io)
  <2>1. CASE StartBroadcast(Io)
    <3> DEFINE f == [Top(Io) EXCEPT !.at = "sending", !.id = Len(log) + 1, !.next = 1]
               g == FrameAt("bcast", "none", NoConn, NoName)
    <3>1. stack[Io] # <<>> /\ Goto(Io, f)
      BY <2>1 DEF StartBroadcast, At
    <3>2. f.at = "sending"
      BY <1>6, <3>1 DEF Frame
    <3>3. f.at # "push" /\ g.at # "push"
      BY <1>5, <3>2
    <3> HIDE DEF f, g
    <3>4. QED
      BY <1>3, <3>1, <3>3
  <2>2. CASE SkipExcluded(Io) \/ SendLine(Io) \/ SendLineFails(Io)
    <3> DEFINE f == Advanced(Io)
               g == FrameAt("remove", "none", Target(Io), NoName)
    <3>1. /\ stack[Io] # <<>> /\ Top(Io).at = "sending"
          /\ Goto(Io, f) \/ Call(Io, f, g)
      BY <2>2 DEF SkipExcluded, SendLine, SendLineFails, Sending, At
    <3>2. f.at # "push" /\ g.at # "push"
      BY <1>5, <1>6, <3>1
    <3> HIDE DEF f, g
    <3>3. QED
      BY <1>3, <3>1, <3>2
  <2>3. CASE EndBroadcast(Io) \/ EraseClient(Io)
    BY <1>2, <2>3 DEF EndBroadcast, EraseClient, At
  <2>4. CASE RemoveClient(Io)
    <3> DEFINE f == [Top(Io) EXCEPT !.at = "erase"]
               g == FrameAt("bcast", "left", Top(Io).c, username[Top(Io).c])
    <3>1. stack[Io] # <<>> /\ (Goto(Io, f) \/ Call(Io, f, g))
      BY <2>4 DEF RemoveClient, At
    <3>2. f.at # "push" /\ g.at # "push"
      BY <1>5, <1>6, <3>1
    <3> HIDE DEF f, g
    <3>3. QED
      BY <1>3, <3>1, <3>2
  <2>5. QED
    BY <1>10, <2>1, <2>2, <2>3, <2>4 DEF Broadcasting
<1>11. CASE \E t \in Callers : CallerStep(t) \/ CallBroadcast(t) \/ CallShutdown(t)
  <2>1. PICK t \in Callers : CallerStep(t) \/ CallBroadcast(t) \/ CallShutdown(t)
    BY <1>11
  <2>2. \/ \E f : Push(t, f) \/ Goto(t, f) \/ \E g : Call(t, f, g)
        \/ Return(t)
    BY <2>1 DEF CallerStep, CallBroadcast, CallShutdown, Shutdown, Broadcasting,
                StartBroadcast, SkipExcluded, SendLine, SendLineFails, EndBroadcast,
                RemoveClient, EraseClient
  <2>3. QED
    BY <1>1, <2>2 DEF TypeOK, Push, Goto, Call, Return
<1>12. CASE (\E c \in Conns : Completion(c) \/ Peers(c)) \/ AcceptFails \/ UNCHANGED vars
  BY <1>12 DEF Completion, Peers, AcceptCompletes, ReadCompletes, ReadSplits, ReadFails,
               PeerConnect, PeerSend, PeerRead, PeerLeave, AcceptFails, vars
<1>13. QED
  BY <1>7, <1>8, <1>9, <1>10, <1>11, <1>12 DEF Next, IoStep

LEMMA LimitInit == Init => LimitInv
<1>1. SUFFICES ASSUME Init PROVE LimitInv
  OBVIOUS
<1>2. Len(m_clients) = 0 /\ MaxClients \in Nat
  BY <1>1, EmptySeq, ConstantsAssumption DEF Init
<1>3. Pushing = {}
  <2> DEFINE f == FrameAt("start", "none", NoConn, NoName)
  <2>1. stack[Io] = <<f>>
    BY <1>1, IoIsThread DEF Init
  <2>2. f.at # "push"
    BY DEF FrameAt
  <2>3. QED
    BY <2>1, <2>2 DEF Pushing, Places
<1>4. QED
  BY <1>2, <1>3 DEF LimitInv

LEMMA LimitStep == TypeOK /\ LimitInv /\ [Next]_vars => LimitInv'
<1>1. SUFFICES ASSUME TypeOK, LimitInv, [Next]_vars PROVE LimitInv'
  OBVIOUS
<1>2. /\ Len(m_clients) \in Nat /\ MaxClients \in Nat
      /\ Pushing \subseteq {Len(stack[Io])}
      /\ Len(m_clients) <= MaxClients
  BY <1>1, LenProperties, ConstantsAssumption DEF TypeOK, LimitInv
<1>3. CASE PushClient
  <2>1. stack[Io] # <<>> /\ Top(Io).at \in {"push"} /\ ~AdmitClient
    BY <1>3 DEF PushClient, AdmitClient, At
  <2>2. Len(stack[Io]) \in Pushing
    BY <1>1, <2>1, IoIsThread, TopPlace DEF Pushing
  <2>3. Len(m_clients) < MaxClients
    BY <1>1, <2>2 DEF LimitInv
  <2>4. Len(m_clients') = Len(m_clients) + 1
    <3>1. Top(Io).c \in Conns
      BY <1>1, <2>1, IoIsThread, TopFrame, FrameConn
    <3>2. QED
      BY <1>1, <1>3, <3>1, AppendProperties DEF PushClient, TypeOK
  <2>5. Pushing' = {}
    <3> DEFINE f == [Top(Io) EXCEPT !.at = "greet"]
    <3>1. Goto(Io, f) /\ f.at \notin {"push"}
      BY <1>1, <1>3, <2>1, IoIsThread, TopFrame DEF PushClient
    <3> HIDE DEF f
    <3>2. Places(stack'[Io], {"push"}) = Pushing \ {Len(stack[Io])}
      BY <1>1, <2>1, <3>1, IoIsThread, GotoPlaces DEF Pushing
    <3>3. QED
      BY <1>2, <3>2 DEF Pushing
  <2>6. QED
    BY <1>2, <2>3, <2>4, <2>5 DEF LimitInv
<1>4. CASE AdmitClient
  <2>1. /\ m_clients' = m_clients /\ Len(m_clients) < MaxClients
        /\ stack[Io] \in Seq(Frame) /\ stack[Io] # <<>> /\ Top(Io).at \notin {"push"}
    BY <1>1, <1>2, <1>4, IoIsThread DEF AdmitClient, Full, At, TypeOK, data
  <2>2. Len(stack[Io]) \notin Pushing
    BY <1>1, <2>1, IoIsThread, TopPlace DEF Pushing
  <2> DEFINE f == [Top(Io) EXCEPT !.at = "push"]
  <2>3. Goto(Io, f) /\ f.at \in {"push"}
    BY <1>1, <1>4, <2>1, IoIsThread, TopFrame DEF AdmitClient
  <2>4. f \in Frame
    <3>1. Top(Io) \in Frame /\ Top(Io).at = "admit"
      BY <1>1, <1>4, <2>1, IoIsThread, TopFrame DEF AdmitClient, At
    <3>2. Top(Io).c # NoConn
      BY <3>1, FrameConn, ConstantsAssumption
    <3>3. QED
      BY <3>1, <3>2, MoveToType DEF Labels
  <2> HIDE DEF f
  <2>5. Places(stack'[Io], {"push"}) = Pushing \cup {Len(stack[Io])}
    BY <1>1, <2>1, <2>3, IoIsThread, GotoPlaces DEF Pushing
  <2>6. Len(stack'[Io]) = Len(stack[Io])
    <3>1. stack'[Io] = ReplaceAt(stack[Io], Len(stack[Io]), f)
      BY <1>1, <2>3, IoIsThread DEF Goto, TypeOK
    <3>2. QED
      BY <2>1, <2>4, <3>1, ReplaceTopType
  <2>7. Pushing' = {Len(stack[Io])}
    BY <1>2, <2>5 DEF Pushing
  <2>8. QED
    BY <1>2, <2>1, <2>6, <2>7 DEF LimitInv
<1>5. CASE ~PushClient /\ ~AdmitClient
  <2>1. Len(m_clients') \in Nat /\ Len(m_clients') <= Len(m_clients)
    BY <1>1, <1>5, ClientsShrink
  <2>2. Pushing' = {} \/ stack'[Io] = stack[Io]
    BY <1>1, <1>2, <1>5, PushingEnds
  <2>3. CASE Pushing' = {}
    BY <1>2, <2>1, <2>3 DEF LimitInv
  <2>4. CASE stack'[Io] = stack[Io]
    <3>1. Pushing' = Pushing
      BY <2>4 DEF Pushing
    <3>2. QED
      BY <1>1, <1>2, <2>1, <2>4, <3>1 DEF LimitInv
  <2>5. QED
    BY <2>2, <2>3, <2>4
<1>6. QED
  BY <1>3, <1>4, <1>5

\* m_maxClients bounds the session list, whatever other threads do between the
\* two lock scopes of the accept handler.
THEOREM LimitCorrect == Spec => []WithinLimit
<1>1. Init => TypeOK /\ LimitInv
  BY TypeInit, LimitInit
<1>2. TypeOK /\ LimitInv /\ [Next]_vars => (TypeOK /\ LimitInv)'
  BY TypeStep, LimitStep
<1>3. LimitInv => WithinLimit
  BY DEF LimitInv, WithinLimit
<1>4. QED
  BY <1>1, <1>2, <1>3, PTL DEF Spec

-----------------------------------------------------------------------------
(* A failed write of a broadcast.                                           *)

Waiting == {"remove", "bcast", "erase"}

\* Once a write of a broadcast has failed, some thread is in removeClient (or
\* the broadcastMessage that calls) below a broadcast that holds the mutex.
StuckInv ==
  failed # {} =>
    \E t \in Threads : /\ Scopes(t) # {}
                       /\ stack[t] # <<>>
                       /\ Top(t).at \in Waiting

\* The innermost record after a call or a change of the record.
LEMMA TopAfterGoto ==
  ASSUME TypeOK, NEW t \in Threads, stack[t] # <<>>, NEW f, Goto(t, f)
  PROVE  stack'[t] # <<>> /\ Top(t)' = f
<1> DEFINE T == Frame \cup {f}
           s == stack[t]
           r == ReplaceAt(s, Len(s), f)
<1>1. s \in Seq(Frame) /\ stack'[t] = r
  BY DEF TypeOK, Goto
<1>2. s \in Seq(T) /\ f \in T
  BY <1>1, SeqMonotonic
<1>3. Len(s) \in 1..Len(s) /\ Len(s) \in Nat
  BY <1>1, FrontFacts, LenProperties
<1>4. r \in Seq(T) /\ Len(r) = Len(s) /\ r[Len(s)] = f
  BY <1>2, <1>3, ExceptSeq DEF ReplaceAt
<1>5. r # <<>>
  BY <1>3, <1>4, EmptySeq
<1>6. QED
  BY <1>1, <1>4, <1>5 DEF Top, Last

LEMMA TopAfterCall ==
  ASSUME TypeOK, NEW t \in Threads, stack[t] # <<>>, NEW f, NEW g, Call(t, f, g)
  PROVE  stack'[t] # <<>> /\ Top(t)' = g
<1> DEFINE T == Frame \cup {f, g}
           s == stack[t]
           r == ReplaceAt(s, Len(s), f)
           q == Append(r, g)
<1>1. s \in Seq(Frame) /\ stack'[t] = q
  BY DEF TypeOK, Call
<1>2. s \in Seq(T) /\ f \in T /\ g \in T
  BY <1>1, SeqMonotonic
<1>3. Len(s) \in 1..Len(s) /\ Len(s) \in Nat
  BY <1>1, FrontFacts, LenProperties
<1>4. r \in Seq(T) /\ Len(r) = Len(s)
  BY <1>2, <1>3, ExceptSeq DEF ReplaceAt
<1>5. q \in Seq(T) /\ Len(q) = Len(s) + 1 /\ q[Len(s) + 1] = g
  BY <1>2, <1>3, <1>4, AppendProperties
<1>6. q # <<>>
  BY <1>3, <1>5, EmptySeq
<1>7. QED
  BY <1>1, <1>5, <1>6 DEF Top, Last

\* A failing write makes its thread wait.
LEMMA StuckBegins ==
  ASSUME TypeOK, ScopeInv, ScopeInv', NEW t \in Threads, SendLineFails(t)
  PROVE  StuckInv'
<1> DEFINE g == FrameAt("remove", "none", Target(t), NoName)
<1>1. /\ stack[t] # <<>> /\ Top(t).at \in LockedAt
      /\ Call(t, Advanced(t), g) /\ UNCHANGED m_clientsMutex
  BY DEF SendLineFails, Sending, At, LockedAt
<1>2. Scopes(t) # {}
  BY <1>1, TopPlace DEF Scopes
<1>3. Scopes(t)' # {}
  BY <1>1, <1>2 DEF ScopeInv
<1>4. stack'[t] # <<>> /\ Top(t)' = g
  BY <1>1, TopAfterCall
<1>5. g.at \in Waiting
  BY DEF FrameAt, Waiting
<1> HIDE DEF g
<1>6. QED
  BY <1>3, <1>4, <1>5 DEF StuckInv

\* A thread that waits below its own lock_guard gets nowhere but from
\* removeClient to the broadcastMessage it calls.
LEMMA StuckStays ==
  ASSUME TypeOK, ScopeInv, ScopeInv', [Next]_vars, NEW t \in Threads,
         Scopes(t) # {}, stack[t] # <<>>, Top(t).at \in Waiting
  PROVE  StuckInv'
<1>1. Io \in Threads /\ Callers \subseteq Threads
  BY DEF Threads
<1>2. m_clientsMutex = t /\ ~CanLock(t)
  BY ConstantsAssumption DEF ScopeInv, CanLock
<1>3. CASE stack'[t] = stack[t]
  BY <1>3 DEF StuckInv, Scopes, Top
<1>4. CASE RemoveClient(t)
  <2> DEFINE f == [Top(t) EXCEPT !.at = "erase"]
             g == FrameAt("bcast", "left", Top(t).c, username[Top(t).c])
  <2>1. (Goto(t, f) \/ Call(t, f, g)) /\ UNCHANGED m_clientsMutex
    BY <1>4 DEF RemoveClient
  <2>2. Scopes(t)' # {}
    BY <1>2, <2>1 DEF ScopeInv
  <2>3. f.at \in Waiting /\ g.at \in Waiting
    BY TopFrame DEF FrameAt, Waiting
  <2>4. stack'[t] # <<>> /\ (Top(t)' = f \/ Top(t)' = g)
    BY <2>1, TopAfterGoto, TopAfterCall
  <2> HIDE DEF f, g
  <2>5. QED
    BY <2>2, <2>3, <2>4 DEF StuckInv
<1>5. RemoveClient(t) \/ stack'[t] = stack[t]
  <2>1. ASSUME NEW u \in Threads, u # t,
               (\E f : Push(u, f) \/ Goto(u, f) \/ \E g : Call(u, f, g)) \/ Return(u)
        PROVE  stack'[t] = stack[t]
    BY <2>1 DEF TypeOK, Push, Goto, Call, Return
  <2>2. ASSUME NEW u \in Threads, Broadcasting(u)
        PROVE  RemoveClient(t) \/ stack'[t] = stack[t]
    <3>1. CASE u = t
      BY <1>2, <2>2, <3>1 DEF Broadcasting, StartBroadcast, SkipExcluded, SendLine,
         SendLineFails, EndBroadcast, EraseClient, Sending, At, Lock, Waiting
    <3>2. CASE u # t
      <4>1. (\E f : Push(u, f) \/ Goto(u, f) \/ \E g : Call(u, f, g)) \/ Return(u)
        BY <2>2 DEF Broadcasting, StartBroadcast, SkipExcluded, SendLine,
           SendLineFails, EndBroadcast, RemoveClient, EraseClient
      <4>2. QED
        BY <2>1, <3>2, <4>1
    <3>3. QED
      BY <3>1, <3>2
  <2>3. CASE Accepting
    <3>1. CASE t = Io
      BY <1>2, <2>3, <3>1 DEF Accepting, Start, OnAccept, OnAcceptError, RejectClient,
         AdmitClient, PushClient, GreetClient, GreetThrows, IoIdle, At, Waiting
    <3>2. CASE t # Io
      BY <1>1, <2>1, <2>3, <3>2 DEF Accepting, Start, OnAccept, OnAcceptError,
         RejectClient, AdmitClient, PushClient, GreetClient, GreetThrows
    <3>3. QED
      BY <3>1, <3>2
  <2>4. CASE Direct \/ Rearm \/ RunReturns
    <3>1. CASE t = Io
      BY <1>2, <2>4, <3>1 DEF Direct, StartDirect, SendDirect, SendNotFound, Rearm,
         RunReturns, IoIdle, At, Waiting
    <3>2. CASE t # Io
      BY <1>1, <2>1, <2>4, <3>2 DEF Direct, StartDirect, SendDirect, SendNotFound,
         Rearm, RunReturns
    <3>3. QED
      BY <3>1, <3>2
  <2>5. CASE \E c \in Conns : Reading(c)
    <3>1. PICK c \in Conns : Reading(c)
      BY <2>5
    <3>2. IoIdle
      BY <3>1 DEF Reading, OnReadError, OnBlank, OnUnparsable, OnOddMessage, OnFirstText, OnText,
                  OnDirectMessage, ReadDone
    <3>3. t # Io
      BY <3>2 DEF IoIdle
    <3>4. \/ \E s : stack' = [stack EXCEPT ![Io] = s]
          \/ stack' = stack
      BY <3>1 DEF Reading, OnReadError, OnBlank, OnUnparsable, OnOddMessage, OnFirstText, OnText,
                  OnDirectMessage, Handle, Push
    <3>5. QED
      BY <3>3, <3>4 DEF TypeOK
  <2>6. CASE \E u \in Callers : CallBroadcast(u) \/ CallShutdown(u) \/ Shutdown(u)
    <3>1. PICK u \in Callers : CallBroadcast(u) \/ CallShutdown(u) \/ Shutdown(u)
      BY <2>6
    <3>2. CASE u = t
      BY <1>2, <3>1, <3>2 DEF CallBroadcast, CallShutdown, Shutdown, At
    <3>3. CASE u # t
      BY <1>1, <2>1, <3>1, <3>3 DEF CallBroadcast, CallShutdown, Shutdown
    <3>4. QED
      BY <3>2, <3>3
  <2>7. CASE \/ \E c \in Conns : Completion(c) \/ Peers(c)
             \/ AcceptFails \/ UNCHANGED vars
    BY <2>7 DEF Completion, Peers, AcceptCompletes, ReadCompletes, ReadSplits,
       ReadFails, PeerConnect, PeerSend, PeerRead, PeerLeave, AcceptFails, vars
  <2>8. QED
    BY <1>1, <2>2, <2>3, <2>4, <2>5, <2>6, <2>7 DEF Next, IoStep, CallerStep
<1>6. QED
  BY <1>3, <1>4, <1>5

LEMMA StuckStep ==
  TypeOK /\ ScopeInv /\ ScopeInv' /\ StuckInv /\ [Next]_vars => StuckInv'
<1>1. SUFFICES ASSUME TypeOK, ScopeInv, ScopeInv', StuckInv, [Next]_vars
               PROVE  StuckInv'
  OBVIOUS
<1>2. CASE failed # {}
  <2>1. PICK t \in Threads :
          Scopes(t) # {} /\ stack[t] # <<>> /\ Top(t).at \in Waiting
    BY <1>1, <1>2 DEF StuckInv
  <2>2. QED
    BY <1>1, <2>1, StuckStays
<1>3. CASE \E t \in Threads : SendLineFails(t)
  BY <1>1, <1>3, StuckBegins
<1>4. CASE failed' = {}
  BY <1>4 DEF StuckInv
<1>5. failed' = failed \/ \E t \in Threads : SendLineFails(t)
  <2>1. Io \in Threads /\ Callers \subseteq Threads
    BY DEF Threads
  <2>2. ASSUME NEW t \in Threads, Broadcasting(t)
        PROVE  failed' = failed \/ SendLineFails(t)
    BY <2>2 DEF Broadcasting, StartBroadcast, SkipExcluded, SendLine, EndBroadcast,
                RemoveClient, EraseClient, hist
  <2>3. CASE Accepting
    BY <2>3 DEF Accepting, Start, OnAccept, OnAcceptError, RejectClient, AdmitClient,
                PushClient, GreetClient, GreetThrows, hist
  <2>4. CASE Direct \/ Rearm \/ RunReturns
    BY <2>4 DEF Direct, StartDirect, SendDirect, SendNotFound, Rearm, RunReturns, hist
  <2>5. CASE \E c \in Conns : Reading(c)
    BY <2>5 DEF Reading, OnReadError, OnBlank, OnUnparsable, OnOddMessage, OnFirstText, OnText,
                OnDirectMessage, Handle, hist
  <2>6. CASE \E t \in Callers : CallBroadcast(t) \/ CallShutdown(t) \/ Shutdown(t)
    BY <2>6 DEF CallBroadcast, CallShutdown, Shutdown, hist
  <2>7. CASE \/ \E c \in Conns : Completion(c) \/ Peers(c)
             \/ AcceptFails \/ UNCHANGED vars
    BY <2>7 DEF Completion, Peers, AcceptCompletes, ReadCompletes, ReadSplits,
       ReadFails, PeerConnect, PeerSend, PeerRead, PeerLeave, AcceptFails, vars, hist
  <2>8. QED
    BY <1>1, <2>1, <2>2, <2>3, <2>4, <2>5, <2>6, <2>7 DEF Next, IoStep, CallerStep
<1>6. QED
  BY <1>2, <1>3, <1>4, <1>5

\* After one failed write of a broadcast the mutex is held in every later state:
\* no client is admitted, served or removed any more, in any configuration.
THEOREM FailedWriteCorrect == Spec => []FailedWriteHoldsMutex
<1>1. Init => TypeOK /\ ScopeInv /\ StuckInv
  BY TypeInit, ScopeInit DEF Init, StuckInv
<1>2. TypeOK /\ ScopeInv /\ StuckInv /\ [Next]_vars
        => (TypeOK /\ ScopeInv /\ StuckInv)'
  BY TypeStep, ScopeStep, StuckStep
<1>3. ScopeInv /\ StuckInv => FailedWriteHoldsMutex
  BY ConstantsAssumption DEF ScopeInv, StuckInv, FailedWriteHoldsMutex
<1>4. QED
  BY <1>1, <1>2, <1>3, PTL DEF Spec

=============================================================================
