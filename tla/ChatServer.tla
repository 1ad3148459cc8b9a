------------------------------ MODULE ChatServer ------------------------------
(***************************************************************************)
(* The chat server of common/server.{h,cpp} and server/main.cpp: one       *)
(* io_context thread that runs the completion handlers of the accept and   *)
(* read operations one at a time, the session list m_clients behind a      *)
(* non-recursive std::mutex, and any number of other threads that may call *)
(* the two public operations broadcastMessage() and shutdown().            *)
(*                                                                         *)
(* Every thread has a call stack of activation records; a step runs a      *)
(* function from one lock, write or call to the next.  asio and TCP are    *)
(* external: they are modelled from how server.cpp uses them.              *)
(***************************************************************************)
EXTENDS Naturals, SequencesExt

CONSTANTS
  Conns,      \* the TCP connections ever made, each used at most once
  NoConn,     \* "no connection"
  Names,      \* non-empty usernames
  NoName,     \* the empty std::string
  UserOf,     \* the "username" field in the messages of each connection
  Io,         \* the thread that runs io_context::run()
  Callers,    \* other threads that use the public interface of Server
  Nobody,     \* the owner of an unlocked mutex
  MaxClients, \* m_maxClients
  Inputs,     \* the messages the peers send in this instance
  MayLeave,   \* the connections whose peer may close or reset
  Faults,     \* what the environment may do wrong, see FaultKinds
  SendBuf,    \* written lines the kernel buffers of a connection hold
  Pipeline,   \* bound: messages of a peer in flight towards the server
  MaxSends,   \* bound: messages the peers send altogether
  MaxCalls    \* bound: calls made by Callers altogether

\* "accept": async_accept may report an error.  "split": one JSON text may
\* reach the server in several segments, so that a read returns a part of it.
FaultKinds == {"accept", "split"}

Threads == {Io} \cup Callers

(***************************************************************************)
(* What a peer writes and what a read returns.  "text" is a JSON object    *)
(* whose message is ordinary text, "dm" one whose message starts with      *)
(* "/dm " and names the user `to' (NoName if nobody is named), "blank" is  *)
(* white space, "odd" is a JSON text other than an object with two strings *)
(* "message" and "username", and "raw" is anything                         *)
(* nlohmann::json::parse rejects.                                          *)
(***************************************************************************)
Message == [kind : {"text", "dm", "blank", "odd", "raw"}, to : Names \cup {NoName}]

Blank == [kind |-> "blank", to |-> NoName]
Raw   == [kind |-> "raw",   to |-> NoName]

\* States of the read operation of a session, next to "completed with data".
Idle  == [kind |-> "idle",  to |-> NoName]
Armed == [kind |-> "armed", to |-> NoName]
Eof   == [kind |-> "eof",   to |-> NoName]

ReadState == Message \cup {Idle, Armed, Eof}

\* The chunk one read returns when it gets the messages s back to back: they
\* are not framed, so two of them do not parse as one JSON text.
Solid(s) == {i \in DOMAIN s : s[i].kind # "blank"}

Chunk(s) ==
  IF Solid(s) = {} THEN Blank
  ELSE IF \E i \in DOMAIN s : Solid(s) = {i}
       THEN s[CHOOSE i \in DOMAIN s : Solid(s) = {i}]
       ELSE Raw

(***************************************************************************)
(* Activation records.  `at' is the place to continue from; kind, c and    *)
(* name are the arguments; id and next are the line being sent (an index   *)
(* of log) and the loop position in m_clients.                             *)
(***************************************************************************)
LineKinds == {"joined", "chat", "left", "notice", "dm", "nouser"}

Labels == {"start", "admit", "push", "greet", "rearm", "bcast", "sending",
           "remove", "erase", "dm", "dmsend", "nouser", "shutdown"}

\* The places inside a lock_guard scope that spans more than one step.
LockedAt == {"sending", "dmsend", "nouser"}

Frame ==
  {f \in [at : Labels, kind : LineKinds \cup {"none"}, c : Conns \cup {NoConn},
          name : Names \cup {NoName}, id : Nat, next : Nat] :
     /\ f.c = NoConn => \/ f.at \in {"start", "shutdown"}
                        \/ f.at \in {"bcast", "sending"} /\ f.kind = "notice"
     /\ f.at = "bcast" => f.kind \in LineKinds
     /\ f.at = "sending" => f.next # 0}

FrameAt(at, kind, c, name) ==
  [at |-> at, kind |-> kind, c |-> c, name |-> name, id |-> 0, next |-> 0]

\* m_acceptor and its async_accept, with the connection of a completed one.
Acceptor ==
  {a \in [open : BOOLEAN, op : {"idle", "armed", "ready", "failed"},
          c : Conns \cup {NoConn}] : a.op = "ready" => a.c \in Conns}

Line == [kind : LineKinds, by : Conns \cup {NoConn},
         who : Names \cup {NoName}, to : SUBSET Conns]

ASSUME ConstantsAssumption ==
  /\ NoConn \notin Conns
  /\ NoName \notin Names
  /\ UserOf \in [Conns -> Names \cup {NoName}]
  /\ Io \notin Callers
  /\ Nobody \notin Threads
  /\ MaxClients \in Nat
  /\ Inputs \subseteq Message
  /\ MayLeave \subseteq Conns
  /\ Faults \subseteq FaultKinds
  /\ SendBuf \in Nat \ {0}
  /\ Pipeline \in Nat /\ MaxSends \in Nat /\ MaxCalls \in Nat

VARIABLES
  \* the network and the peers
  peer,     \* "off" | "on" | "gone"
  uplink,   \* messages written by the peer and not yet read by the server
  sent,     \* number of messages written by the peers
  inbox,    \* lines (indices of log) the server wrote, in order
  seen,     \* number of those lines the peer has read
  \* asio operations
  sock,     \* the server's socket of the connection: "none" | "open" | "closed"
  reads,    \* the async_read_some of the session
  acceptor, \* [open, op, c]: m_acceptor and its async_accept
  \* Server and ClientSession
  m_clients, username, m_clientsMutex, m_running,
  \* control
  stack,    \* the call stack of each thread, innermost call last
  process,  \* "up" | "failed" (main returned 1) | "crashed" | "done"
  calls,    \* number of calls made by Callers
  \* history
  log,      \* every line the server started to send, and the sessions then
  failed    \* connections on which a write of a broadcast failed

net  == <<peer, uplink, sent, seen>>
asio == <<sock, reads, acceptor>>
data == <<m_clients, username, m_running>>
hist == <<inbox, log, failed>>
vars == <<net, asio, data, hist, m_clientsMutex, stack, process, calls>>

Init ==
  /\ peer = [c \in Conns |-> "off"]
  /\ uplink = [c \in Conns |-> <<>>]
  /\ sent = 0
  /\ inbox = [c \in Conns |-> <<>>]
  /\ seen = [c \in Conns |-> 0]
  /\ sock = [c \in Conns |-> "none"]
  /\ reads = [c \in Conns |-> Idle]
  /\ acceptor = [open |-> TRUE, op |-> "idle", c |-> NoConn]
  /\ m_clients = <<>>
  /\ username = [c \in Conns |-> NoName]
  /\ m_clientsMutex = Nobody
  /\ m_running = FALSE
  /\ stack = [t \in Threads |-> IF t = Io
                                THEN <<FrameAt("start", "none", NoConn, NoName)>>
                                ELSE <<>>]
  /\ process = "up"
  /\ calls = 0
  /\ log = <<>>
  /\ failed = {}

-----------------------------------------------------------------------------
(* Calls, returns and the mutex.                                            *)

Top(t) == Last(stack[t])

At(t, label) == process = "up" /\ stack[t] # <<>> /\ Top(t).at = label

Push(t, f) == stack' = [stack EXCEPT ![t] = Append(@, f)]
Goto(t, f) == stack' = [stack EXCEPT ![t] = ReplaceAt(@, Len(@), f)]
Return(t)  == stack' = [stack EXCEPT ![t] = Front(@)]

\* The running activation continues as f after the call of g.
Call(t, f, g) ==
  stack' = [stack EXCEPT ![t] = Append(ReplaceAt(@, Len(@), f), g)]

\* std::mutex is not recursive: a thread cannot lock what it owns already.
CanLockAgain(t) == m_clientsMutex \in {Nobody, t}  \* faulty variant
CanLock(t) == m_clientsMutex = Nobody

DontLock(t) == UNCHANGED m_clientsMutex            \* faulty variant
Lock(t) == CanLock(t) /\ m_clientsMutex' = t

KeepLocked == UNCHANGED m_clientsMutex             \* faulty variant
Unlock == m_clientsMutex' = Nobody

(* asio: starting an operation, and what a synchronous write may do.        *)

\* Faulty variant: no read after the message that carried the username.
ReadOnce(c) ==
  reads' = [reads EXCEPT ![c] = IF username[c] = NoName THEN Armed ELSE Idle]

ReadClientMessage(c) ==
  reads' = [reads EXCEPT ![c] = IF sock[c] = "open" THEN Armed ELSE Eof]

\* Faulty variants: accepting on a closed acceptor; accepting while there is room.
AcceptAnyway == acceptor' = [acceptor EXCEPT !.op = "armed"]

AcceptWhileRoom ==
  acceptor' = [acceptor EXCEPT
    !.op = IF acceptor.open /\ Len(m_clients) < MaxClients THEN "armed" ELSE @]

AcceptConnections ==
  acceptor' = [acceptor EXCEPT !.op = IF acceptor.open THEN "armed" ELSE "failed"]

\* Closing a socket aborts its pending read; a completed one stays completed.
CloseNothing(S) == UNCHANGED <<sock, reads>>       \* faulty variant
CloseSockets(S) ==
  /\ sock' = [c \in Conns |-> IF c \in S /\ sock[c] = "open" THEN "closed" ELSE sock[c]]
  /\ reads' = [c \in Conns |-> IF c \in S /\ reads[c] = Armed THEN Eof ELSE reads[c]]

\* asio::write blocks while the peer is there and does not read: then neither
\* of these holds.  Writing to a peer that is gone succeeds until its reset
\* has arrived.
CanWrite(c)   == sock[c] = "open" /\ Len(inbox[c]) - seen[c] < SendBuf
WriteFails(c) == sock[c] # "open" \/ peer[c] = "gone"

Deliver(c, id) == inbox' = [inbox EXCEPT ![c] = Append(@, id)]

-----------------------------------------------------------------------------
(* Accepting connections.                                                   *)

Start ==
  /\ At(Io, "start")
  /\ m_running' = TRUE
  /\ AcceptConnections
  /\ Return(Io)
  /\ UNCHANGED <<net, sock, reads, m_clients, username, hist, m_clientsMutex,
                 process, calls>>

IoIdle == process = "up" /\ stack[Io] = <<>>

OnAccept ==
  /\ IoIdle /\ acceptor.op = "ready"
  /\ Push(Io, FrameAt("admit", "none", acceptor.c, NoName))
  /\ acceptor' = [acceptor EXCEPT !.op = "idle", !.c = NoConn]
  /\ UNCHANGED <<net, sock, reads, data, hist, m_clientsMutex, process, calls>>

\* The handler returns without starting another accept.
OnAcceptError ==
  /\ IoIdle /\ acceptor.op = "failed"
  /\ acceptor' = [acceptor EXCEPT !.op = "idle"]
  /\ UNCHANGED <<net, sock, reads, data, hist, m_clientsMutex, stack, process, calls>>

FullTooLate == Len(m_clients) > MaxClients         \* faulty variant
Full == Len(m_clients) >= MaxClients

RejectClient ==
  /\ At(Io, "admit") /\ CanLock(Io)
  /\ Full
  /\ CloseSockets({Top(Io).c})
  /\ AcceptConnections
  /\ Return(Io)
  /\ UNCHANGED <<net, data, hist, m_clientsMutex, process, calls>>

AdmitClient ==
  /\ At(Io, "admit") /\ CanLock(Io)
  /\ ~Full
  /\ Goto(Io, [Top(Io) EXCEPT !.at = "push"])
  /\ UNCHANGED <<net, asio, data, hist, m_clientsMutex, process, calls>>

PushClient ==
  /\ At(Io, "push") /\ CanLock(Io)
  /\ m_clients' = Append(m_clients, Top(Io).c)
  /\ Goto(Io, [Top(Io) EXCEPT !.at = "greet"])
  /\ UNCHANGED <<net, asio, username, m_running, hist, m_clientsMutex, process, calls>>

\* remote_endpoint() succeeds, then the first read and the next accept start.
GreetClient ==
  /\ At(Io, "greet") /\ sock[Top(Io).c] = "open"
  /\ ReadClientMessage(Top(Io).c)
  /\ AcceptConnections
  /\ Return(Io)
  /\ UNCHANGED <<net, sock, data, hist, m_clientsMutex, process, calls>>

\* remote_endpoint() throws on a socket that is closed or whose peer is gone;
\* the exception leaves run() and main() returns 1.
GreetThrows ==
  /\ At(Io, "greet")
  /\ WriteFails(Top(Io).c)
  /\ process' = "failed"
  /\ UNCHANGED <<net, asio, data, hist, m_clientsMutex, stack, calls>>

-----------------------------------------------------------------------------
(* Broadcasting and removing a session; run by any thread.                  *)

\* broadcastMessage's second argument: the sender of a chat line and the
\* subject of a "disconnected" line are left out.
ExcludeSender(f, c) == f.kind = "chat" /\ c = f.c  \* faulty variant
Excluded(f, c) == f.kind \in {"chat", "left"} /\ c = f.c

StartBroadcast(t) ==
  LET f == Top(t) IN
  /\ At(t, "bcast") /\ Lock(t)
  /\ log' = Append(log, [kind |-> f.kind, by |-> f.c, who |-> f.name,
                         to |-> Range(m_clients)])
  /\ Goto(t, [f EXCEPT !.at = "sending", !.id = Len(log) + 1, !.next = 1])
  /\ UNCHANGED <<net, asio, data, inbox, failed, process, calls>>

Sending(t) == At(t, "sending") /\ Top(t).next <= Len(m_clients)
Target(t)  == m_clients[Top(t).next]
WoundBack(t) == [Top(t) EXCEPT !.next = @ - 1]     \* faulty variant
Advanced(t) == [Top(t) EXCEPT !.next = @ + 1]

SkipExcluded(t) ==
  /\ Sending(t) /\ Excluded(Top(t), Target(t))
  /\ Goto(t, Advanced(t))
  /\ UNCHANGED <<net, asio, data, hist, m_clientsMutex, process, calls>>

SendLine(t) ==
  /\ Sending(t) /\ ~Excluded(Top(t), Target(t)) /\ CanWrite(Target(t))
  /\ Deliver(Target(t), Top(t).id)
  /\ Goto(t, Advanced(t))
  /\ UNCHANGED <<net, asio, data, log, failed, m_clientsMutex, process, calls>>

\* removeClient is called with m_clientsMutex held.
SendLineFails(t) ==
  /\ Sending(t) /\ ~Excluded(Top(t), Target(t)) /\ WriteFails(Target(t))
  /\ failed' = failed \cup {Target(t)}
  /\ Call(t, Advanced(t), FrameAt("remove", "none", Target(t), NoName))
  /\ UNCHANGED <<net, asio, data, inbox, log, m_clientsMutex, process, calls>>

EndBroadcast(t) ==
  /\ At(t, "sending") /\ Top(t).next > Len(m_clients)
  /\ Unlock
  /\ Return(t)
  /\ UNCHANGED <<net, asio, data, hist, process, calls>>

RemoveClient(t) ==
  LET f == Top(t)
      g == [f EXCEPT !.at = "erase"] IN
  /\ At(t, "remove")
  /\ \/ /\ username[f.c] # NoName
        /\ Call(t, g, FrameAt("bcast", "left", f.c, username[f.c]))
     \/ /\ username[f.c] = NoName
        /\ Goto(t, g)
  /\ UNCHANGED <<net, asio, data, hist, m_clientsMutex, process, calls>>

EraseClient(t) ==
  /\ At(t, "erase") /\ CanLock(t)
  /\ CloseSockets({Top(t).c})
  /\ m_clients' = RemoveFirst(m_clients, Top(t).c)
  /\ Return(t)
  /\ UNCHANGED <<net, acceptor, username, m_running, hist, m_clientsMutex,
                 process, calls>>

-----------------------------------------------------------------------------
(* The completion handler of a read, run by the io thread.                  *)

ReadDone(c, kind) == IoIdle /\ reads[c].kind = kind

\* Faulty variant: a broken connection is only logged.
IgnoreReadError(c) ==
  /\ ReadDone(c, "eof")
  /\ reads' = [reads EXCEPT ![c] = Idle]
  /\ UNCHANGED <<net, sock, acceptor, data, hist, m_clientsMutex, stack, process, calls>>

\* Faulty variant: the error is thrown, not handled.
ThrowReadError(c) ==
  /\ ReadDone(c, "eof")
  /\ process' = "failed"
  /\ UNCHANGED <<net, asio, data, hist, m_clientsMutex, stack, calls>>

OnReadError(c) ==
  /\ ReadDone(c, "eof")
  /\ reads' = [reads EXCEPT ![c] = Idle]
  /\ Push(Io, FrameAt("remove", "none", c, NoName))
  /\ UNCHANGED <<net, sock, acceptor, data, hist, m_clientsMutex, process, calls>>

\* Faulty variants: return instead of reading on; no test for white space.
OnBlankReturns(c) ==
  /\ ReadDone(c, "blank")
  /\ reads' = [reads EXCEPT ![c] = Idle]
  /\ UNCHANGED <<net, sock, acceptor, data, hist, m_clientsMutex, stack, process, calls>>

OnBlankParsed(c) ==
  /\ ReadDone(c, "blank")
  /\ process' = "failed"
  /\ UNCHANGED <<net, asio, data, hist, m_clientsMutex, stack, calls>>

OnBlank(c) ==
  /\ ReadDone(c, "blank")
  /\ ReadClientMessage(c)
  /\ UNCHANGED <<net, sock, acceptor, data, hist, m_clientsMutex, stack, process, calls>>

\* parse() throws and is caught; jsonMessage stays null, so that operator[] in
\* handleMessage throws type_error.305, which nothing below main() catches.
OnUnparsable(c) ==
  /\ ReadDone(c, "raw")
  /\ reads' = [reads EXCEPT ![c] = Idle]
  /\ process' = "failed"
  /\ UNCHANGED <<net, sock, acceptor, data, hist, m_clientsMutex, stack, calls>>

\* operator[] of the const value throws unless it is an object, and asserts that
\* the member is there; the conversion of a member that is no string throws.
OnOddMessage(c) ==
  /\ ReadDone(c, "odd")
  /\ reads' = [reads EXCEPT ![c] = Idle]
  /\ process' \in {"failed", "crashed"}
  /\ UNCHANGED <<net, sock, acceptor, data, hist, m_clientsMutex, stack, calls>>

\* handleMessage, then "rearm".
Handle(c, f) ==
  /\ reads' = [reads EXCEPT ![c] = Idle]
  /\ stack' = [stack EXCEPT ![Io] = <<FrameAt("rearm", "none", c, NoName), f>>]
  /\ UNCHANGED <<net, sock, acceptor, m_clients, m_running, hist, m_clientsMutex,
                 process, calls>>

\* Faulty variant: the name is stored and the message sent as a chat line.
OnFirstTextSilently(c) ==
  /\ ReadDone(c, "text") /\ username[c] = NoName
  /\ username' = [username EXCEPT ![c] = UserOf[c]]
  /\ Handle(c, FrameAt("bcast", "chat", c, UserOf[c]))

OnFirstText(c) ==
  /\ ReadDone(c, "text") /\ username[c] = NoName
  /\ username' = [username EXCEPT ![c] = UserOf[c]]
  /\ Handle(c, FrameAt("bcast", "joined", c, UserOf[c]))

OnText(c) ==
  /\ ReadDone(c, "text") /\ username[c] # NoName
  /\ Handle(c, FrameAt("bcast", "chat", c, username[c]))
  /\ UNCHANGED username

OnDirectMessage(c) ==
  /\ ReadDone(c, "dm")
  /\ Handle(c, FrameAt("dm", "dm", c, reads[c].to))
  /\ UNCHANGED username

Rearm ==
  /\ At(Io, "rearm")
  /\ ReadClientMessage(Top(Io).c)
  /\ Return(Io)
  /\ UNCHANGED <<net, sock, acceptor, data, hist, m_clientsMutex, process, calls>>

(* Direct messages: the whole search and write is under the mutex.          *)

\* Index of the first session with that name, 0 if there is none.
FindClient(name) == SelectInSeq(m_clients, LAMBDA c : username[c] = name)

StartDirect ==
  LET f     == Top(Io)
      it    == FindClient(f.name)
      kind  == IF it = 0 THEN "nouser" ELSE "dm"
      whom  == IF it = 0 THEN f.c ELSE m_clients[it] IN
  /\ At(Io, "dm") /\ Lock(Io)
  /\ log' = Append(log, [kind |-> kind, by |-> f.c, who |-> username[f.c],
                         to |-> {whom}])
  /\ Goto(Io, [f EXCEPT !.at = IF it = 0 THEN "nouser" ELSE "dmsend",
                        !.kind = kind, !.id = Len(log) + 1, !.next = it])
  /\ UNCHANGED <<net, asio, data, inbox, failed, process, calls>>

\* The result of tryToSendMessage is ignored.
WriteDirect(c) ==
  \/ CanWrite(c) /\ Deliver(c, Top(Io).id)
  \/ WriteFails(c) /\ UNCHANGED inbox

SendDirect ==
  /\ At(Io, "dmsend")
  /\ WriteDirect(Target(Io))
  /\ Unlock
  /\ Return(Io)
  /\ UNCHANGED <<net, asio, data, log, failed, process, calls>>

\* After the reply the code logs (*it)->username with it = m_clients.end(),
\* which is undefined: it may crash the process or read some old string.
SendNotFound ==
  /\ At(Io, "nouser")
  /\ WriteDirect(Top(Io).c)
  /\ \/ Unlock /\ Return(Io) /\ UNCHANGED process
     \/ process' = "crashed" /\ UNCHANGED <<m_clientsMutex, stack>>
  /\ UNCHANGED <<net, asio, data, log, failed, calls>>

-----------------------------------------------------------------------------
(* The public interface, called by other threads.                           *)

CallBroadcast(t) ==
  /\ process = "up" /\ stack[t] = <<>> /\ calls < MaxCalls
  /\ calls' = calls + 1
  /\ Push(t, FrameAt("bcast", "notice", NoConn, NoName))
  /\ UNCHANGED <<net, asio, data, hist, m_clientsMutex, process>>

CallShutdown(t) ==
  /\ process = "up" /\ stack[t] = <<>> /\ calls < MaxCalls
  /\ calls' = calls + 1
  /\ m_running' = FALSE
  /\ Push(t, FrameAt("shutdown", "none", NoConn, NoName))
  /\ UNCHANGED <<net, asio, m_clients, username, hist, m_clientsMutex, process>>

\* Closing the acceptor aborts a pending accept, not a completed one.
Shutdown(t) ==
  /\ At(t, "shutdown") /\ CanLock(t)
  /\ CloseSockets(Range(m_clients))
  /\ m_clients' = <<>>
  /\ acceptor' = [acceptor EXCEPT !.open = FALSE,
                                  !.op = IF @ = "armed" THEN "failed" ELSE @]
  /\ Return(t)
  /\ UNCHANGED <<net, username, m_running, hist, m_clientsMutex, process, calls>>

\* io_context::run() returns when no operation is outstanding; main returns 0.
RunReturns ==
  /\ IoIdle /\ acceptor.op = "idle"
  /\ \A c \in Conns : reads[c] = Idle
  /\ process' = "done"
  /\ UNCHANGED <<net, asio, data, hist, m_clientsMutex, stack, calls>>

-----------------------------------------------------------------------------
(* Completions of asynchronous operations, and the peers.                   *)

AcceptCompletes(c) ==
  /\ process = "up" /\ acceptor.op = "armed"
  /\ peer[c] # "off" /\ sock[c] = "none"
  /\ sock' = [sock EXCEPT ![c] = "open"]
  /\ acceptor' = [acceptor EXCEPT !.op = "ready", !.c = c]
  /\ UNCHANGED <<net, reads, data, hist, m_clientsMutex, stack, process, calls>>

AcceptFails ==
  /\ process = "up" /\ acceptor.op = "armed" /\ "accept" \in Faults
  /\ acceptor' = [acceptor EXCEPT !.op = "failed"]
  /\ UNCHANGED <<net, sock, reads, data, hist, m_clientsMutex, stack, process, calls>>

\* One read returns whatever has arrived: one message or several.
ReadCompletes(c) ==
  /\ process = "up" /\ reads[c] = Armed
  /\ \E n \in 1..Len(uplink[c]) :
       /\ reads' = [reads EXCEPT ![c] = Chunk(SubSeq(uplink[c], 1, n))]
       /\ uplink' = [uplink EXCEPT ![c] = SubSeq(@, n + 1, Len(@))]
  /\ UNCHANGED <<peer, sent, seen, sock, acceptor, data, hist, m_clientsMutex,
                 stack, process, calls>>

\* A read returns the first part of a JSON text.
ReadSplits(c) ==
  /\ process = "up" /\ reads[c] = Armed /\ "split" \in Faults
  /\ uplink[c] # <<>> /\ Head(uplink[c]).kind # "blank"
  /\ reads' = [reads EXCEPT ![c] = Raw]
  /\ UNCHANGED <<net, sock, acceptor, data, hist, m_clientsMutex, stack, process, calls>>

\* End of file after the last message, or a reset that discards the rest.
ReadFails(c) ==
  /\ process = "up" /\ reads[c] = Armed /\ peer[c] = "gone"
  /\ reads' = [reads EXCEPT ![c] = Eof]
  /\ UNCHANGED <<net, sock, acceptor, data, hist, m_clientsMutex, stack, process, calls>>

PeerConnect(c) ==
  /\ process = "up" /\ peer[c] = "off" /\ acceptor.open
  /\ peer' = [peer EXCEPT ![c] = "on"]
  /\ UNCHANGED <<uplink, sent, seen, asio, data, hist, m_clientsMutex, stack,
                 process, calls>>

PeerSend(c, m) ==
  /\ process = "up" /\ peer[c] = "on" /\ sock[c] # "closed"
  /\ sent < MaxSends /\ Len(uplink[c]) < Pipeline
  /\ uplink' = [uplink EXCEPT ![c] = Append(@, m)]
  /\ sent' = sent + 1
  /\ UNCHANGED <<peer, seen, asio, data, hist, m_clientsMutex, stack, process, calls>>

\* Lines that have arrived may be read together.
PeerRead(c) ==
  /\ process = "up" /\ peer[c] = "on"
  /\ \E n \in 1..(Len(inbox[c]) - seen[c]) : seen' = [seen EXCEPT ![c] = @ + n]
  /\ UNCHANGED <<peer, uplink, sent, asio, data, hist, m_clientsMutex, stack,
                 process, calls>>

PeerLeave(c) ==
  /\ process = "up" /\ peer[c] = "on" /\ c \in MayLeave
  /\ peer' = [peer EXCEPT ![c] = "gone"]
  /\ UNCHANGED <<uplink, sent, seen, asio, data, hist, m_clientsMutex, stack,
                 process, calls>>

-----------------------------------------------------------------------------
Accepting ==
  \/ Start \/ OnAccept \/ OnAcceptError \/ RejectClient \/ AdmitClient
  \/ PushClient \/ GreetClient \/ GreetThrows

Reading(c) ==
  \/ OnReadError(c) \/ OnBlank(c) \/ OnUnparsable(c) \/ OnOddMessage(c)
  \/ OnFirstText(c) \/ OnText(c) \/ OnDirectMessage(c)

Direct == StartDirect \/ SendDirect \/ SendNotFound

Broadcasting(t) ==
  \/ StartBroadcast(t) \/ SkipExcluded(t) \/ SendLine(t) \/ SendLineFails(t)
  \/ EndBroadcast(t) \/ RemoveClient(t) \/ EraseClient(t)

IoStep ==
  \/ Accepting \/ Direct \/ Rearm \/ RunReturns \/ Broadcasting(Io)
  \/ \E c \in Conns : Reading(c)

CallerStep(t) == Shutdown(t) \/ Broadcasting(t)

Completion(c) == AcceptCompletes(c) \/ ReadCompletes(c) \/ ReadSplits(c) \/ ReadFails(c)

Peers(c) ==
  PeerConnect(c) \/ PeerRead(c) \/ PeerLeave(c) \/ \E m \in Inputs : PeerSend(c, m)

Next ==
  \/ IoStep
  \/ \E t \in Callers : CallerStep(t) \/ CallBroadcast(t) \/ CallShutdown(t)
  \/ \E c \in Conns : Completion(c) \/ Peers(c)
  \/ AcceptFails

Spec == Init /\ [][Next]_vars

(***************************************************************************)
(* Fairness: run() keeps running handlers, the kernel completes what it    *)
(* can, a calling thread is scheduled, and the reader thread of a peer     *)
(* keeps reading.  Nothing obliges a user to connect, write or leave.      *)
(***************************************************************************)
Fairness ==
  /\ WF_vars(IoStep)
  /\ \A t \in Callers : WF_vars(CallerStep(t))
  /\ \A c \in Conns : WF_vars(Completion(c)) /\ WF_vars(PeerRead(c))

FairSpec == Spec /\ Fairness

-----------------------------------------------------------------------------
(* Properties.                                                              *)

Member(c) == c \in Range(m_clients)

\* The sessions line k is meant for: a chat line is not echoed to its sender,
\* and who has left is not told so.
Audience(k) ==
  IF log[k].kind \in {"chat", "left"} THEN log[k].to \ {log[k].by} ELSE log[k].to

Delivered(k) == \A c \in Audience(k) : k \in Range(inbox[c])

\* The variables have the values their declarations promise.
TypeOK ==
  /\ peer \in [Conns -> {"off", "on", "gone"}]
  /\ uplink \in [Conns -> Seq(Message)]
  /\ sent \in Nat
  /\ inbox \in [Conns -> Seq(Nat)]
  /\ seen \in [Conns -> Nat]
  /\ sock \in [Conns -> {"none", "open", "closed"}]
  /\ reads \in [Conns -> ReadState]
  /\ acceptor \in Acceptor
  /\ m_clients \in Seq(Conns)
  /\ username \in [Conns -> Names \cup {NoName}]
  /\ m_clientsMutex \in Threads \cup {Nobody}
  /\ m_running \in BOOLEAN
  /\ stack \in [Threads -> Seq(Frame)]
  /\ process \in {"up", "failed", "crashed", "done"}
  /\ calls \in Nat
  /\ log \in Seq(Line)
  /\ failed \in SUBSET Conns

\* A thread owns m_clientsMutex exactly while one of its calls, however deeply
\* nested below others, is inside a lock_guard scope, and at most one is.
MutexHeldInScope ==
  \A t \in Threads :
    /\ m_clientsMutex = t <=> \E f \in Range(stack[t]) : f.at \in LockedAt
    /\ \A i, j \in DOMAIN stack[t] :
         stack[t][i].at \in LockedAt /\ stack[t][j].at \in LockedAt => i = j

\* The limit check and the push_back of an accept are in two lock scopes; no
\* interleaving of them with other threads exceeds m_maxClients.
WithinLimit == Len(m_clients) <= MaxClients

\* m_clients lists every session once, and lists exactly the open sockets,
\* but for the connection whose accept handler has not reached push_back.
RegistryMatchesSockets ==
  /\ IsInjective(m_clients)
  /\ \A c \in Conns :
       Member(c) <=> /\ sock[c] = "open"
                     /\ acceptor.c # c
                     /\ \A f \in Range(stack[Io]) : f.c = c => f.at \notin {"admit", "push"}

\* An open connection is never forgotten: its read is outstanding, or a
\* handler that will start one or close it is waiting or running; and a
\* handler that will start one finds none outstanding.
NoLostSession ==
  process = "up" =>
    /\ \A c \in Conns :
         sock[c] = "open" =>
           \/ acceptor.c = c
           \/ reads[c] # Idle
           \/ \E f \in Range(stack[Io]) :
                f.c = c /\ f.at \in {"admit", "push", "greet", "rearm", "remove", "erase"}
    /\ \A f \in Range(stack[Io]) : f.at \in {"greet", "rearm"} => reads[f.c] = Idle

\* All clients see the lines they have in common in the same order, the order
\* in which the calls took the mutex.
TotalOrder ==
  \A c \in Conns : \A i, j \in DOMAIN inbox[c] : i < j => inbox[c][i] < inbox[c][j]

\* A line goes to nobody but the sessions it is meant for among those listed
\* when the mutex was taken, and a broadcast that has returned has reached
\* every one of them.
FanOut ==
  \A k \in DOMAIN log :
    /\ \A c \in Conns : k \in Range(inbox[c]) => c \in Audience(k)
    /\ \/ log[k].kind \in {"dm", "nouser"}
       \/ \E t \in Threads : \E f \in Range(stack[t]) : f.id = k
       \/ Delivered(k)

\* In the history of a session "joined" comes before the first chat line and
\* before "left", under the same name, and nothing comes after "left".
SessionStory ==
  \A k \in DOMAIN log :
    /\ log[k].kind \in {"chat", "left"} =>
         \E j \in 1..(k - 1) :
           log[j].kind = "joined" /\ log[j].by = log[k].by /\ log[j].who = log[k].who
    /\ log[k].kind = "left" =>
         \A j \in DOMAIN log : j > k => log[j].by # log[k].by

\* m_clients does not change while a range-for of broadcastMessage is iterating
\* over it, although a failed write calls removeClient from inside the loop.
IterationSafe ==
  [][(\E t \in Threads : \E f \in Range(stack[t]) : f.at = "sending")
       => m_clients' = m_clients]_vars

\* The iterators that broadcastMessage and handleMessage hold stay valid, and a
\* direct message goes to a session that still has the name asked for.
IteratorsValid ==
  \A t \in Threads : \A f \in Range(stack[t]) :
    /\ f.at = "sending" => f.next \in 1..(Len(m_clients) + 1)
    /\ f.at = "dmsend" => /\ f.next \in DOMAIN m_clients
                          /\ username[m_clients[f.next]] = f.name
                          /\ log[f.id].to = {m_clients[f.next]}

\* main returns 0 only when no session is left: an accept error ends the
\* accept loop, and the process ends with its last session and not before.
NoEarlyReturn ==
  process = "done" => m_clients = <<>> /\ \A c \in Conns : sock[c] # "open"

\* After a failed broadcast write the mutex is never released again: the
\* removal of the client asks for the mutex its own thread holds.
FailedWriteHoldsMutex == failed # {} => m_clientsMutex # Nobody

\* After shutdown at most the one connection whose accept had completed still
\* becomes a session.
LateSessions == ~acceptor.open => Len(m_clients) <= 1

\* While peers neither leave nor have two messages under way at once, and
\* segments are not split, no message stops the server.
KeepsRunning == process = "up"

\* The peers may leave or reset at any time, and the server survives it but for
\* one place: between push_back and the first read of the session, where
\* remote_endpoint() throws.
OnlyGreetingStops ==
  process \in {"failed", "crashed"} =>
    \E c \in Conns : /\ WriteFails(c)
                     /\ stack[Io] = <<FrameAt("greet", "none", c, NoName)>>
                     /\ Member(c) /\ username[c] = NoName

\* Every connection is eventually admitted or rejected.
EventuallyAnswered == \A c \in Conns : peer[c] = "on" ~> sock[c] # "none"

\* Every message of a session is eventually read by the server, and every line
\* eventually written to everyone it is meant for.
EventuallyDelivered ==
  /\ \A c \in Conns : Member(c) /\ uplink[c] # <<>> ~> uplink[c] = <<>>
  /\ \A k \in 1..MaxSends : k \in DOMAIN log ~> k \in DOMAIN log /\ Delivered(k)

\* A session whose peer is gone is eventually removed, unless the server has
\* stopped or a write to it failed before its read did.
DisconnectNoticed ==
  \A c \in Conns :
    Member(c) /\ peer[c] = "gone" ~> ~Member(c) \/ process # "up" \/ failed # {}

\* server.cpp:28: "Here we try to send the message to the client, and if it
\* fails, and error message will be printed and they'll be removed."
FailedClientRemoved == \A c \in Conns : c \in failed ~> ~Member(c)

=============================================================================
