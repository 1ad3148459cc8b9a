------------------------------ MODULE ChatSystem ------------------------------
(***************************************************************************)
(* The server and its clients together: ChatServer, in which the place of  *)
(* the peers is taken by the client program, one per connection, with its  *)
(* window thread (client/main.cpp) and its reader thread                   *)
(* (common/client.cpp).  All of them block: a write to a connection waits  *)
(* until the other side has read, in both directions.                      *)
(*                                                                         *)
(* The operations of the client's queue are single steps here, which       *)
(* TSQueue justifies, and the reader takes a chunk and queues or drops it  *)
(* in one step; ChatClient has the steps between.                          *)
(***************************************************************************)
EXTENDS Naturals, FiniteSets, SequencesExt

CONSTANTS
  Conns, NoConn, Names, NoName, UserOf, Io, Callers, Nobody, MaxClients, Inputs,
  MayLeave, Faults, SendBuf, Pipeline, MaxSends, MaxCalls,
  MaxQueue,    \* the cap the reader keeps on the queue (250)
  MayFail      \* the clients whose writes may fail although the server is there

VARIABLES
  peer, uplink, sent, inbox, seen, sock, reads, acceptor, m_clients, username,
  m_clientsMutex, m_running, stack, process, calls, log, failed,
  window,      \* where the window thread of a client continues: "connect";
               \* "drain" or "input", the halves of a frame; "register" or
               \* "sending", inside asio::write; "closed"
  reader,      \* where its reader thread continues: "none" before it is
               \* started, "test", "read", "done"
  m_connected,
  queue,       \* m_messageQueue: chunks, a chunk being the lines read at once
  shown,       \* the lines in the window that came from the server
  dropped      \* history: the lines that were not queued

Server == INSTANCE ChatServer

serverVars == <<peer, uplink, sent, inbox, seen, sock, reads, acceptor, m_clients,
                username, m_clientsMutex, m_running, stack, process, calls, log, failed>>
clientVars == <<window, reader, m_connected, queue, shown, dropped>>
vars == <<serverVars, clientVars>>

ASSUME SystemAssumption ==
  Server!ConstantsAssumption /\ MaxQueue \in Nat /\ MayFail \subseteq Conns

Init ==
  /\ Server!Init
  /\ window = [c \in Conns |-> "connect"]
  /\ reader = [c \in Conns |-> "none"]
  /\ m_connected = [c \in Conns |-> FALSE]
  /\ queue = [c \in Conns |-> <<>>]
  /\ shown = [c \in Conns |-> <<>>]
  /\ dropped = [c \in Conns |-> {}]

WindowGoes(c, here, there) == window[c] = here /\ window' = [window EXCEPT ![c] = there]
ReaderGoes(c, here, there) == reader[c] = here /\ reader' = [reader EXCEPT ![c] = there]

Writing(c) == window[c] \in {"register", "sending"}

\* Bound: writes begun and made are MaxSends at most.
MayWrite == sent + Cardinality({c \in Conns : Writing(c)}) < MaxSends

-----------------------------------------------------------------------------
(* The window thread.                                                       *)

Connect(c) ==
  /\ WindowGoes(c, "connect", "register") /\ MayWrite
  /\ m_connected' = [m_connected EXCEPT ![c] = TRUE]
  /\ Server!PeerConnect(c)
  /\ UNCHANGED <<reader, queue, shown, dropped>>

ConnectFails(c) ==
  /\ WindowGoes(c, "connect", "drain") /\ (~acceptor.open \/ process # "up")
  /\ UNCHANGED <<serverVars, reader, m_connected, queue, shown, dropped>>

\* Faulty variant: the reader is not started.
WrittenOnly(c) ==
  /\ Writing(c)
  /\ window' = [window EXCEPT ![c] = "drain"]
  /\ UNCHANGED <<reader, queue, shown, dropped>>

\* asio::write returns.  connect() starts the reader after its write.
Written(c) ==
  /\ Writing(c)
  /\ window' = [window EXCEPT ![c] = "drain"]
  /\ reader' = [reader EXCEPT ![c] = IF window[c] = "register" THEN "test" ELSE @]
  /\ UNCHANGED <<queue, shown, dropped>>

\* The server has closed the connection, or is gone.
Cut(c) == sock[c] = "closed" \/ process # "up"

Sends(c) ==
  /\ Written(c)
  /\ \E m \in Inputs : Server!PeerSend(c, m)
  /\ UNCHANGED m_connected

\* The first write to a connection that has been cut may still succeed.
SendIsLost(c) == Written(c) /\ Cut(c) /\ UNCHANGED <<serverVars, m_connected>>

SendFails(c) ==
  /\ Written(c) /\ (Cut(c) \/ c \in MayFail)
  /\ m_connected' = [m_connected EXCEPT ![c] = FALSE]
  /\ UNCHANGED serverVars

\* while (!isMessageQueueEmpty())
ShowsChunk(c) ==
  /\ window[c] = "drain" /\ queue[c] # <<>>
  /\ shown' = [shown EXCEPT ![c] = @ \o Head(queue[c])]
  /\ queue' = [queue EXCEPT ![c] = Tail(@)]
  /\ UNCHANGED <<serverVars, window, reader, m_connected, dropped>>

Drained(c) ==
  /\ WindowGoes(c, "drain", "input") /\ queue[c] = <<>>
  /\ UNCHANGED <<serverVars, reader, m_connected, queue, shown, dropped>>

\* The Send button; sendMessage() returns at once if not connected.
PressSend(c) ==
  /\ WindowGoes(c, "input", "sending") /\ m_connected[c] /\ MayWrite
  /\ UNCHANGED <<serverVars, reader, m_connected, queue, shown, dropped>>

NoInput(c) ==
  /\ WindowGoes(c, "input", "drain")
  /\ UNCHANGED <<serverVars, reader, m_connected, queue, shown, dropped>>

CloseWindow(c) ==
  /\ WindowGoes(c, "input", "closed")
  /\ Server!PeerLeave(c)
  /\ reader' = [reader EXCEPT ![c] = "done"]
  /\ UNCHANGED <<m_connected, queue, shown, dropped>>

-----------------------------------------------------------------------------
(* The reader thread.                                                       *)

TestConnected(c) ==
  /\ ReaderGoes(c, "test", IF m_connected[c] THEN "read" ELSE "done")
  /\ UNCHANGED <<serverVars, window, m_connected, queue, shown, dropped>>

Arrived(c) == SubSeq(inbox[c], seen[c] + 1, seen'[c])

\* Faulty variants: at a full queue the loop is left, not continued; chunks are
\* pushed at the front.
ReadsUntilFull(c) ==
  /\ ReaderGoes(c, "read", IF Len(queue[c]) > MaxQueue THEN "done" ELSE "test")
  /\ Server!PeerRead(c)
  /\ IF Len(queue[c]) > MaxQueue
     THEN UNCHANGED queue /\ dropped' = [dropped EXCEPT ![c] = @ \cup Range(Arrived(c))]
     ELSE queue' = [queue EXCEPT ![c] = Append(@, Arrived(c))] /\ UNCHANGED dropped
  /\ UNCHANGED <<window, m_connected, shown>>

ReadsUnordered(c) ==
  /\ ReaderGoes(c, "read", "test")
  /\ Server!PeerRead(c)
  /\ IF Len(queue[c]) > MaxQueue
     THEN UNCHANGED queue /\ dropped' = [dropped EXCEPT ![c] = @ \cup Range(Arrived(c))]
     ELSE queue' = [queue EXCEPT ![c] = <<Arrived(c)>> \o @] /\ UNCHANGED dropped
  /\ UNCHANGED <<window, m_connected, shown>>

ReadsChunk(c) ==
  /\ ReaderGoes(c, "read", "test")
  /\ Server!PeerRead(c)
  /\ IF Len(queue[c]) > MaxQueue
     THEN UNCHANGED queue /\ dropped' = [dropped EXCEPT ![c] = @ \cup Range(Arrived(c))]
     ELSE queue' = [queue EXCEPT ![c] = Append(@, Arrived(c))] /\ UNCHANGED dropped
  /\ UNCHANGED <<window, m_connected, shown>>

\* read_some() throws: end of file, or a reset, which discards what has arrived.
ReadFails(c) ==
  /\ ReaderGoes(c, "read", "done") /\ Cut(c)
  /\ process = "up" => seen[c] = Len(inbox[c])
  /\ m_connected' = [m_connected EXCEPT ![c] = FALSE]
  /\ UNCHANGED <<serverVars, window, queue, shown, dropped>>

-----------------------------------------------------------------------------
ServerStep ==
  /\ \/ Server!IoStep
     \/ \E t \in Callers : Server!CallerStep(t) \/ Server!CallBroadcast(t) \/ Server!CallShutdown(t)
     \/ \E c \in Conns : Server!Completion(c)
     \/ Server!AcceptFails
  /\ UNCHANGED clientVars

\* What the window thread does by itself, and what its user makes it do.
WindowStep(c) ==
  Sends(c) \/ SendIsLost(c) \/ SendFails(c) \/ ShowsChunk(c) \/ Drained(c) \/ NoInput(c)
UserStep(c)   == Connect(c) \/ ConnectFails(c) \/ PressSend(c) \/ CloseWindow(c)
ReaderStep(c) == TestConnected(c) \/ ReadsChunk(c) \/ ReadFails(c)

Next ==
  \/ ServerStep
  \/ \E c \in Conns : WindowStep(c) \/ UserStep(c) \/ ReaderStep(c)

Spec == Init /\ [][Next]_vars

\* The server's threads as in ChatServer; both threads of every client run.
Fairness ==
  /\ WF_vars(Server!IoStep /\ UNCHANGED clientVars)
  /\ \A t \in Callers : WF_vars(Server!CallerStep(t) /\ UNCHANGED clientVars)
  /\ \A c \in Conns :
       /\ WF_vars(Server!Completion(c) /\ UNCHANGED clientVars)
       /\ WF_vars(WindowStep(c))
       /\ WF_vars(ReaderStep(c))

FairSpec == Spec /\ Fairness

-----------------------------------------------------------------------------
(* Properties.                                                              *)

Increasing(s) == \A i, j \in DOMAIN s : i < j => s[i] < s[j]

\* The chunks a client has received and not dropped; those in the window are one.
Received(c) == <<shown[c]>> \o queue[c]
HasRead(c)  == {inbox[c][i] : i \in 1..seen[c]}

\* All windows show the lines of the server in one order, that in which the
\* server said them, and a window misses none of the lines its client has read
\* but those that were dropped at the cap.
WindowsAgree ==
  \A c \in Conns :
    /\ \A chunk \in Range(Received(c)) : Increasing(chunk)
    /\ \A i, j \in DOMAIN Received(c) :
         i < j => \A x \in Range(Received(c)[i]), y \in Range(Received(c)[j]) : x < y
    /\ UNION {Range(chunk) : chunk \in Range(Received(c))} = HasRead(c) \ dropped[c]

\* A client has given up when a write has failed: its socket is open, and
\* its reader has stopped or stops after the next chunk.
GivenUp(c) == ~m_connected[c] /\ window[c] # "connect" /\ sock[c] = "open"

\* asio::write in the window thread returns, so that the window does not freeze:
\* bounded buffers in both directions, the server's blocking writes and the
\* cap of the queue never make the threads wait in a circle.  The exceptions are
\* a client that has given up, and a failed write in the server.
WritesReturn ==
  \A c \in Conns :
    Writing(c) ~> ~Writing(c) \/ failed # {} \/ \E d \in Conns : GivenUp(d)

\* The server's thread waits for ever in a write only for a client that has
\* given up; while it waits the mutex is held and nobody is served.
WaitsForGivenUp ==
  \A c \in Conns :
    Server!Sending(Io) /\ Server!Target(Io) = c
      ~> \/ ~(Server!Sending(Io) /\ Server!Target(Io) = c)
         \/ GivenUp(c)

\* A line for somebody is shown in their window or dropped at the cap, unless
\* they close it, give up or are cut off, or somebody else stops the server.
EventuallyInWindow ==
  \A c \in Conns : \A k \in 1..MaxSends :
    k \in DOMAIN log /\ c \in Server!Audience(k)
      ~> \/ k \in Range(shown[c]) \cup dropped[c]
         \/ window[c] = "closed" \/ Cut(c) \/ failed # {}
         \/ \E d \in Conns : GivenUp(d)

=============================================================================
