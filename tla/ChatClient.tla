------------------------------ MODULE ChatClient ------------------------------
(***************************************************************************)
(* The chat client: the window thread of client/main.cpp, the Client       *)
(* object of common/client.{h,cpp} and its detached reader thread, which   *)
(* share the Client's tsqueue, its socket and the plain bool m_connected.  *)
(*                                                                         *)
(* The queue is TSQueue, step by step; the socket and the server are       *)
(* external.  A chunk is what one read_some returns; chunks are numbered   *)
(* as they arrive.                                                         *)
(***************************************************************************)
EXTENDS Naturals, SequencesExt

CONSTANTS
  Gui,       \* the window thread, which runs main()
  Reader,    \* the thread that runs readFromServer()
  Nobody, NoValue,
  MaxQueue,  \* the cap the reader keeps on the queue (250)
  MaxChunks, \* bound: chunks the server sends
  MaxSends   \* bound: presses of the Send button

Chunks == 1..MaxChunks
Own    == 0             \* a line the user typed, among the lines shown

VARIABLES
  deqQueue, muxQueue, muxBlocking, cvBlocking, at, op, item, view, ready,
  gui,          \* where the window thread continues, see GuiPlaces
  reader,       \* where the reader continues, see ReaderPlaces
  m_connected,
  socket,       \* "none", "open", "shut" (by the server) or "closed" (by ~Client)
  arrived,      \* how many chunks have arrived
  read,         \* how many chunks the reader has read
  m_messages,   \* the lines shown in the window
  wire,         \* what has been written to the server
  presses,      \* how often Send was pressed
  dropped,      \* history: the chunks that were not queued
  late          \* history: how many chunks were read after m_connected was cleared

queueVars == <<deqQueue, muxQueue, muxBlocking, cvBlocking, at, op, item, view, ready>>
guiVars   == <<m_messages, wire, presses>>
readVars  == <<read, dropped, late>>
vars == <<queueVars, gui, reader, m_connected, socket, arrived, guiVars, readVars>>

\* The reader is the only producer and the window thread the only consumer.
Queue == INSTANCE TSQueue WITH
  Producers <- {Reader}, Consumer <- Gui, Values <- Chunks, MaxLen <- MaxQueue + 2

ASSUME ClientAssumption ==
  /\ Gui # Reader /\ Nobody \notin {Gui, Reader} /\ NoValue \notin Chunks
  /\ MaxQueue \in Nat /\ MaxChunks \in Nat /\ MaxSends \in Nat

\* "connect": AppState CONNECT.  "register": in connect(), about to send the
\* username.  "drain", "popping", "input": AppState CHAT.  "frame": the end of
\* a frame.  "destroy", "clearing", "exit": the window is closed.
GuiPlaces    == {"connect", "register", "drain", "popping", "input", "frame",
                 "destroy", "clearing", "exit"}
ReaderPlaces == {"none", "test", "read", "size", "push", "done"}

Init ==
  /\ Queue!Init
  /\ gui = "connect" /\ reader = "none"
  /\ m_connected = FALSE /\ socket = "none"
  /\ arrived = 0 /\ read = 0
  /\ m_messages = <<>> /\ wire = <<>> /\ presses = 0
  /\ dropped = {} /\ late = 0

GuiGoes(here, there)    == gui = here /\ gui' = there
ReaderGoes(here, there) == gui # "exit" /\ reader = here /\ reader' = there

-----------------------------------------------------------------------------
(* Client::connect, called once when the Connect button is pressed.         *)

\* socket->connect() succeeds, or throws and the CHAT state is entered all the
\* same.
Connects ==
  /\ GuiGoes("connect", "register")
  /\ socket' = "open" /\ m_connected' = TRUE
  /\ UNCHANGED <<queueVars, reader, arrived, guiVars, readVars>>

ConnectFails ==
  /\ GuiGoes("connect", "frame")
  /\ UNCHANGED <<queueVars, reader, m_connected, socket, arrived, guiVars, readVars>>

\* Faulty variant: a failed write does not clear m_connected.
SendMessageKeeps(text) ==
  \/ m_connected /\ wire' = Append(wire, text) /\ UNCHANGED m_connected
  \/ UNCHANGED <<m_connected, wire>>

\* Client::sendMessage.  asio::write hands the text to the kernel, also when the
\* server has just closed its side, or throws; sendMessage catches it.
SendMessage(text) ==
  \/ m_connected /\ wire' = Append(wire, text) /\ UNCHANGED m_connected
  \/ m_connected /\ m_connected' = FALSE /\ UNCHANGED wire
  \/ ~m_connected /\ UNCHANGED <<m_connected, wire>>

Register ==
  /\ GuiGoes("register", "frame")
  /\ SendMessage("username")
  /\ reader' = "test"
  /\ UNCHANGED <<queueVars, socket, arrived, m_messages, presses, readVars>>

-----------------------------------------------------------------------------
(* A frame of the CHAT state.                                               *)

\* while (!isMessageQueueEmpty()): one critical section for the test ...
SeesMessage ==
  /\ GuiGoes("drain", "popping") /\ deqQueue # <<>>
  /\ Queue!Empty(Gui)
  /\ UNCHANGED <<reader, m_connected, socket, arrived, guiVars, readVars>>

SeesNone ==
  /\ GuiGoes("drain", "input") /\ deqQueue = <<>>
  /\ Queue!Empty(Gui)
  /\ UNCHANGED <<reader, m_connected, socket, arrived, guiVars, readVars>>

\* ... and another for the pop, whose result goes to m_messages.
PopCalled ==
  /\ gui = "popping" /\ Queue!CallPop(Gui, "pop_front")
  /\ UNCHANGED <<gui, reader, m_connected, socket, arrived, guiVars, readVars>>

PopLocks ==
  /\ gui = "popping" /\ Queue!Acquire(Gui)
  /\ UNCHANGED <<gui, reader, m_connected, socket, arrived, guiVars, readVars>>

Pops ==
  /\ GuiGoes("popping", "drain") /\ Queue!Take(Gui)
  /\ m_messages' = Append(m_messages, item'[Gui])
  /\ UNCHANGED <<reader, m_connected, socket, arrived, wire, presses, readVars>>

\* The Send button: the line is shown whether or not it was sent.
PressSend ==
  /\ GuiGoes("input", "frame") /\ presses < MaxSends
  /\ presses' = presses + 1
  /\ SendMessage("text")
  /\ m_messages' = Append(m_messages, Own)
  /\ UNCHANGED <<queueVars, reader, socket, arrived, readVars>>

NoInput ==
  /\ GuiGoes("input", "frame")
  /\ UNCHANGED <<queueVars, reader, m_connected, socket, arrived, guiVars, readVars>>

\* Faulty variant: the queue is drained only while connected.
NextFrameConnected ==
  /\ GuiGoes("frame", IF m_connected THEN "drain" ELSE "input")
  /\ UNCHANGED <<queueVars, reader, m_connected, socket, arrived, guiVars, readVars>>

NextFrame ==
  /\ GuiGoes("frame", "drain")
  /\ UNCHANGED <<queueVars, reader, m_connected, socket, arrived, guiVars, readVars>>

\* The window is closed: main() leaves the loop and destroys the application.
\* ~Client closes the socket and then clears the queue; the reader is detached
\* and goes on meanwhile, until main() returns.
CloseWindow ==
  /\ GuiGoes("frame", "destroy") \/ GuiGoes("connect", "exit")
  /\ UNCHANGED <<queueVars, reader, m_connected, socket, arrived, guiVars, readVars>>

DestroySocket ==
  /\ GuiGoes("destroy", "clearing") /\ Queue!CallClear(Gui)
  /\ socket' = "closed"
  /\ UNCHANGED <<reader, m_connected, arrived, guiVars, readVars>>

ClearLocks ==
  /\ gui = "clearing" /\ Queue!Acquire(Gui)
  /\ UNCHANGED <<gui, reader, m_connected, socket, arrived, guiVars, readVars>>

Exit ==
  /\ GuiGoes("clearing", "exit") /\ Queue!Clear(Gui)
  /\ UNCHANGED <<reader, m_connected, socket, arrived, guiVars, readVars>>

-----------------------------------------------------------------------------
(* Client::readFromServer.                                                  *)

\* Faulty variant: while (true).
TestNothing ==
  /\ ReaderGoes("test", "read")
  /\ UNCHANGED <<queueVars, gui, m_connected, socket, arrived, guiVars, readVars>>

TestConnected ==
  /\ ReaderGoes("test", IF m_connected THEN "read" ELSE "done")
  /\ UNCHANGED <<queueVars, gui, m_connected, socket, arrived, guiVars, readVars>>

\* Faulty variant: an empty read counts as a message.
ReadsNothing ==
  /\ ReaderGoes("read", "size") /\ socket # "closed" /\ read < MaxChunks
  /\ read' = read + 1
  /\ late' = IF m_connected THEN late ELSE late + 1
  /\ UNCHANGED <<queueVars, gui, m_connected, socket, arrived, guiVars, dropped>>

ReadsChunk ==
  /\ ReaderGoes("read", "size") /\ socket # "closed" /\ read < arrived
  /\ read' = read + 1
  /\ late' = IF m_connected THEN late ELSE late + 1
  /\ UNCHANGED <<queueVars, gui, m_connected, socket, arrived, guiVars, dropped>>

\* read_some throws: end of file, a reset, or a socket closed under it.
ReadFails ==
  /\ ReaderGoes("read", "done")
  /\ socket = "closed" \/ (socket = "shut" /\ read = arrived)
  /\ m_connected' = FALSE
  /\ UNCHANGED <<queueVars, gui, socket, arrived, guiVars, readVars>>

\* After ~Client has destroyed m_socket the reader uses a null pointer.
ReadCrashes ==
  /\ gui \in {"destroy", "clearing"} /\ reader = "read" /\ socket = "closed"
  /\ gui' = "exit"
  /\ UNCHANGED <<queueVars, reader, m_connected, socket, arrived, guiVars, readVars>>

\* Faulty variant: a full queue loses its oldest line instead of the new one.
DropsOldest ==
  /\ gui # "exit" /\ reader = "size" /\ Queue!SizeAbove(Reader, MaxQueue)
  /\ Queue!CallPop(Reader, "pop_front")
  /\ UNCHANGED <<gui, reader, m_connected, socket, arrived, guiVars, readVars>>

\* if (m_messageQueue.size() > 250): without the lock.
Drops ==
  /\ ReaderGoes("size", "test") /\ Queue!SizeAbove(Reader, MaxQueue)
  /\ dropped' = dropped \cup {read}
  /\ UNCHANGED <<queueVars, gui, m_connected, socket, arrived, guiVars, read, late>>

\* Faulty variants: the cap is off by one; the line is pushed at the wrong end.
PushCalledLate ==
  /\ ReaderGoes("size", "push") /\ Queue!SizeAtMost(Reader, MaxQueue + 1)
  /\ Queue!CallPush(Reader, "push_back", read)
  /\ UNCHANGED <<gui, m_connected, socket, arrived, guiVars, readVars>>

PushCalledFront ==
  /\ ReaderGoes("size", "push") /\ Queue!SizeAtMost(Reader, MaxQueue)
  /\ Queue!CallPush(Reader, "push_front", read)
  /\ UNCHANGED <<gui, m_connected, socket, arrived, guiVars, readVars>>

PushCalled ==
  /\ ReaderGoes("size", "push") /\ Queue!SizeAtMost(Reader, MaxQueue)
  /\ Queue!CallPush(Reader, "push_back", read)
  /\ UNCHANGED <<gui, m_connected, socket, arrived, guiVars, readVars>>

PushLocks ==
  /\ gui # "exit" /\ reader = "push"
  /\ Queue!Acquire(Reader) \/ Queue!Emplace(Reader)
  /\ UNCHANGED <<gui, reader, m_connected, socket, arrived, guiVars, readVars>>

PushReturns ==
  /\ ReaderGoes("push", "test") /\ Queue!Notify(Reader)
  /\ UNCHANGED <<gui, m_connected, socket, arrived, guiVars, readVars>>

-----------------------------------------------------------------------------
(* The server, and the composition.                                         *)

ChunkArrives ==
  /\ gui # "exit" /\ socket = "open" /\ arrived < MaxChunks
  /\ arrived' = arrived + 1
  /\ UNCHANGED <<queueVars, gui, reader, m_connected, socket, guiVars, readVars>>

ServerCloses ==
  /\ gui # "exit" /\ socket = "open" /\ socket' = "shut"
  /\ UNCHANGED <<queueVars, gui, reader, m_connected, arrived, guiVars, readVars>>

Connect    == Connects \/ ConnectFails \/ Register
Drain      == SeesMessage \/ SeesNone \/ PopCalled \/ PopLocks \/ Pops
Input      == PressSend \/ NoInput \/ NextFrame \/ CloseWindow
Destroy    == DestroySocket \/ ClearLocks \/ Exit
ReaderStep == TestConnected \/ ReadsChunk \/ ReadFails \/ ReadCrashes \/ Drops
              \/ PushCalled \/ PushLocks \/ PushReturns

Next == Connect \/ Drain \/ Input \/ Destroy \/ ReaderStep \/ ChunkArrives \/ ServerCloses

Spec == Init /\ [][Next]_vars

\* Both threads run, and frames keep being drawn.  Neither the user nor the
\* server is obliged to do anything.
Fairness == WF_vars(Connect \/ Drain \/ NoInput \/ NextFrame \/ Destroy) /\ WF_vars(ReaderStep)

FairSpec == Spec /\ Fairness

-----------------------------------------------------------------------------
(* Properties.                                                              *)

Lines   == m_messages \o deqQueue
Pending == IF reader = "size" \/ (reader = "push" /\ op[Reader] # "none") THEN {read} ELSE {}

TypeOK ==
  /\ Queue!TypeOK
  /\ gui \in GuiPlaces /\ reader \in ReaderPlaces
  /\ m_connected \in BOOLEAN /\ socket \in {"none", "open", "shut", "closed"}
  /\ arrived \in 0..MaxChunks /\ read \in 0..arrived
  /\ m_messages \in Seq(Chunks \cup {Own})
  /\ wire \in Seq({"username", "text"}) /\ presses \in 0..MaxSends
  /\ dropped \subseteq Chunks /\ late \in Nat

\* The queue never holds more than one line beyond the cap, although the reader
\* tests the size without the lock, and in a step before the push: a push
\* waits for the pop that disturbed the size it was based on.
QueueBounded == Len(deqQueue) <= MaxQueue + 1

\* What the window shows and what is still queued are, but for the lines typed
\* here, the chunks the reader kept, each once and in the order of their arrival.
LinesInOrder ==
  gui # "exit" =>
    /\ \A i, j \in DOMAIN Lines :
         i < j /\ Own \notin {Lines[i], Lines[j]} => Lines[i] < Lines[j]
    /\ Range(Lines) \ {Own} = (1..read) \ (dropped \cup Pending)

\* The server takes the first text of a connection as the registration of its
\* username (server.cpp:213); no typed line can take that place, also when
\* sending the username failed.
UsernameFirst == wire # <<>> => wire[1] = "username"

\* Once a send has failed, the reader, which may be blocked in read_some, reads
\* at most one more chunk.
ReaderGivesUp == late <= 1

\* The client uses its queue as a tsqueue must be used: one consumer, which
\* pops only what it has seen.
QueueProtocol == Queue!Spec

\* A queued line is shown unless the window is closed first.
EventuallyShown ==
  \A k \in Chunks :
    reader = "push" /\ read = k ~> k \in Range(m_messages) \/ gui \in {"destroy", "clearing", "exit"}

=============================================================================
