---------------------------- MODULE ChatServerRoom ----------------------------
(***************************************************************************)
(* The server as an implementation of ChatRoom: which state of the room a  *)
(* state of the server stands for.                                         *)
(***************************************************************************)
EXTENDS ChatServer

\* The last line, while it is a direct message whose write is still to come.
DirectOpen ==
  \E f \in Range(stack[Io]) : f.at \in {"dmsend", "nouser"}

\* The sessions that are still to get the last line: for a broadcast those of
\* its audience that have not got it, also when the write to one has failed.
PendingSessions ==
  {c \in Conns :
     /\ log # <<>> /\ c \in Audience(Len(log)) /\ Len(log) \notin Range(inbox[c])
     /\ log[Len(log)].kind \in {"dm", "nouser"} => DirectOpen}

Room == INSTANCE ChatRoom WITH
  Capacity <- MaxClients, members <- Range(m_clients), pending <- PendingSessions

\* Whatever its threads do, the server says one line after the other, each to
\* the members of one moment: ChatRoom.
RoomImplemented == Room!Spec

=============================================================================
