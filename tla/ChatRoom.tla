------------------------------- MODULE ChatRoom -------------------------------
(***************************************************************************)
(* What the server of common/server.cpp promises its clients, without its  *)
(* threads, handlers and mutex: one room in which lines are said one after *)
(* the other.  A line is meant for the members of that moment.  Nobody     *)
(* enters or leaves and nothing else is said until everyone the line is    *)
(* meant for has it; only a direct message may be given up.                *)
(***************************************************************************)
EXTENDS Naturals, FiniteSets, SequencesExt

CONSTANTS Conns, NoConn, Names, NoName, Capacity

VARIABLES
  members,  \* the sessions of the room
  log,      \* the lines said
  inbox,    \* the lines (indices of log) each session has been sent
  pending   \* the sessions that are still to get the last line

vars == <<members, log, inbox, pending>>

Init ==
  /\ members = {}
  /\ log = <<>>
  /\ inbox = [c \in Conns |-> <<>>]
  /\ pending = {}

\* c has introduced itself as who; c has been announced to have left.
Joined(c, who) ==
  \E j \in DOMAIN log : log[j].kind = "joined" /\ log[j].by = c /\ log[j].who = who
Departed(c) == \E j \in DOMAIN log : log[j].kind = "left" /\ log[j].by = c

Present(c) == ~Departed(c)
Known(c, who) == who # NoName /\ Joined(c, who) /\ Present(c)

-----------------------------------------------------------------------------
Quiet == pending = {}

\* A line; exclude are the members it is not meant for.
Say(kind, c, who, to, exclude) ==
  /\ Quiet
  /\ log' = Append(log, [kind |-> kind, by |-> c, who |-> who, to |-> to])
  /\ pending' = to \ exclude
  /\ UNCHANGED <<members, inbox>>

Enter(c) ==
  /\ Quiet /\ c \notin members /\ Cardinality(members) < Capacity
  /\ members' = members \cup {c}
  /\ UNCHANGED <<log, inbox, pending>>

\* A session with a name leaves only after that has been announced ...
Leave(c) ==
  /\ Quiet /\ c \in members
  /\ (\E who \in Names : Joined(c, who)) => Departed(c)
  /\ members' = members \ {c}
  /\ UNCHANGED <<log, inbox, pending>>

\* ... unless the room is closed.
Close ==
  /\ Quiet
  /\ members' = {}
  /\ UNCHANGED <<log, inbox, pending>>

\* A session introduces itself once; with the empty name it may try again.
SayJoined(c, who) ==
  /\ Present(c) /\ \A n \in Names : ~Joined(c, n)
  /\ Say("joined", c, who, members, {})

SayChat(c, who) == Known(c, who) /\ Say("chat", c, who, members, {c})
SayLeft(c, who) == Known(c, who) /\ Say("left", c, who, members, {c})
SayNotice       == Say("notice", NoConn, NoName, members, {})

\* A direct message, or the answer that there is no such user.
Whisper(c, who) ==
  /\ Present(c) /\ (who = NoName \/ Joined(c, who))
  /\ \/ \E d \in members : Say("dm", c, who, {d}, {})
     \/ Say("nouser", c, who, {c}, {})

Reach(c) ==
  /\ c \in pending
  /\ inbox' = [inbox EXCEPT ![c] = Append(@, Len(log))]
  /\ pending' = pending \ {c}
  /\ UNCHANGED <<members, log>>

GiveUp ==
  /\ ~Quiet /\ log[Len(log)].kind \in {"dm", "nouser"}
  /\ pending' = {}
  /\ UNCHANGED <<members, log, inbox>>

Next ==
  \/ \E c \in Conns : Enter(c) \/ Leave(c) \/ Reach(c)
  \/ \E c \in Conns, who \in Names \cup {NoName} :
       SayJoined(c, who) \/ SayChat(c, who) \/ SayLeft(c, who) \/ Whisper(c, who)
  \/ SayNotice \/ Close \/ GiveUp

Spec == Init /\ [][Next]_vars

=============================================================================
