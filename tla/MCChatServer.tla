---------------------------- MODULE MCChatServer ----------------------------
(* Values of the constants of ChatServer for TLC. *)
EXTENDS ChatServerRoom

CONSTANTS c1, c2, c3, k1, alice, bob

Text      == [kind |-> "text", to |-> NoName]
Odd       == [kind |-> "odd", to |-> NoName]
ToUser(n) == [kind |-> "dm", to |-> n]

TextOnly      == {Text}
TextAndBlank  == {Text, Blank}
TextAndDirect == {Text, ToUser(alice)}
AnyOfThem     == {Text, Blank, Odd, ToUser(alice), ToUser(NoName)}

\* c3 has the same name as c1, which the server allows.
SharedName == [c \in Conns |-> IF c = c2 THEN bob ELSE alice]

\* c2 connects with an empty username.
EmptyName == [c \in Conns |-> IF c = c2 THEN NoName ELSE alice]

=============================================================================
