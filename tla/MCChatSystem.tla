----------------------------- MODULE MCChatSystem -----------------------------
(* Values of the constants of ChatSystem for TLC. *)
EXTENDS ChatSystem

CONSTANTS c1, c2, c3, alice, bob

TextOnly == {[kind |-> "text", to |-> NoName]}
TextAndOwn == TextOnly \cup {[kind |-> "dm", to |-> alice]}
OwnName  == [c \in Conns |-> IF c = c1 THEN alice ELSE bob]

=============================================================================
