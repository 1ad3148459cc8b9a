---------------------------- MODULE DirectCommand ----------------------------
(***************************************************************************)
(* How Server::handleMessage takes a direct message apart: "/dm", the name *)
(* of the recipient and the text, read from a std::istringstream with >>   *)
(* and std::getline.  ChatServer starts where this ends, with the name.    *)
(*                                                                         *)
(* The three characters "/dm" count as one, Dm.                            *)
(***************************************************************************)
EXTENDS Naturals, SequencesExt

CONSTANTS
  Chars,            \* the characters, with
  Dm,               \* "/dm",
  Space, Newline,   \* ' ' and '\n' among
  White,            \* the white space characters
  MaxLength         \* bound: the length of a message

VARIABLES
  message,   \* the text of the message
  pos,       \* how many of its characters have been extracted from iss
  good,      \* iss has neither met the end nor failed
  recipient, dmMessage,
  at         \* where handleMessage continues: "written", "recipient", "line",
             \* "trim", "find", or "chat"

vars == <<message, pos, good, recipient, dmMessage, at>>

ASSUME CharsAssumption ==
  /\ White \subseteq Chars /\ Space \in White /\ Newline \in White /\ Space # Newline
  /\ Dm \in Chars \ White /\ MaxLength \in Nat

Init ==
  /\ message = <<>> /\ pos = 0 /\ good = TRUE
  /\ recipient = <<>> /\ dmMessage = <<>>
  /\ at = "written"

\* Any text may arrive; the messages are all sequences of MaxLength at most.
Write(ch) ==
  /\ at = "written" /\ Len(message) < MaxLength
  /\ message' = Append(message, ch)
  /\ UNCHANGED <<pos, good, recipient, dmMessage, at>>

\* The first position after i with a character of S, or else the end.
NextIn(S, i) ==
  CHOOSE j \in (i + 1)..(Len(message) + 1) :
    /\ j <= Len(message) => message[j] \in S
    /\ \A k \in (i + 1)..(j - 1) : message[k] \notin S

IsCommand == Len(message) >= 2 /\ message[1] = Dm /\ message[2] = Space

Chat ==
  /\ at = "written" /\ ~IsCommand
  /\ at' = "chat"
  /\ UNCHANGED <<message, pos, good, recipient, dmMessage>>

\* iss >> command stops at the white space after it.
Command ==
  /\ at = "written" /\ IsCommand
  /\ pos' = 1 /\ at' = "recipient"
  /\ UNCHANGED <<message, good, recipient, dmMessage>>

\* Faulty variant: std::getline(iss, recipient, ' ').
RecipientToSpace ==
  LET last == NextIn({Space}, pos + 1) IN
  /\ at = "recipient" /\ at' = "line"
  /\ recipient' = SubSeq(message, pos + 2, last - 1)
  /\ pos' = last - 1 /\ good' = (last <= Len(message))
  /\ UNCHANGED <<message, dmMessage>>

\* iss >> recipient skips white space and stops at the next, or at the end,
\* which sets eofbit.
Recipient ==
  LET first == NextIn(Chars \ White, pos)
      last  == NextIn(White, first - 1) IN
  /\ at = "recipient" /\ at' = "line"
  /\ recipient' = SubSeq(message, first, last - 1)
  /\ pos' = last - 1 /\ good' = (last <= Len(message))
  /\ UNCHANGED <<message, dmMessage>>

\* Faulty variant: iss >> dmMessage.
Word ==
  LET first == NextIn(Chars \ White, pos)
      last  == NextIn(White, first - 1) IN
  /\ at = "line" /\ at' = "trim"
  /\ dmMessage' = IF good THEN SubSeq(message, first, last - 1) ELSE dmMessage
  /\ UNCHANGED <<message, pos, good, recipient>>

Line ==
  LET last == NextIn({Newline}, pos) IN
  /\ at = "line" /\ at' = "trim"
  /\ dmMessage' = IF good THEN SubSeq(message, pos + 1, last - 1) ELSE dmMessage
  /\ UNCHANGED <<message, pos, good, recipient>>

\* Faulty variant: the text is left as it is.
KeepSpace ==
  /\ at = "trim" /\ at' = "find"
  /\ UNCHANGED <<message, pos, good, recipient, dmMessage>>

DropSpace ==
  /\ at = "trim" /\ at' = "find"
  /\ dmMessage' = IF dmMessage # <<>> /\ dmMessage[1] = Space THEN Tail(dmMessage)
                  ELSE dmMessage
  /\ UNCHANGED <<message, pos, good, recipient>>

Next == Chat \/ Command \/ Recipient \/ Line \/ DropSpace \/ \E ch \in Chars : Write(ch)

Spec == Init /\ [][Next]_vars

-----------------------------------------------------------------------------
(* Properties.                                                              *)

Parts(s) == {SubSeq(s, i, j) : i \in 1..(Len(s) + 1), j \in 0..Len(s)}

IsName(s) == s # <<>> /\ \A i \in DOMAIN s : s[i] \notin White
IsLine(s) == \A i \in DOMAIN s : s[i] # Newline

\* What a user writes to somebody, "/dm name text", is looked up under exactly
\* that name and delivered as exactly that text, also when the text is empty,
\* begins with a space or contains some.
DirectArrives ==
  at = "find" =>
    \A name, text \in Parts(message) :
      /\ IsName(name) /\ IsLine(text)
      /\ message = <<Dm, Space>> \o name \o <<Space>> \o text
      => recipient = name /\ dmMessage = text

\* Whatever was written: the recipient is the first word after the command, so
\* that nobody whose name contains white space can be addressed; and the text
\* is what follows on the line on which that word ends, at most one space less.
FirstWordAddressed ==
  at = "find" =>
    \E i \in 2..(Len(message) - Len(recipient)) :
      LET j == i + Len(recipient) IN
      /\ \A k \in 2..i : message[k] \in White
      /\ recipient = SubSeq(message, i + 1, j)
      /\ \A k \in DOMAIN recipient : recipient[k] \notin White
      /\ j < Len(message) => message[j + 1] \in White
      /\ recipient = <<>> => i = Len(message)
      /\ IsLine(dmMessage)
      /\ \E k \in {j, j + 1} :
           /\ k = j + 1 <=> j < Len(message) /\ message[j + 1] = Space
           /\ LET last == k + Len(dmMessage) IN
              /\ last <= Len(message)
              /\ dmMessage = SubSeq(message, k + 1, last)
              /\ last < Len(message) => message[last + 1] = Newline

=============================================================================
