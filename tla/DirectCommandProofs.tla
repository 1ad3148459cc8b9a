-------------------------- MODULE DirectCommandProofs --------------------------
(***************************************************************************)
(* Proofs that a direct message arrives as it was written, and of what     *)
(* becomes of any other message that begins with the command, for texts    *)
(* and names of any length over any characters.                            *)
(***************************************************************************)
EXTENDS DirectCommand, SequenceTheorems, WellFoundedInduction, TLAPS

\* The message is the command for the user `name' with this text.
Says(name, text) ==
  /\ name \in Seq(Chars) /\ text \in Seq(Chars)
  /\ IsName(name) /\ IsLine(text)
  /\ message = <<Dm, Space>> \o name \o <<Space>> \o text

\* The inductive invariant: what has been extracted at each place.
Extracted(name, text) ==
  /\ at = "line" => recipient = name /\ pos = Len(name) + 2 /\ good /\ dmMessage = <<>>
  /\ at = "trim" => recipient = name /\ dmMessage = <<Space>> \o text
  /\ at = "find" => recipient = name /\ dmMessage = text

CommandInv ==
  /\ message \in Seq(Chars)
  /\ at \in {"written", "recipient"} => good /\ dmMessage = <<>>
  /\ at = "recipient" => pos = 1
  /\ \A name, text \in Seq(Chars) : Says(name, text) => Extracted(name, text)

-----------------------------------------------------------------------------
\* The position with the property by which NextIn chooses one is unique.
LEMMA NextInIs ==
  ASSUME message \in Seq(Chars), NEW S, NEW i \in Nat, NEW j \in (i + 1)..(Len(message) + 1),
         j <= Len(message) => message[j] \in S,
         \A k \in (i + 1)..(j - 1) : message[k] \notin S
  PROVE  NextIn(S, i) = j
<1> DEFINE Is(m) == /\ m <= Len(message) => message[m] \in S
                    /\ \A k \in (i + 1)..(m - 1) : message[k] \notin S
<1>1. Len(message) \in Nat
  BY LenProperties
<1>2. Is(j)
  OBVIOUS
<1>3. ASSUME NEW m \in (i + 1)..(Len(message) + 1), Is(m)
      PROVE  m = j
  <2>1. CASE m < j
    <3>1. m \in (i + 1)..(j - 1) /\ m <= Len(message)
      BY <1>1, <2>1, SMT
    <3> QED
      BY <1>2, <1>3, <3>1
  <2>2. CASE j < m
    <3>1. j \in (i + 1)..(m - 1) /\ j <= Len(message)
      BY <1>1, <2>2, SMT
    <3> QED
      BY <1>2, <1>3, <3>1
  <2> QED
    BY <1>1, <2>1, <2>2, SMT
<1>4. NextIn(S, i) = CHOOSE m \in (i + 1)..(Len(message) + 1) : Is(m)
  BY DEF NextIn
<1> HIDE DEF Is
<1> QED
  BY <1>2, <1>3, <1>4

\* Where the parts of the message are.
LEMMA PartsOfCommand ==
  ASSUME NEW name, NEW text, Says(name, text)
  PROVE  /\ Len(name) \in Nat \ {0} /\ Len(text) \in Nat
         /\ Len(message) = Len(name) + Len(text) + 3
         /\ message[1] = Dm /\ message[2] = Space
         /\ \A k \in 1..Len(name) : message[k + 2] = name[k]
         /\ message[Len(name) + 3] = Space
         /\ \A k \in 1..Len(text) : message[Len(name) + 3 + k] = text[k]
<1>1. name \in Seq(Chars) /\ text \in Seq(Chars) /\ name # <<>>
  BY DEF Says, IsName
<1>2. message = <<Dm, Space>> \o name \o <<Space>> \o text
  BY DEF Says
<1>3. Dm \in Chars /\ Space \in Chars
  BY CharsAssumption
<1> QED
  BY <1>1, <1>2, <1>3, SMT

LEMMA RecipientStep ==
  ASSUME CommandInv, Recipient, NEW name, NEW text, Says(name, text)
  PROVE  recipient' = name /\ pos' = Len(name) + 2 /\ good' /\ dmMessage' = <<>>
<1>1. message \in Seq(Chars) /\ name \in Seq(Chars) /\ pos = 1
  BY DEF CommandInv, Recipient, Says
<1>2. \A k \in 1..Len(name) : name[k] \in Chars \ White
  BY <1>1 DEF Says, IsName
<1>3. NextIn(Chars \ White, 1) = 3
  <2>1. 3 \in (1 + 1)..(Len(message) + 1) /\ message[3] = name[1] /\ 1 \in 1..Len(name)
    BY PartsOfCommand, SMT
  <2>2. \A k \in (1 + 1)..(3 - 1) : message[k] \notin Chars \ White
    BY PartsOfCommand, CharsAssumption, SMT
  <2> QED
    BY <1>1, <1>2, <2>1, <2>2, NextInIs
<1>4. NextIn(White, 2) = Len(name) + 3
  <2>1. Len(name) + 3 \in (2 + 1)..(Len(message) + 1) /\ message[Len(name) + 3] \in White
    BY PartsOfCommand, CharsAssumption, SMT
  <2>2. ASSUME NEW k \in (2 + 1)..((Len(name) + 3) - 1)
        PROVE  message[k] \notin White
    <3>1. k - 2 \in 1..Len(name) /\ (k - 2) + 2 = k
      BY PartsOfCommand, SMT
    <3>2. message[k] = name[k - 2]
      BY <3>1, PartsOfCommand
    <3> QED
      BY <3>1, <3>2, <1>2
  <2> QED
    BY <1>1, <2>1, <2>2, NextInIs
<1>5. /\ recipient' = SubSeq(message, 3, Len(name) + 2)
      /\ pos' = Len(name) + 2 /\ good'
  <2>1. 3 - 1 = 2 /\ (Len(name) + 3) - 1 = Len(name) + 2 /\ Len(name) + 3 <= Len(message)
    BY PartsOfCommand, SMT
  <2>2. NextIn(White, NextIn(Chars \ White, pos) - 1) = Len(name) + 3
    BY <1>1, <1>3, <1>4, <2>1
  <2> QED
    BY <1>1, <1>3, <2>1, <2>2 DEF Recipient
<1>6. SubSeq(message, 3, Len(name) + 2) = name
  <2>1. /\ Len(name) \in Nat /\ Len(name) + 2 <= Len(message)
        /\ \A k \in 1..Len(name) : message[k + 2] = name[k]
    BY PartsOfCommand, SMT
  <2> QED
    BY <1>1, <2>1, SMT
<1> QED
  BY <1>5, <1>6 DEF Recipient, CommandInv

LEMMA LineStep ==
  ASSUME CommandInv, Line, NEW name, NEW text, Says(name, text)
  PROVE  recipient' = name /\ dmMessage' = <<Space>> \o text
<1>1. /\ message \in Seq(Chars) /\ name \in Seq(Chars) /\ text \in Seq(Chars)
      /\ recipient = name /\ pos = Len(name) + 2 /\ good
  BY DEF CommandInv, Line, Says, Extracted
<1> DEFINE last == Len(message) + 1
<1>2. NextIn({Newline}, pos) = last
  <2>1. last \in (pos + 1)..(Len(message) + 1) /\ pos \in Nat
    BY <1>1, PartsOfCommand, SMT
  <2>2. ASSUME NEW k \in (pos + 1)..(last - 1)
        PROVE  message[k] \notin {Newline}
    <3>1. CASE k = Len(name) + 3
      BY <3>1, PartsOfCommand, CharsAssumption
    <3>2. CASE k # Len(name) + 3
      <4>1. k - (Len(name) + 3) \in 1..Len(text) /\ Len(name) + 3 + (k - (Len(name) + 3)) = k
        BY <1>1, <3>2, PartsOfCommand, SMT
      <4>2. message[k] = text[k - (Len(name) + 3)]
        BY <4>1, PartsOfCommand
      <4> QED
        BY <1>1, <4>1, <4>2 DEF Says, IsLine
    <3> QED
      BY <3>1, <3>2
  <2>3. ~(last <= Len(message))
    BY PartsOfCommand, SMT
  <2> HIDE DEF last
  <2> QED
    BY <1>1, <2>1, <2>2, <2>3, NextInIs
<1>3. dmMessage' = SubSeq(message, Len(name) + 3, Len(message))
  <2>1. pos + 1 = Len(name) + 3 /\ last - 1 = Len(message)
    BY <1>1, PartsOfCommand, SMT
  <2> HIDE DEF last
  <2> QED
    BY <1>1, <1>2, <2>1 DEF Line
<1>4. SubSeq(message, Len(name) + 3, Len(message)) = <<Space>> \o text
  <2>1. /\ Len(name) \in Nat /\ Len(text) \in Nat
        /\ Len(message) = Len(name) + Len(text) + 3
        /\ message[Len(name) + 3] = Space
        /\ \A k \in 1..Len(text) : message[Len(name) + 3 + k] = text[k]
    BY PartsOfCommand
  <2> DEFINE rest == SubSeq(message, Len(name) + 3, Len(message))
             line == <<Space>> \o text
  <2>2. rest \in Seq(Chars) /\ Len(rest) = Len(text) + 1
    BY <1>1, <2>1, SMT
  <2>3. line \in Seq(Chars) /\ Len(line) = Len(text) + 1
    BY <1>1, CharsAssumption, SMT
  <2>4. ASSUME NEW k \in 1..(Len(text) + 1)
        PROVE  rest[k] = line[k]
    <3>1. rest[k] = message[Len(name) + 2 + k]
      BY <1>1, <2>1, SMT
    <3>2. CASE k = 1
      BY <1>1, <2>1, <3>1, <3>2, SMT
    <3>3. CASE k # 1
      <4>1. k - 1 \in 1..Len(text) /\ Len(name) + 3 + (k - 1) = Len(name) + 2 + k
        BY <2>1, <3>3, SMT
      <4>2. line[k] = text[k - 1]
        BY <1>1, <2>1, <4>1, SMT
      <4> QED
        BY <2>1, <3>1, <4>1, <4>2
    <3> QED
      BY <3>2, <3>3
  <2> HIDE DEF rest, line
  <2>5. rest = line
    BY <2>2, <2>3, <2>4, SeqEqual
  <2> QED
    BY <2>5 DEF rest, line
<1> QED
  BY <1>1, <1>3, <1>4 DEF Line

-----------------------------------------------------------------------------
LEMMA InitCommandInv == Init => CommandInv
  BY DEF Init, CommandInv, Extracted

LEMMA StepCommandInv == CommandInv /\ [Next]_vars => CommandInv'
<1> SUFFICES ASSUME CommandInv, [Next]_vars PROVE CommandInv'
  OBVIOUS
<1>1. message \in Seq(Chars)
  BY DEF CommandInv
<1>2. CASE \E ch \in Chars : Write(ch)
  BY <1>1, <1>2 DEF Write, CommandInv, Extracted, Says
<1>3. CASE Chat
  BY <1>3 DEF Chat, CommandInv, Extracted, Says
<1>4. CASE Command
  BY <1>4 DEF Command, CommandInv, Extracted, Says
<1>5. CASE Recipient
  <2>1. message' = message /\ at' = "line"
    BY <1>5 DEF Recipient
  <2>2. ASSUME NEW name \in Seq(Chars), NEW text \in Seq(Chars), Says(name, text)'
        PROVE  Extracted(name, text)'
    <3>1. Says(name, text)
      BY <2>1, <2>2 DEF Says
    <3> QED
      BY <1>5, <2>1, <3>1, RecipientStep DEF Extracted
  <2> QED
    BY <1>1, <2>1, <2>2 DEF CommandInv
<1>6. CASE Line
  <2>1. message' = message /\ at' = "trim"
    BY <1>6 DEF Line
  <2>2. ASSUME NEW name \in Seq(Chars), NEW text \in Seq(Chars), Says(name, text)'
        PROVE  Extracted(name, text)'
    <3>1. Says(name, text)
      BY <2>1, <2>2 DEF Says
    <3> QED
      BY <1>6, <2>1, <3>1, LineStep DEF Extracted
  <2> QED
    BY <1>1, <2>1, <2>2 DEF CommandInv
<1>7. CASE DropSpace
  <2>1. message' = message /\ at' = "find" /\ recipient' = recipient /\ at = "trim"
    BY <1>7 DEF DropSpace
  <2>2. ASSUME NEW name \in Seq(Chars), NEW text \in Seq(Chars), Says(name, text)'
        PROVE  Extracted(name, text)'
    <3>1. Says(name, text)
      BY <2>1, <2>2 DEF Says
    <3>2. recipient = name /\ dmMessage = <<Space>> \o text
      BY <2>1, <3>1 DEF CommandInv, Extracted
    <3>3. /\ dmMessage # <<>> /\ dmMessage[1] = Space
          /\ Tail(dmMessage) = text
      BY <3>2, SMT
    <3> QED
      BY <1>7, <2>1, <3>2, <3>3 DEF DropSpace, Extracted
  <2> QED
    BY <1>1, <2>1, <2>2 DEF CommandInv
<1>8. CASE UNCHANGED vars
  BY <1>8 DEF vars, CommandInv, Extracted, Says
<1> QED
  BY <1>2, <1>3, <1>4, <1>5, <1>6, <1>7, <1>8 DEF Next

LEMMA PartsAreSequences ==
  ASSUME NEW s \in Seq(Chars), NEW p \in Parts(s)
  PROVE  p \in Seq(Chars)
<1>1. PICK i \in 1..(Len(s) + 1), j \in 0..Len(s) : p = SubSeq(s, i, j)
  BY DEF Parts
<1> QED
  BY <1>1, SMT

LEMMA InvArrives == CommandInv => DirectArrives
  BY PartsAreSequences DEF CommandInv, DirectArrives, Says, Extracted

\* "/dm name text" is addressed to exactly that name and carries exactly that
\* text, whatever the name and the text are (server.cpp:177-187).
THEOREM DirectArrivesCorrect == Spec => []DirectArrives
<1>1. Spec => []CommandInv
  BY InitCommandInv, StepCommandInv, PTL DEF Spec
<1> QED
  BY <1>1, InvArrives, PTL

-----------------------------------------------------------------------------
(* Any message.                                                             *)

\* The word that ends at pos is the first after the command.
WordRead ==
  /\ pos \in Nat /\ recipient \in Seq(Chars)
  /\ pos - Len(recipient) \in 2..Len(message) /\ pos <= Len(message)
  /\ \A k \in 2..(pos - Len(recipient)) : message[k] \in White
  /\ recipient = SubSeq(message, pos - Len(recipient) + 1, pos)
  /\ \A k \in DOMAIN recipient : recipient[k] \notin White
  /\ pos < Len(message) => message[pos + 1] \in White
  /\ recipient = <<>> => pos = Len(message)
  /\ good <=> pos < Len(message)

\* dmMessage is what follows the first n characters on their line.
RestOfLine(n) ==
  /\ dmMessage \in Seq(Chars) /\ IsLine(dmMessage)
  /\ n + Len(dmMessage) <= Len(message)
  /\ dmMessage = SubSeq(message, n + 1, n + Len(dmMessage))
  /\ n + Len(dmMessage) < Len(message) => message[n + Len(dmMessage) + 1] = Newline

\* The position from which the text is taken.
TextStart == IF pos < Len(message) /\ message[pos + 1] = Space THEN pos + 1 ELSE pos

WordInv ==
  /\ message \in Seq(Chars)
  /\ at \in {"written", "recipient", "line", "trim", "find", "chat"}
  /\ at \in {"written", "recipient"} => good
  /\ at \in {"written", "recipient", "line"} => dmMessage = <<>>
  /\ at = "recipient" => IsCommand /\ pos = 1
  /\ at \in {"line", "trim", "find"} => WordRead
  /\ at = "trim" => RestOfLine(pos)
  /\ at = "find" => RestOfLine(TextStart)

LEMMA LeastExists ==
  ASSUME NEW T, T \subseteq Nat, T # {}
  PROVE  \E x \in T : \A y \in T : x <= y
<1>1. PICK x \in T : \A y \in T : <<y, x>> \notin OpToRel(<, Nat)
  BY NatLessThanWellFounded, WFMin, Zenon
<1>2. ASSUME NEW y \in T PROVE x <= y
  <2>1. <<y, x>> \notin OpToRel(<, Nat)
    BY <1>1
  <2>2. ~(y < x)
    BY <2>1 DEF OpToRel
  <2> QED
    BY <2>2
<1> QED
  BY <1>2

\* There is such a position: the least with a character of S, or else the end.
LEMMA NextInExists ==
  ASSUME message \in Seq(Chars), NEW S, NEW i \in Nat, i <= Len(message)
  PROVE  /\ NextIn(S, i) \in (i + 1)..(Len(message) + 1)
         /\ NextIn(S, i) <= Len(message) => message[NextIn(S, i)] \in S
         /\ \A k \in (i + 1)..(NextIn(S, i) - 1) : message[k] \notin S
<1> DEFINE n == Len(message)
           T == {j \in (i + 1)..(n + 1) : j <= n => message[j] \in S}
<1>1. n \in Nat
  BY LenProperties
<1> HIDE DEF n
<1>2. T \subseteq Nat /\ n + 1 \in T
  BY <1>1 DEF n
<1>3. PICK j \in T : \A y \in T : j <= y
  <2> HIDE DEF T
  <2> QED
    BY <1>2, LeastExists
<1>4. ASSUME NEW k \in (i + 1)..(j - 1) PROVE message[k] \notin S
  <2>1. k \in (i + 1)..(n + 1) /\ k < j /\ k \in Nat
    BY <1>1, <1>2, <1>3
  <2>2. k \notin T
    BY <1>2, <1>3, <2>1
  <2> QED
    BY <2>1, <2>2
<1>5. /\ j \in (i + 1)..(n + 1) /\ (j <= n => message[j] \in S)
      /\ \A k \in (i + 1)..(j - 1) : message[k] \notin S
  BY <1>3, <1>4
<1>6. NextIn(S, i) = j
  BY <1>5, NextInIs DEF n
<1> QED
  BY <1>5, <1>6 DEF n

LEMMA WordReadStep ==
  ASSUME WordInv, Recipient
  PROVE  WordRead'
<1> DEFINE first == NextIn(Chars \ White, 1)
           last == NextIn(White, first - 1)
           n == Len(message)
<1>1. /\ message \in Seq(Chars) /\ pos = 1 /\ n \in Nat /\ n >= 2 /\ message[2] = Space
      /\ \A k \in 1..n : message[k] \in Chars
  BY LenProperties, ElementOfSeq DEF WordInv, Recipient, IsCommand
<1>2. /\ first \in 2..(n + 1)
      /\ first <= n => message[first] \in Chars \ White
      /\ \A k \in 2..(first - 1) : message[k] \notin Chars \ White
  BY <1>1, NextInExists
<1>3. /\ recipient' = SubSeq(message, first, last - 1)
      /\ pos' = last - 1 /\ good' = (last <= n)
      /\ message' = message
  BY <1>1 DEF Recipient
<1> HIDE DEF first
<1>4. /\ last \in first..(n + 1)
      /\ last <= n => message[last] \in White
      /\ \A k \in first..(last - 1) : message[k] \notin White
  <2>1. first - 1 \in Nat /\ first - 1 <= n /\ (first - 1) + 1 = first
    BY <1>1, <1>2
  <2> QED
    BY <1>1, <2>1, NextInExists
<1> HIDE DEF last
<1>5. /\ recipient' \in Seq(Chars) /\ Len(recipient') = last - first
      /\ \A k \in 1..(last - first) : recipient'[k] = message[first + k - 1]
  BY <1>1, <1>2, <1>3, <1>4
<1>6. first > 2
  BY <1>1, <1>2, CharsAssumption
<1>7. \A k \in 2..(first - 1) : message[k] \in White
  BY <1>1, <1>2
<1>8. \A k \in DOMAIN recipient' : recipient'[k] \notin White
  <2>1. DOMAIN recipient' = 1..(last - first)
    BY <1>5, LenProperties
  <2>2. ASSUME NEW k \in 1..(last - first) PROVE recipient'[k] \notin White
    <3>1. first + k - 1 \in first..(last - 1)
      BY <1>2, <1>4, <2>2
    <3> QED
      BY <1>4, <1>5, <3>1
  <2> QED
    BY <2>1, <2>2
<1>9. recipient' = <<>> => pos' = n
  <2>1. recipient' = <<>> => last = first
    BY <1>2, <1>4, <1>5, EmptySeq
  <2> QED
    BY <1>1, <1>2, <1>3, <1>4, <2>1
<1>10. pos' \in Nat /\ pos' - Len(recipient') = first - 1 /\ pos' <= n
  BY <1>1, <1>2, <1>3, <1>4, <1>5
<1>11. recipient' = SubSeq(message, pos' - Len(recipient') + 1, pos')
  <2>1. (first - 1) + 1 = first
    BY <1>2
  <2> QED
    BY <1>3, <1>10, <2>1
<1>12. first - 1 \in 2..n
  BY <1>1, <1>2, <1>6
<1>13. /\ pos' < n => message[pos' + 1] \in White
       /\ good' <=> pos' < n
  <2>1. last \in Nat /\ pos' + 1 = last /\ (pos' < n <=> last <= n)
    BY <1>1, <1>2, <1>3, <1>4
  <2> QED
    BY <1>3, <1>4, <2>1
<1>14. Len(message') = n
  BY <1>3 DEF n
<1> HIDE DEF n
<1> QED
  BY <1>3, <1>5, <1>7, <1>8, <1>9, <1>10, <1>11, <1>12, <1>13, <1>14 DEF WordRead

LEMMA RestStep ==
  ASSUME WordInv, Line
  PROVE  RestOfLine(pos)'
<1> DEFINE last == NextIn({Newline}, pos)
           n == Len(message)
<1>1. /\ message \in Seq(Chars) /\ n \in Nat /\ pos \in Nat /\ pos <= n
      /\ good <=> pos < n
      /\ dmMessage = <<>>
  BY LenProperties DEF WordInv, Line, WordRead
<1>2. message' = message /\ pos' = pos
  BY DEF Line
<1>3. CASE ~good
  <2>1. dmMessage' = <<>> /\ pos = n
    BY <1>1, <1>3 DEF Line
  <2>2. Len(<<>>) = 0 /\ SubSeq(message, n + 1, n + 0) = <<>> /\ n + 0 = n
    BY <1>1
  <2>3. IsLine(<<>>) /\ <<>> \in Seq(Chars)
    BY DEF IsLine
  <2> QED
    BY <1>1, <1>2, <2>1, <2>2, <2>3 DEF RestOfLine, IsLine
<1>4. CASE good
  <2>1. /\ last \in (pos + 1)..(n + 1)
        /\ last <= n => message[last] = Newline
        /\ \A k \in (pos + 1)..(last - 1) : message[k] # Newline
    BY <1>1, NextInExists
  <2>2. dmMessage' = SubSeq(message, pos + 1, last - 1)
    BY <1>4 DEF Line
  <2> HIDE DEF last
  <2>3. /\ dmMessage' \in Seq(Chars) /\ Len(dmMessage') = last - 1 - pos
        /\ \A k \in 1..(last - 1 - pos) : dmMessage'[k] = message[pos + k]
    BY <1>1, <2>1, <2>2
  <2>4. IsLine(dmMessage)'
    <3>1. DOMAIN dmMessage' = 1..(last - 1 - pos)
      BY <2>3, LenProperties
    <3>2. ASSUME NEW k \in 1..(last - 1 - pos) PROVE dmMessage'[k] # Newline
      <4>1. pos + k \in (pos + 1)..(last - 1)
        BY <1>1, <2>1
      <4> QED
        BY <2>1, <2>3, <4>1
    <3> QED
      BY <3>1, <3>2 DEF IsLine
  <2>5. pos + Len(dmMessage') = last - 1 /\ last - 1 <= n /\ (last - 1) + 1 = last
    BY <1>1, <2>1, <2>3
  <2>6. last - 1 < n => last <= n
    BY <1>1, <2>1
  <2>7. Len(message') = n
    BY <1>2 DEF n
  <2> HIDE DEF n
  <2> QED
    BY <1>2, <2>1, <2>2, <2>3, <2>4, <2>5, <2>6, <2>7 DEF RestOfLine
<1> QED
  BY <1>3, <1>4

LEMMA TrimStep ==
  ASSUME WordInv, DropSpace
  PROVE  RestOfLine(TextStart)'
<1> DEFINE n == Len(message)
           d == Len(dmMessage)
<1>1. /\ message \in Seq(Chars) /\ n \in Nat /\ pos \in Nat /\ pos <= n
      /\ dmMessage \in Seq(Chars) /\ d \in Nat /\ IsLine(dmMessage)
      /\ pos + d <= n /\ dmMessage = SubSeq(message, pos + 1, pos + d)
      /\ pos + d < n => message[pos + d + 1] = Newline
  BY LenProperties DEF WordInv, DropSpace, WordRead, RestOfLine
<1>2. message' = message /\ pos' = pos
  BY DEF DropSpace
<1>3. \A k \in 1..d : dmMessage[k] = message[pos + k]
  BY <1>1
<1>4. dmMessage = <<>> <=> d = 0
  BY <1>1, EmptySeq
<1> HIDE DEF n, d
<1>5. CASE pos < n /\ message[pos + 1] = Space
  <2>1. d # 0
    BY <1>1, <1>5, CharsAssumption
  <2>2. dmMessage[1] = Space
    BY <1>1, <1>3, <1>5, <2>1
  <2>3. dmMessage' = Tail(dmMessage)
    BY <1>4, <2>1, <2>2 DEF DropSpace
  <2>4. TextStart' = pos + 1
    BY <1>2, <1>5 DEF TextStart, n
  <2>5. /\ Tail(dmMessage) \in Seq(Chars) /\ Len(Tail(dmMessage)) = d - 1
        /\ \A k \in 1..(d - 1) : Tail(dmMessage)[k] = dmMessage[k + 1]
    BY <1>1, <1>4, <2>1, HeadTailProperties DEF d
  <2>6. IsLine(Tail(dmMessage))
    <3>1. /\ DOMAIN Tail(dmMessage) = 1..(d - 1)
          /\ DOMAIN dmMessage = 1..d
      BY <1>1, <2>5, LenProperties DEF d
    <3>2. \A k \in 1..(d - 1) : k + 1 \in 1..d
      BY <1>1
    <3> QED
      BY <1>1, <2>5, <3>1, <3>2 DEF IsLine
  <2>7. (pos + 1) + (d - 1) = pos + d
    BY <1>1
  <2>8. Tail(dmMessage) = SubSeq(message, (pos + 1) + 1, pos + d)
    <3> DEFINE t == Tail(dmMessage)
               u == SubSeq(message, (pos + 1) + 1, pos + d)
    <3>1. /\ u \in Seq(Chars) /\ Len(u) = d - 1
          /\ \A k \in 1..(d - 1) : u[k] = message[pos + 1 + k]
      BY <1>1, <2>1 DEF n
    <3>2. \A k \in 1..(d - 1) : t[k] = message[pos + 1 + k]
      <4>1. ASSUME NEW k \in 1..(d - 1) PROVE t[k] = message[pos + 1 + k]
        <5>1. k + 1 \in 1..d /\ pos + (k + 1) = pos + 1 + k
          BY <1>1
        <5> QED
          BY <1>3, <2>5, <5>1
      <4> QED
        BY <4>1
    <3>3. t \in Seq(Chars) /\ Len(t) = d - 1
      BY <2>5
    <3> HIDE DEF t, u
    <3>4. t = u
      BY <3>1, <3>2, <3>3, SeqEqual
    <3> QED
      BY <3>4 DEF t, u
  <2> QED
    BY <1>1, <1>2, <2>3, <2>4, <2>5, <2>6, <2>7, <2>8 DEF RestOfLine, n
<1>6. CASE ~(pos < n /\ message[pos + 1] = Space)
  <2>1. dmMessage' = dmMessage
    <3>1. CASE d = 0
      BY <1>4, <3>1 DEF DropSpace
    <3>2. CASE d # 0
      <4>1. pos < n /\ dmMessage[1] = message[pos + 1]
        BY <1>1, <1>3, <3>2
      <4> QED
        BY <1>6, <4>1 DEF DropSpace
    <3> QED
      BY <3>1, <3>2
  <2>2. TextStart' = pos
    BY <1>2, <1>6 DEF TextStart, n
  <2> QED
    BY <1>1, <1>2, <2>1, <2>2 DEF RestOfLine, n, d
<1> QED
  BY <1>5, <1>6

LEMMA StepWordInv == WordInv /\ [Next]_vars => WordInv'
<1> SUFFICES ASSUME WordInv, [Next]_vars PROVE WordInv'
  OBVIOUS
<1>1. CASE \E ch \in Chars : Write(ch)
  BY <1>1, AppendProperties DEF Write, WordInv
<1>2. CASE Chat
  BY <1>2 DEF Chat, WordInv
<1>3. CASE Command
  BY <1>3 DEF Command, WordInv, IsCommand
<1>4. CASE Recipient
  BY <1>4, WordReadStep DEF Recipient, WordInv
<1>5. CASE Line
  <2>1. WordRead'
    BY <1>5 DEF Line, WordInv, WordRead
  <2> QED
    BY <1>5, <2>1, RestStep DEF Line, WordInv
<1>6. CASE DropSpace
  <2>1. WordRead'
    BY <1>6 DEF DropSpace, WordInv, WordRead
  <2> QED
    BY <1>6, <2>1, TrimStep DEF DropSpace, WordInv
<1>7. CASE UNCHANGED vars
  BY <1>7 DEF vars, WordInv, IsCommand, WordRead, RestOfLine, TextStart
<1> QED
  BY <1>1, <1>2, <1>3, <1>4, <1>5, <1>6, <1>7 DEF Next

LEMMA WordAddressed == WordInv => FirstWordAddressed
<1> SUFFICES ASSUME WordInv, at = "find" PROVE FirstWordAddressed
  BY DEF FirstWordAddressed
<1> DEFINE i == pos - Len(recipient)
           n == Len(message)
<1>1. WordRead /\ RestOfLine(TextStart) /\ n \in Nat /\ Len(recipient) \in Nat
  BY LenProperties DEF WordInv, WordRead
<1>2. i \in 2..(n - Len(recipient)) /\ i + Len(recipient) = pos
  BY <1>1 DEF WordRead
<1>3. \E k \in {pos, pos + 1} :
        /\ k = pos + 1 <=> pos < n /\ message[pos + 1] = Space
        /\ k + Len(dmMessage) <= n
        /\ dmMessage = SubSeq(message, k + 1, k + Len(dmMessage))
        /\ k + Len(dmMessage) < n => message[k + Len(dmMessage) + 1] = Newline
  <2>1. TextStart \in {pos, pos + 1}
    BY DEF TextStart
  <2>2. TextStart = pos + 1 <=> pos < n /\ message[pos + 1] = Space
    BY <1>1 DEF TextStart, WordRead
  <2> QED
    BY <1>1, <2>1, <2>2 DEF RestOfLine
<1>4. /\ \A k \in 2..i : message[k] \in White
      /\ recipient = SubSeq(message, i + 1, pos)
      /\ \A k \in DOMAIN recipient : recipient[k] \notin White
      /\ pos < n => message[pos + 1] \in White
      /\ recipient = <<>> => i = n
      /\ IsLine(dmMessage)
  BY <1>1, EmptySeq DEF WordRead, RestOfLine
<1> HIDE DEF i
<1> QED
  BY <1>2, <1>3, <1>4 DEF FirstWordAddressed

\* Whatever is written after "/dm ", the first word is the recipient and the
\* rest of its line the text, at most one space less (server.cpp:177-187).
THEOREM FirstWordCorrect == Spec => []FirstWordAddressed
<1>1. Init => WordInv
  BY DEF Init, WordInv
<1>2. Spec => []WordInv
  BY <1>1, StepWordInv, PTL DEF Spec
<1> QED
  BY <1>2, WordAddressed, PTL

=============================================================================
