---------------------------- MODULE MCDirectCommand ----------------------------
(* Values of the constants of DirectCommand for TLC. *)
EXTENDS DirectCommand

CONSTANTS a, tab

AllChars   == {a, tab, Dm, Space, Newline}
WhiteChars == {tab, Space, Newline}

=============================================================================
