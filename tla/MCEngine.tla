------------------------------ MODULE MCEngine ------------------------------
(***************************************************************************)
(* Instances of Engine for TLC.  Payload 18 is one the phone does not      *)
(* know, 26 is JPEG and 31 another video payload.  Long files and many     *)
(* calls are not explored together: the settings of a long sipcfg.ini meet *)
(* a short contacts.txt, and calls are made after short files.             *)
(***************************************************************************)
EXTENDS Engine

SomeAudio == {<<0>>, <<8, 0>>, <<18, 0, 8>>, <<18>>}
SomeVideo == {[open |-> TRUE, payloads |-> <<26>>], [open |-> FALSE, payloads |-> <<26>>],
              [open |-> TRUE, payloads |-> <<31, 26>>], [open |-> TRUE, payloads |-> <<31>>]}

\* The lines of contacts.txt that are tried beside a sipcfg.ini of n lines.
BookLines(n) == IF n = 0 THEN MaxContacts ELSE IF n = 1 THEN 1 ELSE 0

MCInit ==
    /\ Init
    /\ \E n \in 0 .. BookLines(Len(file)) : bookFile \in [1 .. n -> 0 .. 4]
    /\ EngineInit

\* Calls are followed when the book is short and sipcfg.ini at most picks the
\* input.
CallsAfterShortFiles ==
    (\E c \in Call : local[c] # None) =>
        /\ Len(bookFile) <= 1 /\ dialled = 0 /\ gCurPos = 0
        /\ \/ file = << >>
           \/ Len(file) = 1 /\ file[1].option = "input" /\ bookFile = << >>

MCSpec == MCInit /\ [][EngineNext]_allVars
=============================================================================
