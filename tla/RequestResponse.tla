--------------------------- MODULE RequestResponse ---------------------------
(***************************************************************************)
(* What a SIP transaction promises its two users, without messages, timers *)
(* or copies: a request is put to the other side, which may answer it; the *)
(* asker learns an answer that was given, or that there is none, and       *)
(* learns it once.                                                         *)
(***************************************************************************)
CONSTANT Answers

VARIABLES
    asked,     \* the request was made
    pending,   \* the other side was told of it and has not answered
    answers,   \* the answers it gave
    outcome    \* what the asker learned: "none", an answer, or "failed"

vars == <<asked, pending, answers, outcome>>

Init == ~asked /\ ~pending /\ answers = {} /\ outcome = "none"

Ask == ~asked /\ asked' = TRUE /\ UNCHANGED <<pending, answers, outcome>>

Take == asked /\ ~pending /\ pending' = TRUE /\ UNCHANGED <<asked, answers, outcome>>

Answer(a) ==
    /\ pending /\ pending' = FALSE
    /\ answers' = answers \cup {a}
    /\ UNCHANGED <<asked, outcome>>

\* The asker may give up at any time: the other side is not consulted.
Learn ==
    /\ asked /\ outcome = "none"
    /\ outcome' \in answers \cup {"failed"}
    /\ UNCHANGED <<asked, pending, answers>>

Next == Ask \/ Take \/ (\E a \in Answers : Answer(a)) \/ Learn

Spec == Init /\ [][Next]_vars

=============================================================================
