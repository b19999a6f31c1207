------------------------------- MODULE Phone -------------------------------
(***************************************************************************)
(* SIPTextGUI/text_gui.c on top of the engine: the whole phone.            *)
(*                                                                         *)
(* main() runs in its own thread, below CallThread's priority, so that     *)
(* CallThread may run between any two of its steps.  Each turn of its loop *)
(* looks at the buttons, acts on a pressed one by the state it knows, and  *)
(* calls DisplayMenu.  CallbackEventHandler runs in CallThread, within     *)
(* ChangeState: gCurrentState is the engine's sipState here, and the rest  *)
(* of what the handler does is joined to every step of the engine.  The    *)
(* ringer has threads of its own, and HOME runs exitCallback in another.   *)
(***************************************************************************)
EXTENDS CallControl

CONSTANT
    RingFile     \* whether ring.wav could be opened

ASSUME RingFileAssumption == RingFile \in BOOLEAN

VARIABLES
    main,        \* where main() is
    want,        \* the request of the key being handled, or "none"
    redraw,      \* the flag that DisplayMenu tests and clears
    screen,      \* the state the menu on the screen was drawn for
    guiQuit,     \* quit of text_gui.c
    ringing,     \* the flag the ringer threads test
    ringers      \* how many playRingerThreads exist

guiVars == <<main, want, redraw, screen, guiQuit, ringing, ringers>>
phoneVars == <<vars, guiVars>>

Key == {"CROSS", "CIRCLE", "TRIANGLE", "UP", "DOWN", "SELECT", "START"}

PhoneTypeOK ==
    /\ TypeOK
    /\ main \in {"loop", "request", "waiting", "release", "menu", "drawn", "shutdown"}
    /\ want \in OutEvent \cup {"none"}
    /\ redraw \in BOOLEAN /\ guiQuit \in BOOLEAN /\ ringing \in BOOLEAN
    /\ screen \in SipState \cup {"blank"}
    /\ ringers \in 0 .. MaxCalls

PhoneInit ==
    /\ Init
    /\ main = "loop" /\ want = "none"
    /\ redraw = TRUE /\ screen = "blank"
    /\ guiQuit = FALSE
    /\ ringing = FALSE /\ ringers = 0

-----------------------------------------------------------------------------
(* main(). *)

\* The request a key stands for in a state.
Request(state, k) ==
    CASE state = "CONNECTED"   /\ k = "CROSS"    -> "NEW_CALL"
      [] state = "TRYING"      /\ k = "CIRCLE"   -> "REJECT"
      [] state = "INCOMING"    /\ k = "CIRCLE"   -> "REJECT"
      [] state = "INCOMING"    /\ k = "CROSS"    -> "ANSWER"
      [] state = "ESTABLISHED" /\ k = "TRIANGLE" -> "REJECT"
      [] OTHER                                   -> "none"

\* A key is down: the switch on gCurrentState, and the global keys.  Moving the
\* cursor asks for a redraw at once, a request after it returned.
PressKey(k) ==
    /\ main = "loop" /\ ~guiQuit
    /\ want' = Request(sipState, k)
    /\ main' = IF want' = "none" THEN "release" ELSE "request"
    /\ redraw' = (redraw \/ (sipState = "CONNECTED" /\ k \in {"UP", "DOWN"}))
    /\ guiQuit' = (k = "START")
    /\ UNCHANGED <<vars, screen, ringing, ringers>>

\* No key is down.
NoKey ==
    /\ main = "loop" /\ ~guiQuit
    /\ main' = "menu"
    /\ UNCHANGED <<vars, want, redraw, screen, guiQuit, ringing, ringers>>

\* SIPEngineDoEvent(want), up to its spin loop.
Ask ==
    /\ main = "request"
    /\ DoEvent(want)
    /\ main' = "waiting"
    /\ UNCHANGED <<want, redraw, screen, guiQuit, ringing, ringers>>

\* Faulty variant of Answered: the request does not wait for callback_done.
AnsweredEarly ==
    /\ main = "waiting"
    /\ client' = "idle" /\ callback_done' = FALSE
    /\ main' = "release" /\ want' = "none" /\ redraw' = TRUE
    /\ UNCHANGED <<exosipVars, engineVars, pc, pending,
                  screen, guiQuit, ringing, ringers>>

\* SIPEngineDoEvent returns; setRedraw(1).
Answered ==
    /\ main = "waiting"
    /\ DoEventReturns
    /\ main' = "release" /\ want' = "none" /\ redraw' = TRUE
    /\ UNCHANGED <<screen, guiQuit, ringing, ringers>>

\* The key is released (or the phone quits): no menu is drawn before.
Release ==
    /\ main = "release"
    /\ main' = "menu"
    /\ UNCHANGED <<vars, want, redraw, screen, guiQuit, ringing, ringers>>

\* DisplayMenu, in two steps: the menu is drawn for the state ...
Draw ==
    /\ main = "menu"
    /\ IF redraw THEN main' = "drawn" /\ screen' = sipState
                 ELSE main' = "loop" /\ UNCHANGED screen
    /\ UNCHANGED <<vars, want, redraw, guiQuit, ringing, ringers>>

\* ... and setRedraw(0), whatever happened meanwhile.
Drawn ==
    /\ main = "drawn"
    /\ redraw' = FALSE
    /\ main' = "loop"
    /\ UNCHANGED <<vars, want, screen, guiQuit, ringing, ringers>>

\* The loop ends: SIPEngineDoEvent(SUI_OUT_EVENT_SHUTDOWN).
Shutdown ==
    /\ main = "loop" /\ guiQuit
    /\ DoEvent("SHUTDOWN")
    /\ main' = "shutdown"
    /\ UNCHANGED <<want, redraw, screen, guiQuit, ringing, ringers>>

ExitGame ==
    /\ main = "shutdown"
    /\ DoEventReturns
    /\ UNCHANGED guiVars

\* HOME, in the update_thread.
ExitCallback ==
    /\ Running /\ ~guiQuit
    /\ guiQuit' = TRUE
    /\ UNCHANGED <<vars, main, want, redraw, screen, ringing, ringers>>

MainLoop ==
    \/ \E k \in Key : PressKey(k)
    \/ NoKey \/ Ask \/ Answered \/ Release \/ Draw \/ Drawn \/ Shutdown \/ ExitGame

-----------------------------------------------------------------------------
(* CallbackEventHandler and the ringer. *)

\* Faulty variant of SipStateEvent: only an answered call stops the ringer.
SipStateEventRingsOn ==
    IF sipState' = sipState THEN UNCHANGED <<redraw, ringing, ringers>>
    ELSE /\ redraw' = TRUE
         /\ IF sipState' = "INCOMING"
            THEN ringing' = TRUE /\ ringers' = IF RingFile THEN ringers + 1 ELSE ringers
            ELSE ringing' = (ringing /\ sipState' # "ESTABLISHED") /\ UNCHANGED ringers

\* SUI_IN_EVENT_SIP_STATE, with the SUI_IN_EVENT_INCOMING_CALL that comes with
\* a new incoming call.  No path of the engine tells the same state twice.
SipStateEvent ==
    IF sipState' = sipState THEN UNCHANGED <<redraw, ringing, ringers>>
    ELSE /\ redraw' = TRUE
         /\ IF sipState' = "INCOMING"
            THEN ringing' = TRUE /\ ringers' = IF RingFile THEN ringers + 1 ELSE ringers
            ELSE /\ ringing' = (ringing /\ sipState' \notin {"ESTABLISHED", "CONNECTED"})
                 /\ UNCHANGED ringers

EngineStep ==
    /\ CallThread
    /\ SipStateEvent
    /\ UNCHANGED <<main, want, screen, guiQuit>>

NetworkStep == Network /\ UNCHANGED guiVars

\* playRingerThread sees the flag down and ends.
RingerEnds ==
    /\ Running /\ ringers > 0 /\ ~ringing
    /\ ringers' = ringers - 1
    /\ UNCHANGED <<vars, main, want, redraw, screen, guiQuit, ringing>>

PhoneNext == MainLoop \/ ExitCallback \/ EngineStep \/ NetworkStep \/ RingerEnds

PhoneSpec == PhoneInit /\ [][PhoneNext]_phoneVars

\* The threads of the phone are scheduled, the user lets go of a key, and a
\* REGISTER ends with an answer or a timeout.
PhoneFairness ==
    /\ WF_phoneVars(MainLoop)
    /\ WF_phoneVars(EngineStep)
    /\ WF_phoneVars(NetworkStep /\ RcvRegisterReply)
    /\ WF_phoneVars(RingerEnds)

PhoneFairSpec == PhoneSpec /\ PhoneFairness

-----------------------------------------------------------------------------
\* The ringer sounds exactly while the phone shows an incoming call.
RingingIffIncoming == ringing <=> sipState = "INCOMING"

\* HOME or START ends the program from whatever main() is doing.
QuitEndsPhone == guiQuit ~> ~Running \/ pc = "crashed"
=============================================================================
