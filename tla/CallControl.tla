---------------------------- MODULE CallControl ----------------------------
(***************************************************************************)
(* SIPEngine/call_api.c: the call state machine of the phone.              *)
(*                                                                         *)
(* One thread, CallThread, owns the state.  Each turn of its loop          *)
(*   - lets a notified GuiCallback run (sceKernelDelayThreadCB): pc "top"; *)
(*   - registers when the state is eNOT_REGISTERED:              pc "reg"; *)
(*   - takes at most one event from eXosip and handles it:      pc "poll". *)
(* The user interface calls SIPEngineDoEvent from its own thread, which    *)
(* notifies the callback and spins on callback_done.  eXosip's thread      *)
(* queues events at any moment (module Exosip).  The interface offers no   *)
(* guard of its own, so any request may be made in any state.              *)
(*                                                                         *)
(* The calls of eXosip_lock are compiled out of the engine (OSIP_MT is not *)
(* defined for it), so they are no steps here.                             *)
(***************************************************************************)
EXTENDS Exosip

CONSTANT
    Apart    \* TRUE: a call starts only when nothing is left of earlier ones

ASSUME ApartAssumption == Apart \in BOOLEAN

CallState ==
    {"eNOT_REGISTERED", "eREGISTERING", "eREGISTERED", "eIN_CALL",
     "eINCOMING_CALL", "eANSWERED", "eDISCONNECTING"}

OutEvent == {"NEW_CALL", "ANSWER", "REJECT", "CHANGE_PRESENCE", "SHUTDOWN"}

SipState ==
    {"DISCONNECTED", "CONNECTING", "CONNECTED", "TRYING", "INCOMING", "ESTABLISHED"}

VARIABLES
    currentState, cid, did, tid, quit,
    callback_done,
    pending,     \* the event GuiCallback was notified of, or "none"
    client,      \* "idle", "left" (the program ends), or the event whose
                 \* SIPEngineDoEvent has not returned
    pc,          \* where CallThread is
    sipState,    \* the last SUI_SIP_STATE_* told to the user interface
    ringback,    \* the ringback flag of audio.c
    audio,       \* the call whose RTP session and audio threads exist, or 0
    active       \* history: the call the user was last put into, or 0

idVars == <<cid, did, tid>>
engineVars == <<currentState, cid, did, tid, quit, sipState, ringback, audio, active>>
clientVars == <<callback_done, pending, client>>
vars == <<exosipVars, engineVars, clientVars, pc>>

TypeOK ==
    /\ ExosipTypeOK
    /\ currentState \in CallState
    /\ cid \in Call \cup {0} /\ did \in Call \cup {0, -1} /\ tid \in Call \cup {0}
    /\ quit \in BOOLEAN /\ callback_done \in BOOLEAN /\ ringback \in BOOLEAN
    /\ pending \in OutEvent \cup {"none"}
    /\ client \in OutEvent \cup {"idle", "left"}
    /\ pc \in {"start", "top", "reg", "poll", "exited", "returned", "crashed"}
    /\ sipState \in SipState
    /\ audio \in Call \cup {0}
    /\ active \in Call \cup {0}

Init ==
    /\ ExosipInit
    /\ currentState = "eNOT_REGISTERED"
    /\ cid = 0 /\ did = 0 /\ tid = 0
    /\ quit = FALSE /\ callback_done = FALSE
    /\ pending = "none" /\ client = "idle"
    /\ pc = "start"
    /\ sipState = "DISCONNECTED"
    /\ ringback = FALSE /\ audio = 0 /\ active = 0

\* The process is there: the user interface has not ended it.
Running == client # "left"

-----------------------------------------------------------------------------
(* ChangeState. *)

\* What ChangeState tells the user interface; it says nothing on entering
\* eDISCONNECTING.
SipStateOf(s, old) ==
    CASE s = "eNOT_REGISTERED" -> "DISCONNECTED"
      [] s = "eREGISTERING"    -> "CONNECTING"
      [] s = "eREGISTERED"     -> "CONNECTED"
      [] s = "eIN_CALL"        -> "TRYING"
      [] s = "eINCOMING_CALL"  -> "INCOMING"
      [] s = "eANSWERED"       -> "ESTABLISHED"
      [] OTHER                 -> old

ChangeState(s) ==
    /\ currentState' = s
    /\ sipState' = SipStateOf(s, sipState)
    /\ ringback' = (ringback /\ s \notin {"eREGISTERED", "eANSWERED"})

InCall == currentState \in {"eIN_CALL", "eINCOMING_CALL", "eANSWERED"}

\* Whether a call may start now.
MayStart == Apart => events = << >> /\ \A c \in Call : ~Engaged(c) /\ calls[c].tr # "603"

-----------------------------------------------------------------------------
(* SIPEngineDoEvent, in the thread of the user interface. *)

\* Notify the callback and start to wait.  Before CallThread created the
\* callback (cbid = 0) the request is dropped and the call returns at once.
DoEvent(ev) ==
    /\ client = "idle"
    /\ IF pc = "start"
       THEN /\ client' = IF ev = "SHUTDOWN" THEN "left" ELSE "idle"
            /\ callback_done' = FALSE
            /\ UNCHANGED pending
       ELSE /\ client' = ev
            /\ pending' = ev
            /\ UNCHANGED callback_done
    /\ UNCHANGED <<exosipVars, engineVars, pc>>

\* The spin loop sees callback_done, resets it and returns; the program ends
\* when SHUTDOWN returns (sceKernelExitGame).
DoEventReturns ==
    /\ client \in OutEvent /\ callback_done
    /\ callback_done' = FALSE
    /\ client' = IF client = "SHUTDOWN" THEN "left" ELSE "idle"
    /\ UNCHANGED <<exosipVars, engineVars, pc, pending>>

-----------------------------------------------------------------------------
(* GuiCallback and the functions it calls, in CallThread at pc "top". *)

\* Faulty variant of Dispatch: every request is reported done, SHUTDOWN too.
DispatchAllDone(evs, done) ==
    /\ Running /\ pc = "top" /\ ~quit
    /\ pending \in evs
    /\ pending' = "none"
    /\ callback_done' = TRUE
    /\ pc' = IF currentState = "eNOT_REGISTERED" THEN "reg" ELSE "poll"
    /\ UNCHANGED client

\* The callback runs; done is what it leaves in callback_done.  CallThread
\* then registers if the state is eNOT_REGISTERED, and polls.
Dispatch(evs, done) ==
    /\ Running /\ pc = "top" /\ ~quit
    /\ pending \in evs
    /\ pending' = "none"
    /\ callback_done' = done
    /\ pc' = IF currentState = "eNOT_REGISTERED" THEN "reg" ELSE "poll"
    /\ UNCHANGED client

\* makeCall: the id of the new call is not kept.  Past the bound on calls, or
\* when calls are to come one at a time, the INVITE is one that cannot be built.
MakeCall ==
    /\ Dispatch({"NEW_CALL"}, TRUE)
    /\ \/ /\ currentState = "eREGISTERED"
          /\ \E c \in Call :
                /\ IsNext(c) /\ MayStart
                /\ SendInitialInvite(c)
                /\ active' = c
          /\ ChangeState("eIN_CALL")
       \/ /\ currentState # "eREGISTERED" \/ "invite_build" \in Faults
             \/ ~MayStart \/ \A c \in Call : ~IsFree(c)
          /\ UNCHANGED <<calls, active, currentState, sipState, ringback>>
    /\ UNCHANGED <<idVars, events, reg, quit, audio>>

\* answerCall: the state changes only when the ACK arrives.  The answer is
\* used without a check: NULL when eXosip cannot build it.
AnswerCall ==
    /\ Dispatch({"ANSWER"}, TRUE)
    /\ currentState = "eINCOMING_CALL" => CanAnswer(tid)
    /\ IF currentState = "eINCOMING_CALL" THEN SendAnswer200(tid) ELSE UNCHANGED calls
    /\ UNCHANGED <<engineVars, events, reg>>

\* osip_message_set_body(NULL, ...) in answerCall.
AnswerCallCrash ==
    /\ Running /\ pc = "top" /\ ~quit /\ pending = "ANSWER"
    /\ currentState = "eINCOMING_CALL" /\ ~CanAnswer(tid)
    /\ pc' = "crashed"
    /\ pending' = "none"
    /\ UNCHANGED <<exosipVars, engineVars, callback_done, client>>

\* Faulty variant of EndCall: the audio is not stopped.
EndCallKeepsAudio ==
    /\ Terminate(cid, did)
    /\ cid' = 0 /\ did' = 0
    /\ UNCHANGED audio

\* Faulty variant of EndCall: the ids are cleared before they are used.
EndCallClearsFirst ==
    /\ Terminate(0, 0)
    /\ cid' = 0 /\ did' = 0
    /\ audio' = IF currentState = "eANSWERED" THEN 0 ELSE audio

\* The effect of hangupCall in a call, up to its ChangeState(eREGISTERED).
EndCall ==
    /\ Terminate(cid, did)
    /\ cid' = 0 /\ did' = 0
    /\ audio' = IF currentState = "eANSWERED" THEN 0 ELSE audio

\* hangupCall.
HangupCall ==
    /\ Dispatch({"REJECT"}, TRUE)
    /\ IF InCall
       THEN EndCall /\ ChangeState("eREGISTERED")
       ELSE UNCHANGED <<calls, cid, did, audio, currentState, sipState, ringback>>
    /\ UNCHANGED <<events, reg, quit, tid, active>>

\* update_presence (presence.c): nothing of the state here.
ChangePresence ==
    /\ Dispatch({"CHANGE_PRESENCE"}, TRUE)
    /\ UNCHANGED <<exosipVars, engineVars>>

\* disconnectSipServer: a call the user made or took is hung up first and the
\* registration withdrawn; from every other state the loop just ends.
DisconnectSipServer ==
    /\ Dispatch({"SHUTDOWN"}, FALSE)
    /\ \/ /\ currentState \in {"eREGISTERED", "eIN_CALL", "eANSWERED"}
          /\ IF InCall THEN EndCall ELSE UNCHANGED <<calls, cid, did, audio>>
          /\ currentState' = "eDISCONNECTING"
          /\ sipState' = IF InCall THEN "CONNECTED" ELSE sipState
          /\ ringback' = (ringback /\ ~InCall)
          /\ Unregister
          /\ UNCHANGED quit
       \/ /\ currentState \notin {"eREGISTERED", "eIN_CALL", "eANSWERED"}
          /\ quit' = TRUE
          /\ UNCHANGED <<calls, cid, did, audio, currentState, sipState, ringback, reg>>
    /\ UNCHANGED <<events, tid, active>>

-----------------------------------------------------------------------------
(* CallThread. *)

\* The callback is created and the loop entered.
StartThread ==
    /\ Running /\ pc = "start"
    /\ pc' = "top"
    /\ UNCHANGED <<exosipVars, engineVars, clientVars>>

\* Faulty variant of Delay: a turn of the loop that runs no callbacks
\* (sceKernelDelayThread for sceKernelDelayThreadCB).
DelayNoCallback ==
    /\ Running /\ pc = "top" /\ ~quit
    /\ pc' = IF currentState = "eNOT_REGISTERED" THEN "reg" ELSE "poll"
    /\ UNCHANGED <<exosipVars, engineVars, clientVars>>

\* sceKernelDelayThreadCB with no callback notified.
Delay ==
    /\ Running /\ pc = "top" /\ ~quit /\ pending = "none"
    /\ pc' = IF currentState = "eNOT_REGISTERED" THEN "reg" ELSE "poll"
    /\ UNCHANGED <<exosipVars, engineVars, clientVars>>

\* The registration at the head of the loop.
Register ==
    /\ Running /\ pc = "reg"
    /\ InitialRegister
    /\ ChangeState("eREGISTERING")
    /\ pc' = "poll"
    /\ UNCHANGED <<calls, events, idVars, quit, audio, active, clientVars>>

\* The REGISTER cannot be built: CallThread returns, callback_done stays.
RegisterFails ==
    /\ Running /\ pc = "reg" /\ "register_build" \in Faults
    /\ pc' = "returned"
    /\ UNCHANGED <<exosipVars, engineVars, clientVars>>

\* eXosip_event_wait times out.
PollNothing ==
    /\ Running /\ pc = "poll" /\ events = << >>
    /\ AutomaticAction
    /\ pc' = "top"
    /\ UNCHANGED <<calls, events, engineVars, clientVars>>

\* eXosip_event_wait returns an event of one of these types.
Poll(types) ==
    /\ Running /\ pc = "poll" /\ events # << >>
    /\ Head(events).type \in types
    /\ events' = Tail(events)
    /\ AutomaticAction
    /\ pc' = "top"
    /\ UNCHANGED clientVars

je == Head(events)

\* eREGISTERING: the only answer looked at is the success.
OnRegistered ==
    /\ Poll({"REGISTRATION_SUCCESS"})
    /\ currentState = "eREGISTERING"
    /\ ChangeState("eREGISTERED")
    /\ UNCHANGED <<calls, idVars, quit, audio, active>>

\* Faulty variant of OnUnregistered: quit is not set.
OnUnregisteredStays ==
    /\ Poll({"REGISTRATION_SUCCESS"})
    /\ currentState = "eDISCONNECTING"
    /\ ChangeState("eNOT_REGISTERED")
    /\ UNCHANGED <<calls, idVars, quit, audio, active>>

\* eDISCONNECTING: any successful REGISTER ends the loop.
OnUnregistered ==
    /\ Poll({"REGISTRATION_SUCCESS"})
    /\ currentState = "eDISCONNECTING"
    /\ ChangeState("eNOT_REGISTERED")
    /\ quit' = TRUE
    /\ UNCHANGED <<calls, idVars, audio, active>>

\* eREGISTERED: present the call to the user (180 Ringing is sent).
OnInvite ==
    /\ Poll({"INVITE"})
    /\ currentState = "eREGISTERED"
    /\ cid' = je.cid /\ did' = je.did /\ tid' = je.cid
    /\ active' = je.cid
    /\ ChangeState("eINCOMING_CALL")
    /\ UNCHANGED <<calls, quit, audio>>

\* Faulty variant of OnRinging: tid is overwritten as well.
OnRingingTakesTid ==
    /\ Poll({"RINGING"})
    /\ currentState \in {"eIN_CALL", "eINCOMING_CALL"}
    /\ cid' = je.cid /\ did' = je.did /\ tid' = je.cid
    /\ ringback' = TRUE
    /\ UNCHANGED <<calls, quit, audio, active, currentState, sipState>>

\* eIN_CALL or eINCOMING_CALL, whichever call the event is about.
OnRinging ==
    /\ Poll({"RINGING"})
    /\ currentState \in {"eIN_CALL", "eINCOMING_CALL"}
    /\ cid' = je.cid /\ did' = je.did
    /\ ringback' = TRUE
    /\ UNCHANGED <<calls, tid, quit, audio, active, currentState, sipState>>

\* Our INVITE was answered: ACK, start the media.  cid and did are not set.
OnAnswered ==
    /\ Poll({"ANSWERED"})
    /\ currentState \in {"eIN_CALL", "eINCOMING_CALL"}
    /\ audio' = je.cid
    /\ ChangeState("eANSWERED")
    /\ UNCHANGED <<calls, idVars, quit, active>>

\* Our answer was acknowledged: start the media.
OnAck ==
    /\ Poll({"ACK"})
    /\ currentState \in {"eIN_CALL", "eINCOMING_CALL"}
    /\ cid' = je.cid /\ did' = je.did
    /\ audio' = je.cid
    /\ ChangeState("eANSWERED")
    /\ UNCHANGED <<calls, tid, quit, active>>

\* The attempt is over: closed, or refused with 5xx or 6xx.
OnAttemptOver ==
    /\ Poll({"CLOSED", "SERVERFAILURE", "GLOBALFAILURE"})
    /\ currentState \in {"eIN_CALL", "eINCOMING_CALL"}
    /\ ChangeState("eREGISTERED")
    /\ UNCHANGED <<calls, idVars, quit, audio, active>>

\* Faulty variant of OnClosed: a refused refresh of the registration ends the
\* call as well.
OnClosedOrRefused ==
    /\ Poll({"CLOSED", "REGISTRATION_FAILURE"})
    /\ currentState = "eANSWERED"
    /\ audio' = 0
    /\ cid' = 0 /\ did' = 0 /\ tid' = 0
    /\ ChangeState("eREGISTERED")
    /\ UNCHANGED <<calls, quit, active>>

\* eANSWERED: stop the media, forget the ids.
OnClosed ==
    /\ Poll({"CLOSED"})
    /\ currentState = "eANSWERED"
    /\ audio' = 0
    /\ cid' = 0 /\ did' = 0 /\ tid' = 0
    /\ ChangeState("eREGISTERED")
    /\ UNCHANGED <<calls, quit, active>>

\* A presence subscription is accepted.
OnSubscription ==
    /\ Poll({"IN_SUBSCRIPTION_NEW"})
    /\ currentState \in {"eREGISTERED", "eIN_CALL", "eINCOMING_CALL"}
    /\ UNCHANGED <<calls, engineVars>>

\* The 202 cannot be built or sent: CallThread returns from its loop.
OnSubscriptionFails ==
    /\ Running /\ pc = "poll" /\ events # << >>
    /\ je.type = "IN_SUBSCRIPTION_NEW"
    /\ currentState \in {"eREGISTERED", "eIN_CALL", "eINCOMING_CALL"}
    /\ "insubscription_answer" \in Faults
    /\ events' = Tail(events)
    /\ AutomaticAction
    /\ pc' = "returned"
    /\ UNCHANGED <<calls, engineVars, clientVars>>

\* The event types the switch of each state has a case for.
Handled(s) ==
    CASE s = "eREGISTERING" -> {"REGISTRATION_SUCCESS"}
      [] s = "eREGISTERED"  -> {"INVITE", "IN_SUBSCRIPTION_NEW"}
      [] s \in {"eIN_CALL", "eINCOMING_CALL"} ->
            {"RINGING", "ANSWERED", "ACK", "CLOSED", "SERVERFAILURE",
             "GLOBALFAILURE", "IN_SUBSCRIPTION_NEW"}
      [] s = "eANSWERED"      -> {"CLOSED"}
      [] s = "eDISCONNECTING" -> {"REGISTRATION_SUCCESS"}
      [] OTHER                -> {}

\* The default of every switch: the event is dropped.
OnOther ==
    /\ Poll((CallEventType \cup OtherEventType) \ Handled(currentState))
    /\ UNCHANGED <<calls, engineVars>>

\* The loop ends: callback_done releases the client.
ThreadExit ==
    /\ Running /\ pc = "top" /\ quit
    /\ callback_done' = TRUE
    /\ pc' = "exited"
    /\ UNCHANGED <<exosipVars, engineVars, pending, client>>

-----------------------------------------------------------------------------
Network ==
    /\ Running /\ pc # "start"
    /\ \/ RcvCallMessage
       \/ MayStart /\ \E c \in Call : RcvInvite(c)
       \/ RcvRegisterReply
       \/ RcvSubscribe
    /\ UNCHANGED <<engineVars, clientVars, pc>>

Client == (\E ev \in OutEvent : DoEvent(ev)) \/ DoEventReturns

GuiCallback ==
    \/ MakeCall \/ AnswerCall \/ AnswerCallCrash \/ HangupCall \/ ChangePresence
    \/ DisconnectSipServer

HandleEvent ==
    \/ OnRegistered \/ OnUnregistered \/ OnInvite \/ OnRinging \/ OnAnswered
    \/ OnAck \/ OnAttemptOver \/ OnClosed \/ OnSubscription
    \/ OnSubscriptionFails \/ OnOther

CallThread ==
    \/ StartThread \/ GuiCallback \/ Delay \/ Register \/ RegisterFails
    \/ PollNothing \/ HandleEvent \/ ThreadExit

Next == Network \/ Client \/ CallThread

Spec == Init /\ [][Next]_vars

\* CallThread's loop never blocks for good (its waits have timeouts), the spin
\* loop polls, and every REGISTER ends with an answer or a timeout.
Fairness ==
    /\ WF_vars(CallThread)
    /\ WF_vars(DoEventReturns)
    /\ WF_vars(Network /\ RcvRegisterReply)

FairSpec == Spec /\ Fairness

-----------------------------------------------------------------------------
(* Properties of every behaviour. *)

\* audio.c has an RTP session and its two threads exactly while the call is in
\* eANSWERED: rtpAudioSetup never runs over a live session and no path out of
\* a call forgets rtpAudioStop.
AudioIffAnswered == audio # 0 <=> currentState = "eANSWERED"

\* The ringback tone plays only during an attempt: every way out of eIN_CALL
\* and eINCOMING_CALL passes stopRingback.
RingbackOnlyWhileCalling ==
    ringback => currentState \in {"eIN_CALL", "eINCOMING_CALL"}

\* The rendezvous of SIPEngineDoEvent and GuiCallback: the flag is up only for
\* a client that waits and whose request has been handled, for SHUTDOWN only
\* once CallThread is done; and a client that waits with the flag down has its
\* request still notified, or waits for the end of CallThread.
HandshakeExact ==
    /\ callback_done => /\ client \in OutEvent /\ pending = "none"
                        /\ client = "SHUTDOWN" => pc = "exited"
    /\ client \in OutEvent /\ ~callback_done =>
            pending = client \/ client = "SHUTDOWN" \/ pc = "crashed"

\* answerCall answers the call on the screen: events of other calls overwrite
\* cid and did, never tid.
AnswersTheCallOnScreen == currentState = "eINCOMING_CALL" => tid = active

\* The invariant behind the theorems of PhoneProofs: what each place in
\* CallThread, each state and each wait of the client implies about the rest.
PlaceInv ==
    /\ pc = "start" => pending = "none" /\ client \in {"idle", "left"} /\ ~quit
    /\ pc = "reg" => currentState = "eNOT_REGISTERED"

WaitInv ==
    /\ pending # "none" => client = pending
    /\ quit \/ currentState = "eDISCONNECTING" =>
          client \in {"SHUTDOWN", "left"} /\ pending = "none"

CallInv ==
    /\ InCall => active \in Call
    /\ did \in Call => calls[did].dlg # "none"

Inv ==
    /\ TypeOK
    /\ AudioIffAnswered /\ RingbackOnlyWhileCalling
    /\ HandshakeExact /\ AnswersTheCallOnScreen
    /\ PlaceInv /\ WaitInv /\ CallInv
    /\ CallTable /\ EventsNameDialogs

\* A request other than ANSWER and SHUTDOWN always returns to the user
\* interface: its main thread is not left in the spin loop of SIPEngineDoEvent.
RequestsReturn ==
    \A ev \in OutEvent \ {"ANSWER", "SHUTDOWN"} : client = ev ~> client # ev

\* SHUTDOWN returns, so the program ends when the user quits.
QuitCompletes == client = "SHUTDOWN" ~> client = "left"

-----------------------------------------------------------------------------
(* Properties of calls that come one at a time (Apart). *)

\* Once every event has been read, the phone is ringing or talking only if the
\* far end of the call is too.
InStep ==
    currentState \in {"eINCOMING_CALL", "eANSWERED"} /\ events = << >>
        => Engaged(active)

\* When did names the call the user is in, hanging up or rejecting ends that
\* call at the far end, whatever stage it has reached.
HangupReachesPeer ==
    [][HangupCall /\ InCall /\ did = active => ~Engaged(active)']_vars

\* The call that is established is the one on the screen, although OnAnswered
\* and OnAck take whichever call the event is about: no answer of a call that
\* was given up comes late enough to be taken for the next one.
EstablishedIsOnScreen == audio # 0 => audio = active

\* The media of a call stops only because the user hung up or because the call
\* itself ended.
MediaStopsWithCall ==
    [][audio # 0 /\ audio' = 0 => GuiCallback \/ ~Engaged(audio)]_vars
=============================================================================
