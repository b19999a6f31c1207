------------------------------- MODULE Exosip -------------------------------
(***************************************************************************)
(* The part of libeXosip2 that the SIP engine talks to: the table of calls *)
(* (eXosip.j_calls), the one registration (eXosip.j_reg) and the FIFO of   *)
(* eXosip_event_t that CallThread reads.  The network actions below are    *)
(* what eXosip's own thread does when a SIP message arrives: they change   *)
(* the table and append at most one event that the engine looks at.        *)
(*                                                                         *)
(* A call, its first dialog and its INVITE transaction have the same       *)
(* number here (c_id, d_id and the transaction id are only ever compared   *)
(* with numbers of their own kind).  A freed dialog has id -1, a call that *)
(* has no dialog yet reports 0.                                            *)
(*                                                                         *)
(* Events that every branch of CallThread ignores (PROCEEDING, RELEASED,   *)
(* NOANSWER, MESSAGE_*, REDIRECTED) are not queued.                        *)
(***************************************************************************)
EXTENDS Integers, Sequences

CONSTANTS
    MaxCalls,    \* bound: calls that may ever be created
    MaxEvents,   \* bound: length of the event FIFO
    MaxRetry,    \* authentication retries of one REGISTER (3 in the code)
    Faults       \* what may go wrong: a subset of FaultSites

\* A REGISTER refused or never answered; and calls into eXosip that fail.
FaultSites ==
    {"register_refused", "register_build", "invite_build", "insubscription_answer"}

ASSUME ExosipConstants ==
    /\ MaxCalls \in Nat \ {0} /\ MaxEvents \in Nat \ {0} /\ MaxRetry \in Nat
    /\ Faults \subseteq FaultSites

Call == 1 .. MaxCalls

VARIABLES
    calls,    \* eXosip.j_calls: the INVITE transaction and dialog of each call
    events,   \* eXosip.j_events: the FIFO read by eXosip_event_wait
    reg       \* eXosip.j_reg and what the registrar knows

exosipVars == <<calls, events, reg>>

CallRecord ==
    [dir       : {"free", "out", "in"},
     \* last response of the INVITE transaction; "603" is a rejection that is
     \* queued on the transaction and not sent yet
     tr        : {"none", "1xx", "603", "2xx", "final"},
     dlg       : {"none", "live", "freed"},
     cancelled : BOOLEAN]

CallEventType ==
    {"INVITE", "RINGING", "ANSWERED", "ACK", "CLOSED",
     "REQUESTFAILURE", "SERVERFAILURE", "GLOBALFAILURE"}

OtherEventType ==
    {"REGISTRATION_SUCCESS", "REGISTRATION_FAILURE", "IN_SUBSCRIPTION_NEW"}

\* An event about a call carries the ids of the call and of its dialog.
EventRecord ==
    [type : CallEventType, cid : Call, did : Call \cup {0, -1}]
    \cup [type : OtherEventType, cid : {0}, did : {0}]

RegRecord ==
    [tr      : {"none", "pending", "answered", "challenged", "failed"}, \* r_last_tr
     asks    : {"register", "unregister"},    \* what r_last_tr asks for
     period  : {"zero", "positive"},          \* r_reg_period
     retry   : 0 .. MaxRetry,                 \* r_retry
     binding : BOOLEAN]                       \* the registrar's side

ExosipTypeOK ==
    /\ calls \in [Call -> CallRecord]
    /\ events \in Seq(EventRecord)
    /\ reg \in RegRecord

FreeCall == [dir |-> "free", tr |-> "none", dlg |-> "none", cancelled |-> FALSE]

ExosipInit ==
    /\ calls = [c \in Call |-> FreeCall]
    /\ events = << >>
    /\ reg = [tr |-> "none", asks |-> "register", period |-> "zero",
              retry |-> 0, binding |-> FALSE]

-----------------------------------------------------------------------------
(* The call table. *)

IsFree(c) == calls[c].dir = "free"

\* eXosip_update numbers calls in the order of their creation.
IsNext(c) == IsFree(c) /\ \A d \in Call : d < c => ~IsFree(d)

\* jd->d_id as eXosip_event_init_for_call copies it into an event.
DialogId(c, dlg) == CASE dlg = "live"  -> c
                      [] dlg = "freed" -> -1
                      [] OTHER         -> 0

\* The far end still takes part in the call: it waits for our answer, rings,
\* or has an established dialog that nobody ended.
Engaged(c) ==
    \/ calls[c].dir = "out" /\ calls[c].tr \in {"none", "1xx"} /\ ~calls[c].cancelled
    \/ calls[c].dir = "in" /\ calls[c].tr = "1xx"
    \/ calls[c].tr = "2xx" /\ calls[c].dlg = "live"

\* Room in the FIFO.  The last place is kept for the answer to a REGISTER, so
\* that the bound alone never delays it.
CanReport == Len(events) < MaxEvents

\* report_call_event: append one event to the FIFO.
Report(type, c, dlg) ==
    events' = Append(events, [type |-> type, cid |-> c, did |-> DialogId(c, dlg)])

ReportPlain(type) ==
    events' = Append(events, [type |-> type, cid |-> 0, did |-> 0])

-----------------------------------------------------------------------------
(* Functions the engine calls.  They update the table only: the events they *)
(* lead to are queued later by eXosip's thread.                             *)

\* eXosip_call_send_initial_invite(): a new call with no dialog.
SendInitialInvite(c) ==
    calls' = [calls EXCEPT ![c] = [FreeCall EXCEPT !.dir = "out"]]

\* eXosip_call_build_answer(t, 200) + eXosip_call_send_answer: refused without
\* the transaction, when it was already answered, or when the dialog is gone.
CanAnswer(t) ==
    t \in Call /\ calls[t].dir = "in" /\ calls[t].tr = "1xx" /\ calls[t].dlg = "live"

SendAnswer200(t) ==
    calls' = IF CanAnswer(t) THEN [calls EXCEPT ![t].tr = "2xx"] ELSE calls

\* eXosip_call_terminate(c, d): which call it acts on.  A positive d must be
\* the id of a dialog that is not freed; otherwise the call is found by c and
\* no dialog is looked up (jd = NULL).
TerminateFinds(c, d) ==
    IF d > 0 THEN d \in Call /\ calls[d].dlg = "live"
             ELSE c \in Call /\ ~IsFree(c)

\* Faulty variant of Terminate: a cancelled call keeps its dialog.
TerminateKeepsDialog(c, d) ==
    LET withDialog == d > 0
        n == IF withDialog THEN d ELSE c
    IN  calls' =
          IF ~TerminateFinds(c, d) THEN calls
          ELSE IF calls[n].dir = "out" /\ calls[n].tr = "1xx"
               THEN [calls EXCEPT ![n].cancelled = TRUE]
          ELSE IF ~withDialog THEN calls
          ELSE IF calls[n].dir = "in" /\ calls[n].tr \in {"1xx", "603"}
               THEN [calls EXCEPT ![n].tr = "603"]
          ELSE [calls EXCEPT ![n].dlg = "freed"]

\* eXosip_call_terminate(c, d): CANCEL an unanswered outgoing INVITE, reject
\* an unanswered incoming one with 603, otherwise BYE; fails (no change) when
\* the call is not found or has no dialog to send a BYE in.
Terminate(c, d) ==
    LET withDialog == d > 0
        n == IF withDialog THEN d ELSE c
        freed(dlg) == IF withDialog THEN "freed" ELSE dlg
    IN  calls' =
          IF ~TerminateFinds(c, d) THEN calls
          ELSE IF calls[n].dir = "out" /\ calls[n].tr = "1xx"
               THEN [calls EXCEPT ![n].cancelled = TRUE, ![n].dlg = freed(@)]
          ELSE IF ~withDialog THEN calls
          ELSE IF calls[n].dir = "in" /\ calls[n].tr \in {"1xx", "603"}
               THEN [calls EXCEPT ![n].tr = "603"]
          ELSE [calls EXCEPT ![n].dlg = "freed"]

-----------------------------------------------------------------------------
(* The registration.                                                        *)

\* What _eXosip_register_build_register asks for: Expires is r_reg_period.
AsksFor(period) == IF period = "zero" THEN "unregister" ELSE "register"

\* eXosip_register_send_register: refused while the last one is unanswered.
SendRegister(r) ==
    IF r.tr = "pending" THEN r
    ELSE [r EXCEPT !.tr = "pending", !.asks = AsksFor(r.period)]

\* eXosip_register_build_initial_register(.., 120, ..) + send_register: the
\* old registration info is dropped and a new one made.
InitialRegister ==
    reg' = [reg EXCEPT !.tr = "pending", !.asks = "register",
                       !.period = "positive", !.retry = 0]

\* eXosip_register_build_register(rid, 0) + send_register: the period becomes
\* zero even when the request cannot be sent.
Unregister == reg' = SendRegister([reg EXCEPT !.period = "zero"])

\* eXosip_automatic_refresh and eXosip_automatic_action, called on every turn
\* of CallThread's loop: re-send an old or refused registration when its time
\* has come (the timer is a choice), answer a challenge at once, stop after
\* MaxRetry challenges.
AutomaticAction ==
    \/ reg.tr # "challenged" /\ UNCHANGED reg
    \/ reg.tr \in {"answered", "failed"} /\ reg.period = "positive"
       /\ reg' = SendRegister(reg)
    \/ reg.tr = "challenged"
       /\ reg' = IF reg.retry < MaxRetry
                 THEN [SendRegister(reg) EXCEPT !.retry = @ + 1]
                 ELSE [reg EXCEPT !.tr = "failed"]

\* cb_rcv2xx for a REGISTER: a positive Expires in the answer makes the period
\* positive again.
RcvRegisterOk ==
    /\ reg.tr = "pending" /\ Len(events) <= MaxEvents
    /\ reg' = [reg EXCEPT !.tr = "answered", !.retry = 0,
                          !.binding = (reg.asks = "register"),
                          !.period = IF reg.asks = "register" THEN "positive" ELSE @]
    /\ ReportPlain("REGISTRATION_SUCCESS")
    /\ UNCHANGED calls

\* rcvregister_failure: a challenge, another refusal, or the timeout of
\* cb_xixt_kill_transaction.
RcvRegisterFailure(tr) ==
    /\ reg.tr = "pending" /\ Len(events) <= MaxEvents
    /\ \/ tr = "challenged" /\ reg.retry < MaxRetry
       \/ tr \in {"challenged", "failed"} /\ "register_refused" \in Faults
    /\ reg' = [reg EXCEPT !.tr = tr]
    /\ ReportPlain("REGISTRATION_FAILURE")
    /\ UNCHANGED calls

RcvRegisterReply ==
    RcvRegisterOk \/ \E tr \in {"challenged", "failed"} : RcvRegisterFailure(tr)

\* eXosip_process_new_subscribe: somebody subscribes to our presence.
RcvSubscribe ==
    /\ CanReport
    /\ ReportPlain("IN_SUBSCRIPTION_NEW")
    /\ UNCHANGED <<calls, reg>>

-----------------------------------------------------------------------------
(* What eXosip's thread does when a message about a call arrives.           *)

\* cb_rcv1xx with 100: no dialog is created, the engine ignores the event.
Rcv100(c) ==
    /\ calls[c].dir = "out" /\ calls[c].tr = "none"
    /\ calls' = [calls EXCEPT ![c].tr = "1xx"]
    /\ UNCHANGED <<events, reg>>

\* cb_rcv1xx with 18x: the first one creates the early dialog; a ringing
\* response that crosses our CANCEL still reports, with the freed dialog.
Rcv180(c) ==
    /\ calls[c].dir = "out" /\ calls[c].tr \in {"none", "1xx"} /\ CanReport
    /\ LET dlg == IF calls[c].dlg = "none" THEN "live" ELSE calls[c].dlg
       IN  /\ calls' = [calls EXCEPT ![c].tr = "1xx", ![c].dlg = dlg]
           /\ Report("RINGING", c, dlg)
    /\ UNCHANGED reg

\* cb_rcv2xx_4invite: creates or confirms the dialog; silently discarded when
\* the dialog was freed (the answer crossed our CANCEL).
Rcv200(c) ==
    /\ calls[c].dir = "out" /\ calls[c].tr \in {"none", "1xx"} /\ CanReport
    /\ IF calls[c].dlg = "freed"
       THEN /\ calls' = [calls EXCEPT ![c].tr = "2xx"]
            /\ UNCHANGED events
       ELSE /\ calls' = [calls EXCEPT ![c].tr = "2xx", ![c].dlg = "live"]
            /\ Report("ANSWERED", c, "live")
    /\ UNCHANGED reg

\* cb_rcv4xx, cb_rcv5xx, cb_rcv6xx: the early dialog is freed after the event
\* was reported (eXosip_delete_early_dialog).  The answer to a CANCEL is 487.
RcvFailure(c, type) ==
    /\ calls[c].dir = "out" /\ calls[c].tr \in {"none", "1xx"} /\ CanReport
    /\ type \in {"REQUESTFAILURE", "SERVERFAILURE", "GLOBALFAILURE"}
    /\ calls' = [calls EXCEPT ![c].tr = "final",
                              ![c].dlg = IF @ = "live" THEN "freed" ELSE @]
    /\ Report(type, c, calls[c].dlg)
    /\ UNCHANGED reg

\* cb_rcv4xx with 401 or 407: the refusal is reported, and the INVITE is sent
\* again with credentials (eXosip_automatic_action) in the same call.
RcvChallenge(c) ==
    /\ calls[c].dir = "out" /\ calls[c].tr \in {"none", "1xx"} /\ CanReport
    /\ calls[c].dlg = "none"
    /\ calls' = [calls EXCEPT ![c].tr = "none"]
    /\ Report("REQUESTFAILURE", c, "none")
    /\ UNCHANGED reg

\* The INVITE transaction times out without an answer: the call is released
\* (eXosip_release_aborted_calls), which only reports RELEASED.
InviteTimeout(c) ==
    /\ calls[c].dir = "out" /\ calls[c].tr = "none"
    /\ calls' = [calls EXCEPT ![c].tr = "final"]
    /\ UNCHANGED <<events, reg>>

\* eXosip_process_new_invite: a new call with its dialog; the 101 given to the
\* transaction is never put on the wire (EXOSIP_OPT_DONT_SEND_101).
RcvInvite(c) ==
    /\ IsNext(c) /\ CanReport
    /\ calls' = [calls EXCEPT ![c] =
                   [dir |-> "in", tr |-> "1xx", dlg |-> "live", cancelled |-> FALSE]]
    /\ Report("INVITE", c, "live")
    /\ UNCHANGED reg

\* Faulty variant of RcvCancel: the caller's CANCEL is answered, not reported.
RcvCancelSilent(c) ==
    /\ calls[c].dir = "in" /\ calls[c].tr = "1xx" /\ CanReport
    /\ calls' = [calls EXCEPT ![c].tr = "final", ![c].dlg = "freed"]
    /\ UNCHANGED <<events, reg>>

\* eXosip_process_cancel: 487 is sent and cb_snd123456xx closes the call.
RcvCancel(c) ==
    /\ calls[c].dir = "in" /\ calls[c].tr = "1xx" /\ CanReport
    /\ calls' = [calls EXCEPT ![c].tr = "final", ![c].dlg = "freed"]
    /\ Report("CLOSED", c, "freed")
    /\ UNCHANGED reg

\* cb_snd123456xx: the queued 603 goes out and the call is reported closed.
Snd603(c) ==
    /\ calls[c].tr = "603" /\ CanReport
    /\ calls' = [calls EXCEPT ![c].tr = "final", ![c].dlg = "freed"]
    /\ Report("CLOSED", c, "freed")
    /\ UNCHANGED reg

\* eXosip_process_ack: found by its dialog, so only while that is not freed.
RcvAck(c) ==
    /\ calls[c].dir = "in" /\ calls[c].tr = "2xx" /\ calls[c].dlg = "live"
    /\ CanReport
    /\ Report("ACK", c, "live")
    /\ UNCHANGED <<calls, reg>>

\* eXosip_process_bye: frees the dialog and reports the call closed.
RcvBye(c) ==
    /\ calls[c].tr = "2xx" /\ calls[c].dlg = "live" /\ CanReport
    /\ calls' = [calls EXCEPT ![c].dlg = "freed"]
    /\ Report("CLOSED", c, "freed")
    /\ UNCHANGED reg

RcvCallMessage ==
    \E c \in Call :
        \/ Rcv100(c)
        \/ Rcv180(c)
        \/ Rcv200(c)
        \/ \E type \in CallEventType : RcvFailure(c, type)
        \/ RcvChallenge(c)
        \/ InviteTimeout(c)
        \/ RcvCancel(c)
        \/ Snd603(c)
        \/ RcvAck(c)
        \/ RcvBye(c)

-----------------------------------------------------------------------------
\* What the call table can hold: a free entry is blank; an outgoing call has a
\* dialog only after a response that makes one, and loses it before the final
\* response only to our CANCEL; an incoming call that waits for our answer has
\* its dialog.
EntryOK(r) ==
    /\ r.dir = "free" => r = FreeCall
    /\ r.dir = "out" =>
          /\ r.tr # "603"
          /\ r.dlg = "live" => r.tr \in {"1xx", "2xx"}
          /\ r.dlg = "freed" /\ r.tr \in {"none", "1xx"} => r.cancelled
    /\ r.dir = "in" /\ r.tr = "1xx" => r.dlg = "live"

CallTable == \A c \in Call : EntryOK(calls[c])

\* A dialog id in an unread event is the id of a dialog that was made.
EventsNameDialogs ==
    \A i \in 1 .. Len(events) :
        events[i].did \in Call => calls[events[i].did].dlg # "none"

=============================================================================
