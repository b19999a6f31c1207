---------------------------- MODULE Subscriptions ----------------------------
(***************************************************************************)
(* eXosip's subscriptions, both ends: a watcher that subscribes, renews    *)
(* and gives up (eXsubscription_api.c, jsubscribe.c), and the phone that   *)
(* answers and notifies (eXinsubscription_api.c, jnotify.c), over oSIP's   *)
(* transactions: a request arrives once or gets lost, and so does each     *)
(* answer; they overtake each other; a proxy asks for credentials.  Of the *)
(* transactions of a dialog only the latest is ever looked at.  A          *)
(* subscription runs out for nobody: the phone never looks at n_ss_expires *)
(* again, so that renewing is due at any time (period - 60 may be past).   *)
(***************************************************************************)
EXTENDS Naturals, Sequences, FiniteSets, SequencesExt

CONSTANTS
    MaxSubscribes,  \* subscriptions the watcher starts
    MaxRequests,    \* requests in all
    MaxTroubles,    \* packets that get lost or are challenged
    MaxRetry        \* tries with credentials (3)

ASSUME SubscriptionConstants ==
    MaxSubscribes \in Nat /\ MaxRequests \in Nat /\ MaxTroubles \in Nat /\ MaxRetry \in Nat

VARIABLES
    js,      \* the watcher's subscriptions by call: eXosip.j_subscribes
    jn,      \* the phone's: eXosip.j_notifies
    trs,     \* every request, with the state of its transaction at both ends
    post,    \* <<request, code>>: under way; code 0 is the request itself
    inbox,   \* SUBSCRIBEs the phone's application has yet to answer
    seen     \* by call, the last news the watcher heard; news told; troubles

subVars == <<js, jn, trs, post, inbox, seen>>

Without(f, c) == [x \in DOMAIN f \ {c} |-> f[x]]
With(f, c, v) == [x \in DOMAIN f \cup {c} |-> IF x = c THEN v ELSE f[x]]

Calls == 1 .. MaxSubscribes

\* expires is that of a SUBSCRIBE; status and news are those of a NOTIFY.
Request(by, c, cseq) ==
    [by |-> by, call |-> c, cseq |-> cseq, expires |-> 0, status |-> "none", news |-> 0, cred |-> FALSE,
     state |-> "trying", answer |-> 0, served |-> "no", known |-> TRUE]

Closed(t) == trs[t].state \in {"completed", "terminated"}
Challenged(t) == Closed(t) /\ trs[t].answer = 407

\* eXosip_automatic_action tries a challenged request again, a few times for each dialog.
MayRetry(t, retry) == Challenged(t) /\ retry < MaxRetry

\* _eXosip_transaction_init and the event that sends it.
Sends(r) ==
    /\ Len(trs) < MaxRequests
    /\ trs' = Append(trs, r)
    /\ post' = post \cup {<<Len(trs) + 1, 0>>}

\* eXosip_subscribe_free and eXosip_notify_free: __eXosip_delete_jinfo for all of it.
Forgets(ts, by, c) == [t \in DOMAIN ts |-> IF ts[t].by = by /\ ts[t].call = c THEN [ts[t] EXCEPT !.known = FALSE] ELSE ts[t]]

-----------------------------------------------------------------------------
(* The watcher. *)

eXosip_subscribe_send_initial_request ==
    LET c == Cardinality({t \in DOMAIN trs : trs[t].by = "watcher" /\ trs[t].cseq = 1}) + 1
    IN  /\ c \in Calls
        /\ Sends([Request("watcher", c, 1) EXCEPT !.expires = 600])
        /\ js' = With(js, c, [out |-> Len(trs) + 1, dialogs |-> << >>, period |-> 600, retry |-> 0])
        /\ UNCHANGED <<jn, inbox, seen>>

\* The latest SUBSCRIBE of the dialog, or else the one that started it.
eXosip_find_last_out_subscribe(c) ==
    IF js[c].dialogs = << >> \/ Head(js[c].dialogs).out = 0 THEN js[c].out ELSE Head(js[c].dialogs).out

\* build_refresh_request and send_refresh_request: not while the last one is open.
eXosip_subscribe_refresh(c, expires) ==
    LET t == eXosip_find_last_out_subscribe(c)
        cseq == Head(js[c].dialogs).local_cseq + 1
    IN  /\ js[c].dialogs # << >> /\ Closed(t)
        /\ Sends([Request("watcher", c, cseq) EXCEPT !.expires = expires])
        /\ js' = [js EXCEPT ![c].period = expires, ![c].dialogs[1].local_cseq = cseq, ![c].dialogs[1].out = Len(trs) + 1]
        /\ UNCHANGED <<jn, inbox, seen>>

\* By eXosip_automatic_refresh and eXosip_automatic_action, with the old Expires.
_eXosip_subscribe_automatic_refresh(c) ==
    /\ js[c].dialogs # << >> /\ js[c].period # 0
    /\ eXosip_subscribe_refresh(c, trs[eXosip_find_last_out_subscribe(c)].expires)

Retried(dialog, out) == [dialog EXCEPT !.local_cseq = @ + 1, !.retry = @ + 1, !.out = out]

\* The request again, with the next CSeq; its dialog counts along.
_eXosip_subscribe_send_request_with_credential(c) ==
    LET t == eXosip_find_last_out_subscribe(c)
        first == t = js[c].out
        next == Len(trs) + 1
    IN  /\ MayRetry(t, IF js[c].dialogs = << >> THEN js[c].retry ELSE Head(js[c].dialogs).retry)
        /\ Sends([Request("watcher", c, trs[t].cseq + 1) EXCEPT !.expires = trs[t].expires, !.cred = TRUE])
        /\ js' = [js EXCEPT ![c].out = IF first THEN next ELSE @,
                            ![c].retry = IF js[c].dialogs = << >> THEN @ + 1 ELSE @,
                            ![c].dialogs = [n \in DOMAIN @ |->
                                IF n # 1 THEN @[n] ELSE Retried(@[n], IF first THEN @[n].out ELSE next)]]
        /\ UNCHANGED <<jn, inbox, seen>>

eXosip_subscribe_remove(c) ==
    /\ js[c].dialogs # << >>
    /\ js' = Without(js, c)
    /\ trs' = Forgets(trs, "watcher", c)
    /\ UNCHANGED <<jn, post, inbox, seen>>

\* eXosip_dialog_init_as_uac: from an answer, or from a NOTIFY that came first.
Dialog(cseq) == [local_cseq |-> cseq, out |-> 0, retry |-> 0]

\* cb_rcv1xx and cb_rcv2xx_4subscribe: a NOTIFY may have made the dialog already.
FindsDialog(s, cseq) == IF s.dialogs = << >> THEN [s EXCEPT !.dialogs = <<Dialog(cseq)>>] ELSE s

\* The Expires that was accepted is the period, and the tries start anew.
Answered(s, code, expires) ==
    IF code <= 199 THEN s ELSE [s EXCEPT !.period = expires, !.retry = 0, !.dialogs[1].retry = 0]

\* 101, 202, or a refusal, which is only reported.
cb_rcv_4subscribe(t, code) ==
    LET c == trs[t].call
    IN  /\ <<t, code>> \in post /\ code # 0 /\ trs[t].by = "watcher"
        /\ post' = post \ {<<t, code>>}
        /\ trs' = IF trs[t].state # "trying" THEN trs
                  ELSE [trs EXCEPT ![t].answer = code, ![t].state = IF code > 199 THEN "completed" ELSE @]
        /\ js' = IF trs[t].state # "trying" \/ ~trs[t].known \/ code > 299 \/ c \notin DOMAIN js THEN js
                 ELSE [js EXCEPT ![c] = Answered(FindsDialog(@, trs[t].cseq), code, trs[t].expires)]
        /\ UNCHANGED <<jn, inbox, seen>>

\* Call-Id and the watcher's own tag.
eXosip_match_notify_for_subscribe(t) == trs[t].call \in DOMAIN js

\* "terminated" ends the subscription.
eXosip_process_notify_within_dialog(t) ==
    LET c == trs[t].call
        ends == trs[t].status = "terminated"
    IN  /\ post' = (post \ {<<t, 0>>}) \cup {<<t, 200>>}
        /\ js' = IF ends THEN Without(js, c) ELSE [js EXCEPT ![c] = FindsDialog(@, trs[js[c].out].cseq)]
        /\ trs' = IF ends THEN Forgets(trs, "watcher", c) ELSE trs
        /\ seen' = [seen EXCEPT !.heard[c] = trs[t].news]

\* eXosip_process_newrequest: within the dialog, or the first news of a subscription that has
\* none yet.  The NOTIFY before this one is looked for among the requests sent, never found.
ReceiveNotify(t) ==
    /\ <<t, 0>> \in post /\ trs[t].by = "phone"
    /\ IF eXosip_match_notify_for_subscribe(t) THEN eXosip_process_notify_within_dialog(t)
       ELSE post' = (post \ {<<t, 0>>}) \cup {<<t, 481>>} /\ UNCHANGED <<js, trs, seen>>
    /\ UNCHANGED <<jn, inbox>>

-----------------------------------------------------------------------------
(* The phone. *)

eXosip_process_new_subscribe(t) ==
    /\ jn' = With(jn, trs[t].call, [inc |-> t, out |-> 0, local_cseq |-> trs[t].cseq, status |-> "none", retry |-> 0])
    /\ post' = (post \ {<<t, 0>>}) \cup {<<t, 101>>}
    /\ trs' = [trs EXCEPT ![t].served = "proceeding"]
    /\ inbox' = inbox \cup {t}

\* Not while the SUBSCRIBE before it has no answer; Expires 0 ends the subscription.
eXosip_process_subscribe_within_call(t) ==
    LET c == trs[t].call
        open == trs[jn[c].inc].served # "completed"
    IN  /\ jn' = IF open THEN jn
                 ELSE [jn EXCEPT ![c].inc = t, ![c].status = IF trs[t].expires = 0 THEN "terminated" ELSE @]
        /\ post' = (post \ {<<t, 0>>}) \cup (IF open THEN {<<t, 500>>} ELSE {})
        /\ trs' = [trs EXCEPT ![t].served = IF open THEN "completed" ELSE "proceeding"]
        /\ inbox' = IF open THEN inbox ELSE inbox \cup {t}

\* eXosip_process_newrequest: a dialog the phone does not know is taken for a new one.
ReceiveSubscribe(t) ==
    /\ <<t, 0>> \in post /\ trs[t].by = "watcher"
    /\ IF trs[t].call \in DOMAIN jn THEN eXosip_process_subscribe_within_call(t) ELSE eXosip_process_new_subscribe(t)
    /\ UNCHANGED <<js, seen>>

\* Faulty variant of eXosip_find_last_out_notify: it finds none.
last_out_notify_none(c) == 0

eXosip_find_last_out_notify(c) == jn[c].out

\* build_notify, build_request and send_request refuse while a NOTIFY is open.
CanNotify(c) ==
    LET t == eXosip_find_last_out_notify(c) IN
    c \in DOMAIN jn /\ (t # 0 => Closed(t)) /\ Len(trs) < MaxRequests

Notify(c, status) ==
    [Request("phone", c, jn[c].local_cseq + 1) EXCEPT !.status = status, !.news = seen.news + 1]

\* Every NOTIFY the application sends tells something new.
Told == seen' = [seen EXCEPT !.news = @ + 1]

Notified(c) == [jn EXCEPT ![c].local_cseq = @ + 1, ![c].out = Len(trs) + 1]

\* The SUBSCRIBE has to be known still.
_eXosip_insubscription_transaction_find(t) == trs[t].call \in DOMAIN jn /\ jn[trs[t].call].inc = t

CanAnswer(t) == _eXosip_insubscription_transaction_find(t) /\ trs[t].served # "completed"

\* CallThread accepts or refuses; an answer to a SUBSCRIBE that is gone is not sent.
eXosip_insubscription_send_answer(t, code) ==
    /\ t \in inbox /\ inbox' = inbox \ {t}
    /\ trs' = IF CanAnswer(t) THEN [trs EXCEPT ![t].served = "completed"] ELSE trs
    /\ post' = IF CanAnswer(t) THEN post \cup {<<t, code>>} ELSE post
    /\ UNCHANGED <<js, jn, seen>>

\* For an application without wishes of its own: accepts and sends a NOTIFY; when one is
\* open it only accepts, like send_answer.
eXosip_insubscription_automatic(t) ==
    LET c == trs[t].call
    IN  /\ t \in inbox /\ inbox' = inbox \ {t}
        /\ CanAnswer(t) /\ CanNotify(c)
        /\ trs' = Append([trs EXCEPT ![t].served = "completed"], Notify(c, "active"))
        /\ post' = post \cup {<<t, 202>>, <<Len(trs) + 1, 0>>}
        /\ jn' = Notified(c)
        /\ Told
        /\ UNCHANGED js

\* The application's own NOTIFYs.
eXosip_insubscription_send_request(c, status) ==
    /\ CanNotify(c)
    /\ Sends(Notify(c, status))
    /\ jn' = Notified(c)
    /\ Told
    /\ UNCHANGED <<js, inbox>>

_eXosip_insubscription_send_request_with_credential(c) ==
    LET t == eXosip_find_last_out_notify(c)
    IN  /\ t # 0 /\ MayRetry(t, jn[c].retry)
        /\ Sends([Request("phone", c, trs[t].cseq + 1) EXCEPT !.status = trs[t].status, !.news = trs[t].news, !.cred = TRUE])
        /\ jn' = [jn EXCEPT ![c].local_cseq = @ + 1, ![c].retry = @ + 1, ![c].out = Len(trs) + 1]
        /\ UNCHANGED <<js, inbox, seen>>

eXosip_insubscription_remove(c) ==
    /\ jn' = Without(jn, c)
    /\ trs' = Forgets(trs, "phone", c)
    /\ seen' = [seen EXCEPT !.trouble = @ + 1]
    /\ seen.trouble < MaxTroubles
    /\ UNCHANGED <<js, post, inbox>>

\* The phone's tries start anew.
Accepted(c) == [jn EXCEPT ![c].retry = 0]

\* The answer to a "terminated" ends the subscription.
cb_rcv_4notify(t, code) ==
    LET c == trs[t].call
        accepted == trs[t].state = "trying" /\ trs[t].known /\ code = 200
        ends == accepted /\ trs[t].status = "terminated"
        now == IF trs[t].state = "trying" THEN [trs EXCEPT ![t].answer = code, ![t].state = "completed"] ELSE trs
    IN  /\ <<t, code>> \in post /\ code # 0 /\ trs[t].by = "phone"
        /\ post' = post \ {<<t, code>>}
        /\ trs' = IF ends THEN Forgets(now, "phone", c) ELSE now
        /\ jn' = IF ends THEN Without(jn, c) ELSE IF accepted THEN Accepted(c) ELSE jn
        /\ UNCHANGED <<js, inbox, seen>>

-----------------------------------------------------------------------------
(* Both. *)

\* What the end of a transaction means: no answer, a refusal or a farewell.
Fatal(r) ==
    IF r.by = "phone"
    THEN \/ r.answer = 0
         \/ r.answer > 299 /\ r.answer # 407
         \/ r.answer \in 200 .. 299 /\ jn[r.call].status = "terminated"
    ELSE r.answer <= 199 \/ r.expires = 0

\* Timer K, or F when nothing of the request is under way any more.
cb_xixt_kill_transaction(t) ==
    LET r == trs[t]
        dies == r.known /\ r.call \in (IF r.by = "phone" THEN DOMAIN jn ELSE DOMAIN js) /\ Fatal(r)
        now == [trs EXCEPT ![t].state = "terminated"]
    IN  /\ r.state = "completed" \/ (r.state = "trying" /\ \A m \in post : m[1] # t)
        /\ trs' = IF dies THEN Forgets(now, r.by, r.call) ELSE now
        /\ js' = IF dies /\ r.by = "watcher" THEN Without(js, r.call) ELSE js
        /\ jn' = IF dies /\ r.by = "phone" THEN Without(jn, r.call) ELSE jn
        /\ UNCHANGED <<post, inbox, seen>>

\* The network loses a packet or asks for credentials.
Trouble(m) ==
    /\ m \in post /\ seen.trouble < MaxTroubles
    /\ \/ post' = post \ {m}
       \/ m[2] = 0 /\ ~trs[m[1]].cred /\ post' = (post \ {m}) \cup {<<m[1], 407>>}
    /\ seen' = [seen EXCEPT !.trouble = @ + 1]
    /\ UNCHANGED <<js, jn, trs, inbox>>

-----------------------------------------------------------------------------
SubscriptionsInit ==
    /\ js = << >> /\ jn = << >> /\ trs = << >> /\ post = {} /\ inbox = {}
    /\ seen = [heard |-> [c \in Calls |-> 0], news |-> 0, trouble |-> 0]

SubscriptionsNext ==
    \/ eXosip_subscribe_send_initial_request
    \/ \E c \in DOMAIN js :
          \/ \E expires \in {0, 600} : eXosip_subscribe_refresh(c, expires)
          \/ _eXosip_subscribe_automatic_refresh(c)
          \/ _eXosip_subscribe_send_request_with_credential(c)
          \/ eXosip_subscribe_remove(c)
    \/ \E c \in DOMAIN jn :
          \/ \E status \in {"active", "terminated"} : eXosip_insubscription_send_request(c, status)
          \/ _eXosip_insubscription_send_request_with_credential(c)
          \/ eXosip_insubscription_remove(c)
    \/ \E t \in inbox :
          \/ \E code \in {202, 403} : eXosip_insubscription_send_answer(t, code)
          \/ eXosip_insubscription_automatic(t)
    \/ \E m \in post :
          \/ cb_rcv_4subscribe(m[1], m[2]) \/ cb_rcv_4notify(m[1], m[2])
          \/ m[2] = 0 /\ (ReceiveSubscribe(m[1]) \/ ReceiveNotify(m[1]))
          \/ Trouble(m)
    \/ \E t \in DOMAIN trs : cb_xixt_kill_transaction(t)

SubscriptionsSpec == SubscriptionsInit /\ [][SubscriptionsNext]_subVars

-----------------------------------------------------------------------------
\* What a watcher hears never goes back to older news: no NOTIFY is overtaken by
\* the one after it, through losses, challenges and renewals, unless the phone's
\* application removed the subscription with that NOTIFY still under way.
NewsInOrder ==
    \A m \in post : m[2] = 0 /\ trs[m[1]].by = "phone" /\ trs[m[1]].known => trs[m[1]].news >= seen.heard[trs[m[1]].call]

\* One dialog, whether the answer or the NOTIFY makes it, and no CSeq used twice.
OneDialogEach ==
    /\ \A c \in DOMAIN js : Len(js[c].dialogs) <= 1
    /\ \A t, u \in DOMAIN trs :
          trs[t].by = "watcher" /\ trs[u].by = "watcher" /\ trs[t].call = trs[u].call /\ trs[t].cseq = trs[u].cseq
              => t = u

\* When all is quiet and nothing went wrong, whoever still watches is still served.
StillServed ==
    post = {} /\ inbox = {} /\ (\A t \in DOMAIN trs : trs[t].state = "terminated") /\ seen.trouble = 0
        => \A c \in DOMAIN js : js[c].dialogs # << >> => c \in DOMAIN jn

\* Whichever of the answer and the first NOTIFY comes first, a subscription has one
\* dialog and never repeats a CSeq; no NOTIFY is overtaken by the next one; and when
\* all is quiet, whoever still watches is still known to the phone.
WatcherUpToDate == NewsInOrder /\ OneDialogEach /\ StillServed
=============================================================================
