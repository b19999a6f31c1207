------------------------------- MODULE Dialogs -------------------------------
(***************************************************************************)
(* One call from the agent Caller to an address that the last proxy on the *)
(* way may fork to several agents.  Every agent runs eXosip and oSIP: the  *)
(* messages they build (jrequest.c, jresponse.c), how an incoming message  *)
(* finds its transaction (osip_transaction.c) and its dialog               *)
(* (osip_dialog.c, udp.c), and what it does to the dialog.  The proxies    *)
(* are external and follow RFC 3261.  Messages overtake one another; loss  *)
(* and repetition are Exchange's subject, except for the 200 of a call     *)
(* that is sent again until its ACK has come.                              *)
(***************************************************************************)
EXTENDS Integers, Sequences, FiniteSets, SequencesExt

CONSTANTS
    MaxFlight,  \* messages under way while the applications act
    Routes      \* the settings that are checked: the proxies on the way, the agents
                \* the called address stands for, the caller's sent-by, and the bounds
                \* on requests within a dialog and on repetitions of a 200, per agent

VARIABLES
    route,      \* the setting
    ua,         \* what each agent keeps
    net,        \* messages on their way
    fork        \* the last proxy: its open branches and whether one answered

dialogVars == <<route, ua, net, fork>>

Caller == "a"
Agents == {Caller} \cup UNION {r.callees : r \in Routes}
Home   == "home"      \* the address that is called when there is a proxy
Nil   == "none"
NoDialog == [state |-> "none"]

Proxy(host, lr, rr) == [host |-> host, lr |-> lr, rr |-> rr]
NoProxy == Proxy(Nil, FALSE, FALSE)
Hop(p) == [host |-> p.host, lr |-> p.lr]

InviteCSeq == 20

-----------------------------------------------------------------------------
(* Messages.  A request has status 0; a response carries its request's     *)
(* method, as its CSeq does.  trail is the list of proxies a request saw.  *)

Message == [status |-> 0, method |-> Nil, uri |-> Nil, routes |-> << >>, rr |-> << >>,
            via |-> << >>, from |-> Nil, to |-> Nil, cseq |-> 0, contact |-> Nil,
            at |-> Nil, src |-> Nil, trail |-> << >>]

\* cb_snd_message and the init functions of the client transactions.
RequestDestination(m) ==
    IF m.routes # << >> /\ m.routes[1].lr THEN m.routes[1].host ELSE m.uri

osip_response_get_destination(m) ==
    IF m.via = << >> THEN Nil
    ELSE IF m.via[1].received # Nil THEN m.via[1].received ELSE m.via[1].host

\* An address without a host of its own is looked up: Home is the last proxy.
Resolved(host) == IF host = Home THEN Last(route.path).host ELSE host

\* A 100 goes one hop, and tells a proxy nothing that is modelled.
cb_snd_message(u, m) ==
    IF m.status = 100 /\ Len(m.via) > 1 THEN {}
    ELSE {[m EXCEPT !.src = u,
                    !.at = IF m.status = 0 THEN Resolved(RequestDestination(m)) ELSE osip_response_get_destination(m)]}

osip_message_fix_last_via_header(m) ==
    IF m.status # 0 \/ m.via[1].host = m.src THEN m
    ELSE [m EXCEPT !.via[1].received = m.src]

\* The branch is random: a new one for every request that an agent makes.
_eXosip_request_add_via(u, n) ==
    <<[host |-> IF u = Caller THEN route.sentBy ELSE u, branch |-> <<u, n>>, received |-> Nil]>>

generating_request_out_of_dialog(u, method, to, proxy) ==
    [Message EXCEPT
        !.method = method, !.from = u, !.cseq = InviteCSeq,
        !.via = _eXosip_request_add_via(u, ua[u].n), !.contact = u,
        !.uri = IF proxy = NoProxy \/ proxy.lr THEN to ELSE proxy.host,
        !.routes = IF proxy = NoProxy THEN << >>
                   ELSE IF proxy.lr THEN <<Hop(proxy)>> ELSE <<[host |-> to, lr |-> FALSE]>>]

\* Faulty variant: the routes of the answers are taken in the order they stand in.
dialog_fill_reversed(d, m) ==
    [m EXCEPT !.uri = d.target, !.routes = Reverse(d.route_set)]

\* Sets the request URI and the Route headers of a request within d.
dialog_fill_route_set(d, m) ==
    LET target == [host |-> d.target, lr |-> FALSE] IN
    IF d.route_set[1].lr
    THEN [m EXCEPT !.uri = d.target, !.routes = d.route_set]
    ELSE [m EXCEPT !.uri = d.route_set[1].host, !.routes = Append(Front(d.route_set), target)]

\* The CSeq is the dialog's next one, and for an ACK its present one.
_eXosip_build_request_within_dialog(u, method, d, n) ==
    LET m == [Message EXCEPT
                !.method = method, !.from = d.local_tag, !.to = d.remote_tag,
                !.cseq = IF method = "ACK" THEN d.local_cseq ELSE d.local_cseq + 1,
                !.via = _eXosip_request_add_via(u, n), !.contact = u]
    IN  IF d.route_set = << >> THEN [m EXCEPT !.uri = d.target] ELSE dialog_fill_route_set(d, m)

\* The same branch, routes and CSeq as the INVITE that it ends.
generating_cancel(m) ==
    [m EXCEPT !.method = "CANCEL", !.via = <<m.via[1]>>, !.contact = Nil]

ict_create_ack(invite, response) ==
    [invite EXCEPT !.method = "ACK", !.to = response.to, !.via = <<invite.via[1]>>, !.contact = Nil]

\* A response without a tag gets the dialog's; a 100 gets none.
_eXosip_build_response_default(u, d, status, m) ==
    [Message EXCEPT
        !.status = status, !.method = m.method, !.from = m.from, !.cseq = m.cseq, !.via = m.via,
        !.to = IF m.to # Nil THEN m.to
               ELSE IF d # NoDialog THEN d.local_tag
               ELSE IF status = 100 THEN Nil ELSE u]

complete_answer_that_establish_a_dialog(u, response, m) ==
    [response EXCEPT !.rr = m.rr, !.contact = u]

_eXosip_answer_invite_123456xx(u, d, code, m) ==
    LET response == _eXosip_build_response_default(u, d, code, m)
    IN  IF code > 100 /\ code < 300 THEN complete_answer_that_establish_a_dialog(u, response, m) ELSE response

-----------------------------------------------------------------------------
(* Dialogs. *)

Is2xx(m) == m.status \in 200 .. 299

__osip_dialog_init(type, response, local, remote, contact) ==
    [type |-> type, state |-> IF Is2xx(response) THEN "confirmed" ELSE "early",
     local_tag |-> local, remote_tag |-> remote,
     route_set |-> IF type = "callee" THEN response.rr ELSE Reverse(response.rr),
     local_cseq |-> response.cseq, remote_cseq |-> 0, target |-> contact]

osip_dialog_init_as_uac(response) ==
    [__osip_dialog_init("caller", response, response.from, response.to, response.contact)
        EXCEPT !.remote_cseq = -1]

osip_dialog_init_as_uas(invite, response) ==
    [__osip_dialog_init("callee", response, response.to, response.from, invite.contact)
        EXCEPT !.remote_cseq = response.cseq]

osip_dialog_update_route_set_as_uas(d, m) ==
    IF m.contact = Nil THEN d ELSE [d EXCEPT !.target = m.contact]

osip_dialog_update_osip_cseq_as_uas(d, m) == [d EXCEPT !.remote_cseq = m.cseq]

osip_dialog_update_route_set_as_uac(d, response) ==
    LET there == IF response.contact = Nil THEN d ELSE [d EXCEPT !.target = response.contact]
        routed == IF d.state = "early" THEN [there EXCEPT !.route_set = Reverse(response.rr)] ELSE there
    IN  IF Is2xx(response) THEN [routed EXCEPT !.state = "confirmed"] ELSE routed

\* An incoming request belongs to the dialog with the tag of its sender.  Call-IDs
\* are left out: there is one call.  Every agent writes a tag.
osip_dialog_match_as_uas(d, m) == d # NoDialog /\ m.from = d.remote_tag

__osip_transaction_matching_response_osip_to_xict_17_1_3(tr, m) ==
    /\ m.via # << >> /\ tr.req.via[1].branch = m.via[1].branch
    /\ tr.req.method = m.method

\* All branches begin with the cookie.  An ACK belongs to the INVITE's transaction.
__osip_transaction_matching_request_osip_to_xist_17_2_3(tr, m) ==
    /\ tr.req.via[1].branch = m.via[1].branch
    /\ tr.req.via[1].host = m.via[1].host
    /\ tr.req.method = m.method \/ (tr.req.method = "INVITE" /\ m.method = "ACK")

-----------------------------------------------------------------------------
(* What an agent keeps: the dialog of its call (jd is set once there was   *)
(* one), the last INVITE in either direction, its open transactions, the   *)
(* 200 it repeats and the ACK it sent.                                     *)

NoTransaction == [state |-> "none"]

Agent == [jd |-> FALSE, dlg |-> NoDialog, inc |-> NoTransaction, out |-> NoTransaction, latest |-> Nil,
          nict |-> {}, refused |-> {}, pending |-> {}, ok200 |-> Message, ack |-> Message,
          toAck |-> FALSE, acked |-> FALSE, left |-> FALSE, n |-> 1, asks |-> 0, repeats |-> 0]

Result(s, out) == [s |-> s, out |-> out]

eXosip_send_default_answer(u, s, d, status, m) ==
    Result(s, cb_snd_message(u, _eXosip_build_response_default(u, d, status, m)))

eXosip_process_new_invite(u, s, m) ==
    LET answer == complete_answer_that_establish_a_dialog(u, _eXosip_build_response_default(u, NoDialog, 101, m), m)
    IN  IF m.to # Nil THEN eXosip_send_default_answer(u, [s EXCEPT !.refused = @ \cup {m}], NoDialog, 400, m)
        ELSE Result([s EXCEPT !.jd = TRUE, !.dlg = osip_dialog_init_as_uas(m, answer), !.latest = "inc",
                            !.inc = [req |-> m, state |-> "proceeding", rung |-> FALSE]],
                  cb_snd_message(u, answer))

eXosip_process_reinvite(s, m) ==
    LET d == osip_dialog_update_route_set_as_uas(osip_dialog_update_osip_cseq_as_uas(s.dlg, m), m)
    IN  Result([s EXCEPT !.dlg = d, !.inc = [req |-> m, state |-> "proceeding", rung |-> FALSE], !.latest = "inc"], {})

eXosip_process_bye(u, s, m) ==
    Result([s EXCEPT !.dlg = NoDialog], cb_snd_message(u, _eXosip_build_response_default(u, s.dlg, 200, m)))

eXosip_process_ack(s) == Result([s EXCEPT !.ok200 = Message, !.acked = TRUE], {})

cancel_match_invite(tr, m) == tr.state # "none" /\ tr.req.via[1].branch = m.via[1].branch

eXosip_process_cancel(u, s, m) ==
    IF ~cancel_match_invite(s.inc, m) THEN eXosip_send_default_answer(u, s, NoDialog, 481, m)
    ELSE IF s.inc.state # "proceeding" THEN eXosip_send_default_answer(u, s, s.dlg, 481, m)
    ELSE Result([s EXCEPT !.inc.state = "completed"],
              cb_snd_message(u, _eXosip_build_response_default(u, s.dlg, 200, m))
              \cup cb_snd_message(u, _eXosip_build_response_default(u, s.dlg, 487, s.inc.req)))

\* An INVITE is refused while another one is open.  Refusals keep their
\* transaction, which takes the ACK.
Open(tr) == tr.state \notin {"none", "completed", "terminated"}

ProcessInDialog(u, s, m) ==
    LET refuse(status) == eXosip_send_default_answer(u, [s EXCEPT !.refused = @ \cup {m}], s.dlg, status, m) IN
    CASE m.method = "INVITE" /\ Open(s.inc) -> refuse(500)
      [] m.method = "INVITE" /\ ~Open(s.inc) /\ Open(s.out) -> refuse(491)
      [] m.method = "INVITE" /\ ~Open(s.inc) /\ ~Open(s.out) -> eXosip_process_reinvite(s, m)
      [] m.method = "BYE" -> eXosip_process_bye(u, s, m)
      [] m.method = "ACK" -> eXosip_process_ack(s)
      [] OTHER -> Result([s EXCEPT !.pending = @ \cup {m}], {})

\* The repeated or the older CSeq: the first is dropped, the second refused.
eXosip_process_newrequest(u, s, m) ==
    LET found == osip_dialog_match_as_uas(s.dlg, m)
        trying == IF m.method # "INVITE" THEN {}
                  ELSE cb_snd_message(u, _eXosip_build_response_default(u, NoDialog, 100, m))
        handled == CASE found -> ProcessInDialog(u, s, m)
                     [] ~found /\ m.method = "ACK" -> Result(s, {})
                     [] ~found /\ m.method = "INVITE" -> eXosip_process_new_invite(u, s, m)
                     [] ~found /\ m.method \notin {"ACK", "INVITE"} -> eXosip_send_default_answer(u, s, NoDialog, 481, m)
    IN  IF m.method = "CANCEL" THEN eXosip_process_cancel(u, s, m)
        ELSE IF found /\ m.method # "ACK" /\ s.dlg.remote_cseq > 0 /\ m.cseq <= s.dlg.remote_cseq
        THEN IF m.cseq = s.dlg.remote_cseq THEN Result(s, {}) 
             ELSE eXosip_send_default_answer(u, [s EXCEPT !.refused = @ \cup {m}], s.dlg, 500, m)
        ELSE [handled EXCEPT !.out = @ \cup trying]

-----------------------------------------------------------------------------
(* Responses. *)

cb_rcv1xx(s, m) ==
    IF m.status = 100 THEN s
    ELSE IF ~s.jd THEN [s EXCEPT !.jd = TRUE, !.dlg = osip_dialog_init_as_uac(m)]
    ELSE IF s.dlg # NoDialog /\ s.dlg.remote_tag = m.to
    THEN [s EXCEPT !.dlg = osip_dialog_update_route_set_as_uac(@, m)]
    ELSE s

\* The 200 of a dialog given up meanwhile is dropped; one of another branch
\* than the early dialog's replaces it.
cb_rcv2xx_4invite(s, m) ==
    IF s.jd /\ s.dlg = NoDialog THEN s
    ELSE [s EXCEPT !.jd = TRUE, !.toAck = TRUE,
                   !.dlg = IF s.jd /\ @.remote_tag = m.to
                           THEN [osip_dialog_update_route_set_as_uac(@, m) EXCEPT !.state = "confirmed"]
                           ELSE osip_dialog_init_as_uac(m)]

eXosip_delete_early_dialog(s) == IF s.dlg.state = "early" THEN [s EXCEPT !.dlg = NoDialog] ELSE s

\* A response to the open INVITE of u.  Once that is completed, only its ACK is repeated.
RcvInviteResponse(u, s, m) ==
    LET done == s.out.state = "completed" IN
    CASE m.status < 200 /\ done -> Result(s, {})
      [] m.status < 200 /\ ~done -> Result(cb_rcv1xx([s EXCEPT !.out.state = "proceeding", !.out.last = m.status], m), {})
      [] Is2xx(m) /\ done -> Result(s, {})
      [] Is2xx(m) /\ ~done -> Result(cb_rcv2xx_4invite([s EXCEPT !.out.state = "terminated", !.out.last = m.status], m), {})
      [] m.status >= 300 -> Result(eXosip_delete_early_dialog([s EXCEPT !.out.state = "completed", !.out.last = m.status]),
                                 cb_snd_message(u, ict_create_ack(s.out.req, m)))

\* Faulty variant: a stray 2xx is acknowledged, and the call behind it left alone.
out_of_transaction_acks(u, s, m) ==
    LET d == osip_dialog_init_as_uac(m) IN
    IF ~s.jd \/ u # Caller \/ s.out.req.from # m.from THEN Result(s, {})
    ELSE IF s.dlg # NoDialog /\ s.dlg.remote_tag = m.to
    THEN Result(s, IF s.ack.cseq = m.cseq THEN cb_snd_message(u, s.ack) ELSE {})
    ELSE IF m.contact = Nil THEN Result(s, {})
    ELSE Result([s EXCEPT !.n = @ + 1], cb_snd_message(u, _eXosip_build_request_within_dialog(u, "ACK", d, s.n)))

\* Whatever response finds no transaction is taken for the 2xx of a call: one of
\* the present dialog repeats the ACK, another one is acknowledged and ended.
eXosip_process_response_out_of_transaction(u, s, m) ==
    LET d == osip_dialog_init_as_uac(m) IN
    IF ~s.jd \/ u # Caller \/ s.out.req.from # m.from THEN Result(s, {})
    ELSE IF s.dlg # NoDialog /\ s.dlg.remote_tag = m.to
    THEN Result(s, IF s.ack.cseq = m.cseq THEN cb_snd_message(u, s.ack) ELSE {})
    ELSE IF m.contact = Nil THEN Result(s, {})
    ELSE Result([s EXCEPT !.n = @ + 2],
              cb_snd_message(u, _eXosip_build_request_within_dialog(u, "ACK", d, s.n))
              \cup cb_snd_message(u, _eXosip_build_request_within_dialog(u, "BYE", d, s.n + 1)))

OpenInvite(s) == s.out.state \in {"calling", "proceeding", "completed"}

\* The transaction that a message belongs to takes it; else it is new.
_eXosip_handle_incoming_message(u, s, m0) ==
    LET m == osip_message_fix_last_via_header(m0)
        mine == {tr \in s.nict : __osip_transaction_matching_response_osip_to_xict_17_1_3(tr, m)}
        took(tr) == __osip_transaction_matching_request_osip_to_xist_17_2_3(tr, m)
    IN  CASE m.status # 0 /\ OpenInvite(s) /\ __osip_transaction_matching_response_osip_to_xict_17_1_3(s.out, m)
               -> RcvInviteResponse(u, s, m)
          [] m.status # 0 /\ mine # {} -> Result(IF m.status < 200 THEN s ELSE [s EXCEPT !.nict = @ \ mine], {})
          [] m.status = 0 /\ m.method = "ACK" /\ s.inc.state = "completed" /\ took(s.inc)
               -> Result([s EXCEPT !.inc.state = "confirmed"], {})
          [] m.status = 0 /\ m.method = "ACK" /\ \E r \in s.refused : took([req |-> r])
               -> Result(s, {})
          [] OTHER -> IF m.status = 0 THEN eXosip_process_newrequest(u, s, m)
                      ELSE eXosip_process_response_out_of_transaction(u, s, m)

-----------------------------------------------------------------------------
(* The application's calls. *)

Becomes(u, r) ==
    /\ ua' = [ua EXCEPT ![u] = r.s]
    /\ net' = net \cup r.out
    /\ UNCHANGED <<route, fork>>

\* The one that was made last, in either direction.
eXosip_find_last_invite(s) == IF s.latest = "out" THEN s.out ELSE s.inc

Called == IF route.path = << >> THEN CHOOSE b \in route.callees : TRUE ELSE Home

\* eXosip_call_build_initial_invite and eXosip_call_send_initial_invite.
eXosip_call_send_initial_invite(u) ==
    /\ u = Caller /\ ua[u].out = NoTransaction
    /\ LET m == generating_request_out_of_dialog(u, "INVITE", Called,
                    IF route.path = << >> THEN NoProxy ELSE Head(route.path))
       IN  Becomes(u, Result([ua[u] EXCEPT !.out = [req |-> m, state |-> "calling", last |-> 0],
                                         !.latest = "out", !.n = @ + 1], cb_snd_message(u, m)))

\* A closed or answered call cannot be answered; the 200 is kept until its ACK
\* comes.  CallThread rings once.
eXosip_call_send_answer(u, code) ==
    LET s == ua[u]
        m == _eXosip_answer_invite_123456xx(u, s.dlg, code, s.inc.req)
    IN  /\ s.inc.state = "proceeding" /\ (code \in 200 .. 299 => s.dlg # NoDialog)
        /\ code < 200 => ~s.inc.rung
        /\ Becomes(u, Result(
              IF code < 200 THEN [s EXCEPT !.inc.rung = TRUE]
              ELSE IF code < 300 THEN [s EXCEPT !.ok200 = m, !.dlg.state = "confirmed", !.inc.state = "terminated"]
              ELSE [s EXCEPT !.inc.state = "completed"],
              cb_snd_message(u, m)))

\* Any other request that was told to the application.
eXosip_call_build_answer(u) ==
    \E m \in ua[u].pending :
        Becomes(u, Result([ua[u] EXCEPT !.pending = @ \ {m}],
            cb_snd_message(u, complete_answer_that_establish_a_dialog(u,
                                  _eXosip_build_response_default(u, ua[u].dlg, 200, m), m))))

\* The CSeq is that of the latest INVITE, not of requests made meanwhile.
eXosip_call_send_ack(u) ==
    LET s == ua[u]
        invite == eXosip_find_last_invite(s).req
        m == [_eXosip_build_request_within_dialog(u, "ACK", s.dlg, s.n) EXCEPT !.cseq = invite.cseq]
    IN  /\ s.toAck
        /\ Becomes(u, IF s.dlg = NoDialog THEN Result([s EXCEPT !.toAck = FALSE], {})
                      ELSE Result([s EXCEPT !.toAck = FALSE, !.ack = m, !.n = @ + 1], cb_snd_message(u, m)))

\* eXosip_call_build_request and eXosip_call_send_request.  A callee speaks after
\* the ACK has come, which is when the engine learns the dialog's number.
eXosip_call_send_request(u, method) ==
    LET s == ua[u]
        m == _eXosip_build_request_within_dialog(u, method, s.dlg, s.n)
        last == eXosip_find_last_invite(s)
    IN  /\ s.dlg.state = "confirmed" /\ s.asks < route.asks /\ ~s.toAck
        /\ s.dlg.type = "caller" \/ s.acked
        /\ \/ /\ method = "INVITE"
              /\ last.state \in {"terminated", "confirmed"} \/ (s.latest = "out" /\ last.state = "completed")
              /\ Becomes(u, Result([s EXCEPT !.dlg.local_cseq = @ + 1, !.n = @ + 1, !.asks = @ + 1, !.latest = "out",
                                           !.out = [req |-> m, state |-> "calling", last |-> 0]],
                                 cb_snd_message(u, m)))
           \/ /\ method = "INFO" /\ \A tr \in s.nict : tr.req.method # "INFO"
              /\ Becomes(u, Result([s EXCEPT !.dlg.local_cseq = @ + 1, !.n = @ + 1, !.asks = @ + 1,
                                           !.nict = @ \cup {[req |-> m]}],
                                 cb_snd_message(u, m)))

\* CANCEL while the INVITE has only been acknowledged by a 1xx, 603 for a call not
\* yet answered, else BYE.
eXosip_call_terminate(u) ==
    LET s == ua[u]
        cancel == generating_cancel(s.out.req)
        bye == _eXosip_build_request_within_dialog(u, "BYE", s.dlg, s.n)
        refusal == _eXosip_answer_invite_123456xx(u, s.dlg, 603, s.inc.req)
    IN  \/ /\ s.out.state # "none" /\ s.out.last \in 100 .. 199
           /\ \A tr \in s.nict : tr.req.method # "CANCEL"
           /\ Becomes(u, Result([s EXCEPT !.nict = @ \cup {[req |-> cancel]}, !.dlg = NoDialog,
                                        !.left = @ \/ s.dlg.state = "confirmed"], cb_snd_message(u, cancel)))
        \/ /\ s.out.state = "none" /\ s.inc.state = "proceeding" /\ s.dlg # NoDialog
           /\ Becomes(u, Result([s EXCEPT !.inc.state = "completed"], cb_snd_message(u, refusal)))
        \/ /\ s.dlg # NoDialog
           /\ IF s.out.state = "none" THEN s.inc.state # "proceeding" /\ s.acked ELSE s.out.last \notin 100 .. 199
           /\ Becomes(u, Result([s EXCEPT !.nict = @ \cup {[req |-> bye]}, !.dlg = NoDialog, !.n = @ + 1],
                              cb_snd_message(u, bye)))

\* eXosip_retransmit_lost200ok, up to the bound.
RepeatOk(u) ==
    LET s == ua[u] IN
    /\ s.ok200 # Message /\ s.dlg # NoDialog /\ s.repeats < route.repeats
    /\ Becomes(u, Result([s EXCEPT !.repeats = @ + 1], cb_snd_message(u, s.ok200)))

Receive(u) ==
    \E m \in net :
        /\ m.at = u
        /\ LET r == _eXosip_handle_incoming_message(u, ua[u], m) IN
           /\ ua' = [ua EXCEPT ![u] = r.s]
           /\ net' = (net \ {m}) \cup r.out
        /\ UNCHANGED <<route, fork>>

-----------------------------------------------------------------------------
(* The proxies: external.  The last one keeps state for the call's first   *)
(* INVITE, the others pass messages on.                                    *)

Pop(m) == [m EXCEPT !.via = Tail(@)]

Back(p, m) == IF Len(m.via) < 2 THEN {}
              ELSE {[Pop(m) EXCEPT !.src = p.host, !.at = osip_response_get_destination(Pop(m))]}

\* RFC 3261, section 16: the Route values for this proxy are used up, a strict
\* router puts the next one into the request URI, and its Via goes on top.
Routed(p, m) ==
    LET restored == IF p.lr /\ m.uri = p.host /\ m.routes # << >>
                    THEN [m EXCEPT !.uri = Last(m.routes).host, !.routes = Front(@)] ELSE m
        popped == IF restored.routes # << >> /\ restored.routes[1].host = p.host
                  THEN [restored EXCEPT !.routes = Tail(@)] ELSE restored
        strict == IF ~p.lr /\ popped.routes # << >>
                  THEN [popped EXCEPT !.uri = popped.routes[1].host, !.routes = Tail(@)] ELSE popped
        fixed == osip_message_fix_last_via_header(strict)
    IN  [fixed EXCEPT !.src = p.host, !.trail = Append(@, p.host),
                      !.rr = IF p.rr /\ m.method = "INVITE" THEN <<Hop(p)>> \o @ ELSE @]

Onward(p, m, key) ==
    LET sent == [m EXCEPT !.via = <<[host |-> p.host, branch |-> <<p.host, m.via[1].branch, key>>, received |-> Nil]>> \o @]
    IN  [sent EXCEPT !.at = Resolved(RequestDestination(sent))]

Own(p, m, method) == [m EXCEPT !.status = 0, !.method = method, !.via = <<m.via[1]>>, !.src = p.host, !.contact = Nil]

\* The last proxy ends its branches by requests of its own.
CancelBranches(p, invites) == {[Own(p, i, "CANCEL") EXCEPT !.at = i.at] : i \in invites}

Forward ==
    \E m \in net, k \in DOMAIN route.path :
        LET p == route.path[k]
            r == Routed(p, m)
            home == r.uri = Home /\ k = Len(route.path)
            branches == {Onward(p, [r EXCEPT !.uri = b], b) : b \in route.callees}
            mine == {i \in fork.open : m.via[1].branch = i.via[1].branch}
        IN  /\ m.at = p.host
            /\ UNCHANGED <<route, ua>>
            /\ \/ /\ m.status = 0 /\ ~home
                  /\ net' = (net \ {m}) \cup {Onward(p, r, "")} /\ UNCHANGED fork
               \/ /\ m.status = 0 /\ home /\ m.method = "INVITE"
                  /\ net' = (net \ {m}) \cup branches /\ fork' = [fork EXCEPT !.open = branches]
               \/ /\ m.status = 0 /\ home /\ m.method = "CANCEL"
                  /\ net' = (net \ {m}) \cup CancelBranches(p, fork.open)
                                \cup {[m EXCEPT !.status = 200, !.src = p.host,
                                                !.at = osip_response_get_destination(osip_message_fix_last_via_header(m))]}
                  /\ UNCHANGED fork
               \/ /\ m.status = 0 /\ home /\ m.method = "ACK"
                  /\ net' = net \ {m} /\ UNCHANGED fork
               \/ /\ m.status # 0 /\ Len(m.via) = 1
                  /\ net' = net \ {m} /\ UNCHANGED fork
               \/ /\ m.status > 100 /\ Len(m.via) > 1 /\ (mine = {} \/ m.status < 200)
                  /\ net' = (net \ {m}) \cup Back(p, m) /\ UNCHANGED fork
               \/ /\ Is2xx(m) /\ Len(m.via) > 1 /\ mine # {}
                  /\ fork' = [open |-> fork.open \ mine, won |-> TRUE]
                  /\ net' = (net \ {m}) \cup Back(p, m) \cup (IF fork.won THEN {} ELSE CancelBranches(p, fork.open \ mine))
               \/ /\ m.status >= 300 /\ Len(m.via) > 1 /\ mine # {}
                  /\ fork' = [fork EXCEPT !.open = @ \ mine]
                  /\ net' = (net \ {m}) \cup {[Own(p, i, "ACK") EXCEPT !.at = i.at, !.to = m.to] : i \in mine}
                                \cup (IF fork.open = mine /\ ~fork.won THEN Back(p, m) ELSE {})

-----------------------------------------------------------------------------
DialogsInit ==
    /\ route \in Routes
    /\ ua = [u \in Agents |-> Agent]
    /\ net = {}
    /\ fork = [open |-> {}, won |-> FALSE]

DialogsNext ==
    \/ Forward
    \/ \E u \in Agents : Receive(u)
    \/ /\ Cardinality(net) <= MaxFlight
       /\ \E u \in Agents :
          \/ eXosip_call_send_initial_invite(u)
          \/ \E code \in {180, 200, 603} : eXosip_call_send_answer(u, code)
          \/ eXosip_call_build_answer(u)
          \/ eXosip_call_send_ack(u)
          \/ \E method \in {"INFO", "INVITE"} : eXosip_call_send_request(u, method)
          \/ eXosip_call_terminate(u)
          \/ RepeatOk(u)

-----------------------------------------------------------------------------
Recorded == LET p == SelectSeq(route.path, LAMBDA x : x.rr) IN [k \in DOMAIN p |-> p[k].host]

Hosts(hops) == [k \in DOMAIN hops |-> hops[k].host]

\* The two ends of a call keep the same dialog: each other's tag and address,
\* the proxies in opposite order, and no CSeq that the other has not yet used.
DialogsMirror ==
    LET a == ua[Caller].dlg IN
    a.state = "confirmed" =>
        LET b == ua[a.remote_tag].dlg IN
        /\ a.target = a.remote_tag /\ Hosts(a.route_set) = Recorded
        /\ b # NoDialog =>
              /\ b.local_tag = a.remote_tag /\ b.remote_tag = a.local_tag /\ b.target = Caller
              /\ a.route_set = Reverse(b.route_set)
              /\ a.remote_cseq <= b.local_cseq /\ b.remote_cseq <= a.local_cseq

\* A request within a dialog takes the recorded way to the agent whose dialog it
\* is in, and a response comes back to the agent that asked, also through a NAT.
ArriveWhereMeant ==
    \A m \in net :
        m.at \in Agents =>
            IF m.status # 0 THEN m.via[1].branch[1] = m.at
            ELSE m.to # Nil /\ m.method # "CANCEL" /\ m.via[1].branch[1] \in Agents =>
                    /\ m.at = m.to
                    /\ m.trail = IF m.from = Caller THEN Recorded ELSE Reverse(Recorded)

\* When everything has arrived, an agent that is in an acknowledged call is in it
\* with one that is in it too: an answer that nobody wanted was ended.  Not so
\* after eXosip_call_terminate during a re-INVITE that rings, which only cancels it.
NobodyLeft ==
    LET a == ua[Caller] IN
    net = {} /\ ~a.toAck /\ (\A u \in Agents : ~ua[u].left) =>
        /\ \A b \in route.callees :
              LET s == ua[b] IN
              s.dlg.state = "confirmed" /\ s.ok200 = Message /\ ~s.toAck => a.dlg # NoDialog /\ a.dlg.remote_tag = b
        /\ a.dlg.state = "confirmed" => ua[a.dlg.remote_tag].dlg.state = "confirmed"
=============================================================================
