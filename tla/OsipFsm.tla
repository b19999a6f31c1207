------------------------------- MODULE OsipFsm -------------------------------
(***************************************************************************)
(* The four transaction state machines of libosip2 (INVITE and other, each *)
(* on the client and on the server side) as operators on a transaction.    *)
(*                                                                         *)
(* A machine is a set of <<state, event, method>>; a method maps the       *)
(* transaction, and whether cb_send_message succeeds, to its effect: the   *)
(* new transaction, the message it hands to the transport ("none" when it  *)
(* sends nothing) and what it tells the user of the transaction.           *)
(*                                                                         *)
(* Timers are counted down in units of T1 (500 ms); Off is a timer that is *)
(* not started (tv_sec = -1), 0 one that is due.  Every machine has at most *)
(* three: "retx" resends (A, E, G), "life" bounds the wait for the other   *)
(* side (B, F, H), "linger" keeps a finished transaction for late copies   *)
(* (D, K, I, J).                                                           *)
(***************************************************************************)
EXTENDS Integers, Sequences

CONSTANTS
    T2,        \* bound of the resend interval (4000 ms)
    T4,        \* how long a message may stay in the network (5000 ms)
    Timeout,   \* 64*T1
    Reliable   \* the top Via says TCP, TLS or SCTP

ASSUME FsmConstants ==
    /\ T2 \in Nat \ {0} /\ T4 \in Nat \ {0} /\ Timeout \in Nat \ {0}
    /\ Reliable \in BOOLEAN

T1  == 1
Off == -1

Contexts == {"ICT", "NICT", "IST", "NIST"}

States == {"PRE", "CALLING", "TRYING", "PROCEEDING", "COMPLETED", "CONFIRMED",
           "TERMINATED"}

\* Responses by class; 101 is built by eXosip and never put on the wire.
Provisional == {"100", "101", "180"}
Final       == {"2xx", "3456xx"}
Responses   == Provisional \cup Final

\* "req" is the request of the transaction, "ack" the ACK that answers a
\* 3456xx (same branch), "ack2xx" the ACK of a 2xx (a branch of its own).
Messages == {"req", "ack", "ack2xx"} \cup Responses

\* An event in the FIFO of a transaction: a message that came in ("rcv"), one
\* the user gave us to send ("snd"), or a timer.
Events == ({"rcv", "snd"} \X Messages) \cup ({"timeout"} \X {"retx", "life", "linger"})

-----------------------------------------------------------------------------
(* Creation: __osip_ict_init, __osip_nict_init, __osip_ist_init and          *)
(* __osip_nist_init.                                                         *)

New(ctx, retx, life, linger, len) ==
    [ctx |-> ctx, state |-> "PRE", fifo |-> << >>, retx |-> retx, rlen |-> len,
     life |-> life, linger |-> linger, last |-> "none"]

ResendLength == IF Reliable THEN Off ELSE T1

\* Timers A and B run from the creation of the transaction.
ict_init == New("ICT", ResendLength, Timeout, Off, ResendLength)

\* Timer F runs from the creation; E is started when the request is sent.
nict_init == New("NICT", Off, Timeout, Off, ResendLength)

\* None of the server's timers is started.
ist_init  == New("IST", Off, Off, Off, ResendLength)
nist_init == New("NIST", Off, Off, Off, Off)

\* Lengths of the timers that absorb late copies.
LengthD == IF Reliable THEN 0 ELSE Timeout
LengthK == IF Reliable THEN 0 ELSE T4
LengthI == IF Reliable THEN 0 ELSE T4
LengthJ == IF Reliable THEN 0 ELSE Timeout

Transaction ==
    [ctx : Contexts, state : States, fifo : Seq(Events),
     retx : {Off} \cup Nat, rlen : {Off} \cup Nat, life : {Off} \cup Nat,
     linger : {Off} \cup Nat, last : {"none"} \cup Responses]

-----------------------------------------------------------------------------
(* Effects. *)

Effect(tr, send, tell) == [tr |-> tr, send |-> send, tell |-> tell]

Terminated(tr) == [tr EXCEPT !.state = "TERMINATED"]

\* xxx_handle_transport_error: report the error, terminate and kill.
TransportError(tr) == Effect(Terminated(tr), "none", "error")

\* Hand msg to cb_send_message; then is the transaction when that succeeds.
Sending(tr, ok, msg, then, tell) ==
    IF ok THEN Effect(then, msg, tell) ELSE TransportError(tr)

Twice(tr) == 2 * tr.rlen
Capped(n) == IF n > T2 THEN T2 ELSE n
Rearm(tr, n) == [tr EXCEPT !.rlen = n, !.retx = n]

-----------------------------------------------------------------------------
(* INVITE client transaction (ict_fsm.c). *)

ict_fsm ==
    { <<"PRE", <<"snd", "req">>, "ict_snd_invite">>,
      <<"CALLING", <<"timeout", "retx">>, "ict_timeout_a">>,
      <<"CALLING", <<"timeout", "life">>, "ict_timeout_b">>,
      <<"COMPLETED", <<"timeout", "linger">>, "ict_timeout_d">>,
      <<"COMPLETED", <<"rcv", "3456xx">>, "ict_retransmit_ack">> }
    \cup { <<s, <<"rcv", r>>, "ict_rcv_1xx">> : s \in {"CALLING", "PROCEEDING"}, r \in Provisional }
    \cup { <<s, <<"rcv", "2xx">>, "ict_rcv_2xx">> : s \in {"CALLING", "PROCEEDING"} }
    \cup { <<s, <<"rcv", "3456xx">>, "ict_rcv_3456xx">> : s \in {"CALLING", "PROCEEDING"} }

ict_snd_invite(tr, ok) == Sending(tr, ok, "req", [tr EXCEPT !.state = "CALLING"], "none")

\* The interval doubles without a bound: timer B ends the series.
ict_timeout_a(tr, ok) == Sending(tr, ok, "req", Rearm(tr, Twice(tr)), "none")

ict_timeout_b(tr) == Effect(Terminated([tr EXCEPT !.life = Off]), "none", "timeout")

ict_rcv_1xx(tr, r) ==
    Effect([tr EXCEPT !.state = "PROCEEDING", !.last = r], "none", r)

ict_rcv_2xx(tr) == Effect(Terminated([tr EXCEPT !.last = "2xx"]), "none", "2xx")

\* The ACK is built and sent before the user hears of the response; when it
\* cannot be sent the user only hears of the transport error.
ict_rcv_3456xx(tr, ok) ==
    LET answered == [tr EXCEPT !.last = "3456xx"]
    IN  Sending(answered, ok, "ack",
                [answered EXCEPT !.state = "COMPLETED", !.linger = LengthD], "3456xx")

ict_timeout_d(tr) == Effect(Terminated([tr EXCEPT !.linger = Off]), "none", "none")

\* A repeated final response is answered with the stored ACK.
ict_retransmit_ack(tr, ok) == Sending(tr, ok, "ack", tr, "none")

-----------------------------------------------------------------------------
(* Other client transactions (nict_fsm.c). *)

nict_fsm ==
    { <<"PRE", <<"snd", "req">>, "nict_snd_request">>,
      <<"COMPLETED", <<"timeout", "linger">>, "nict_timeout_k">> }
    \cup { <<s, <<"timeout", "retx">>, "nict_timeout_e">> : s \in {"TRYING", "PROCEEDING"} }
    \cup { <<s, <<"timeout", "life">>, "nict_timeout_f">> : s \in {"TRYING", "PROCEEDING"} }
    \cup { <<s, <<"rcv", r>>, "nict_rcv_1xx">> : s \in {"TRYING", "PROCEEDING"}, r \in Provisional }
    \cup { <<s, <<"rcv", r>>, "nict_rcv_23456xx">> : s \in {"TRYING", "PROCEEDING"}, r \in Final }

nict_snd_request(tr, ok) ==
    Sending(tr, ok, "req", [tr EXCEPT !.state = "TRYING", !.retx = tr.rlen], "none")

nict_timeout_e(tr, ok) ==
    Sending(tr, ok, "req",
            Rearm(tr, IF tr.state = "TRYING" THEN Capped(Twice(tr)) ELSE T2), "none")

\* Faulty variant of nict_timeout_f: the user is not told.
nict_timeout_f_silent(tr) == Effect(Terminated([tr EXCEPT !.life = Off]), "none", "none")

nict_timeout_f(tr) == Effect(Terminated([tr EXCEPT !.life = Off]), "none", "timeout")

nict_timeout_k(tr) == Effect(Terminated([tr EXCEPT !.linger = Off]), "none", "none")

nict_rcv_1xx(tr, r) ==
    Effect([tr EXCEPT !.state = "PROCEEDING", !.last = r], "none", r)

\* Faulty variant of nict_rcv_23456xx: the state is not changed.
nict_rcv_23456xx_stays(tr, r) ==
    Effect([tr EXCEPT !.last = r, !.linger = LengthK], "none", r)

nict_rcv_23456xx(tr, r) ==
    Effect([tr EXCEPT !.state = "COMPLETED", !.last = r, !.linger = LengthK], "none", r)

-----------------------------------------------------------------------------
(* INVITE server transaction (ist_fsm.c). *)

ist_fsm ==
    { <<"COMPLETED", <<"timeout", "retx">>, "ist_timeout_g">>,
      <<"COMPLETED", <<"timeout", "life">>, "ist_timeout_h">>,
      <<"CONFIRMED", <<"timeout", "linger">>, "ist_timeout_i">>,
      <<"PROCEEDING", <<"snd", "2xx">>, "ist_snd_2xx">>,
      <<"PROCEEDING", <<"snd", "3456xx">>, "ist_snd_3456xx">> }
    \cup { <<s, <<"rcv", "req">>, "ist_rcv_invite">> : s \in {"PRE", "PROCEEDING", "COMPLETED"} }
    \cup { <<"PROCEEDING", <<"snd", r>>, "ist_snd_1xx">> : r \in Provisional }
    \cup { <<s, <<"rcv", "ack">>, "ist_rcv_ack">> : s \in {"COMPLETED", "CONFIRMED"} }

\* The first INVITE is announced; a copy of it is answered with the last
\* response, when there is one.
ist_rcv_invite(tr, ok) ==
    IF tr.state = "PRE" THEN Effect([tr EXCEPT !.state = "PROCEEDING"], "none", "new")
    ELSE IF tr.last = "none" THEN Effect(tr, "none", "none")
    ELSE Sending(tr, ok, tr.last, tr, "none")

ist_timeout_g(tr, ok) == Sending(tr, ok, tr.last, Rearm(tr, Capped(Twice(tr))), "none")

\* No ACK came: the transaction goes away and its user is not told.
ist_timeout_h(tr) == Effect(Terminated([tr EXCEPT !.life = Off]), "none", "none")

ist_timeout_i(tr) == Effect(Terminated([tr EXCEPT !.linger = Off]), "none", "none")

ist_snd_1xx(tr, r, ok) == Sending(tr, ok, r, [tr EXCEPT !.last = r], "none")

\* A 2xx ends the transaction at once: its copies are not sent from here.
ist_snd_2xx(tr, ok) ==
    Sending(tr, ok, "2xx", Terminated([tr EXCEPT !.last = "2xx"]), "none")

ist_snd_3456xx(tr, ok) ==
    Sending(tr, ok, "3456xx",
            [tr EXCEPT !.state = "COMPLETED", !.last = "3456xx",
                       !.retx = tr.rlen, !.life = Timeout], "none")

\* Faulty variant of ist_rcv_ack: timer I is not started.
ist_rcv_ack_stays(tr) == Effect([tr EXCEPT !.state = "CONFIRMED"], "none", "none")

\* Every ACK restarts timer I.
ist_rcv_ack(tr) ==
    Effect([tr EXCEPT !.state = "CONFIRMED", !.linger = LengthI], "none", "none")

-----------------------------------------------------------------------------
(* Other server transactions (nist_fsm.c). *)

nist_fsm ==
    { <<"COMPLETED", <<"timeout", "linger">>, "nist_timeout_j">> }
    \cup { <<s, <<"rcv", "req">>, "nist_rcv_request">> : s \in {"PRE", "PROCEEDING", "COMPLETED"} }
    \cup { <<s, <<"snd", r>>, "nist_snd_1xx">> : s \in {"TRYING", "PROCEEDING"}, r \in Provisional }
    \cup { <<s, <<"snd", r>>, "nist_snd_23456xx">> : s \in {"TRYING", "PROCEEDING"}, r \in Final }

nist_rcv_request(tr, ok) ==
    IF tr.state = "PRE" THEN Effect([tr EXCEPT !.state = "TRYING"], "none", "new")
    ELSE IF tr.last = "none" THEN Effect(tr, "none", "none")
    ELSE Sending(tr, ok, tr.last, tr, "none")

nist_snd_1xx(tr, r, ok) ==
    Sending(tr, ok, r, [tr EXCEPT !.state = "PROCEEDING", !.last = r], "none")

nist_snd_23456xx(tr, r, ok) ==
    Sending(tr, ok, r,
            [tr EXCEPT !.state = "COMPLETED", !.last = r, !.linger = LengthJ], "none")

nist_timeout_j(tr) == Effect(Terminated([tr EXCEPT !.linger = Off]), "none", "none")

-----------------------------------------------------------------------------
(* osip_transaction_execute. *)

fsm(ctx) == CASE ctx = "ICT"  -> ict_fsm
              [] ctx = "NICT" -> nict_fsm
              [] ctx = "IST"  -> ist_fsm
              [] ctx = "NIST" -> nist_fsm

\* fsm_findmethod: the methods of this state and event; none or one.
Methods(tr, e) == { t[3] : t \in {u \in fsm(tr.ctx) : u[1] = tr.state /\ u[2] = e} }

\* fsm_callmethod: an event without a method is useless and only freed.
Execute(tr, e, ok) ==
    IF Methods(tr, e) = {} THEN Effect(tr, "none", "none")
    ELSE LET m == CHOOSE m \in Methods(tr, e) : TRUE
         IN  CASE m = "ict_snd_invite"     -> ict_snd_invite(tr, ok)
               [] m = "ict_timeout_a"      -> ict_timeout_a(tr, ok)
               [] m = "ict_timeout_b"      -> ict_timeout_b(tr)
               [] m = "ict_timeout_d"      -> ict_timeout_d(tr)
               [] m = "ict_rcv_1xx"        -> ict_rcv_1xx(tr, e[2])
               [] m = "ict_rcv_2xx"        -> ict_rcv_2xx(tr)
               [] m = "ict_rcv_3456xx"     -> ict_rcv_3456xx(tr, ok)
               [] m = "ict_retransmit_ack" -> ict_retransmit_ack(tr, ok)
               [] m = "nict_snd_request"   -> nict_snd_request(tr, ok)
               [] m = "nict_timeout_e"     -> nict_timeout_e(tr, ok)
               [] m = "nict_timeout_f"     -> nict_timeout_f(tr)
               [] m = "nict_timeout_k"     -> nict_timeout_k(tr)
               [] m = "nict_rcv_1xx"       -> nict_rcv_1xx(tr, e[2])
               [] m = "nict_rcv_23456xx"   -> nict_rcv_23456xx(tr, e[2])
               [] m = "ist_rcv_invite"     -> ist_rcv_invite(tr, ok)
               [] m = "ist_timeout_g"      -> ist_timeout_g(tr, ok)
               [] m = "ist_timeout_h"      -> ist_timeout_h(tr)
               [] m = "ist_timeout_i"      -> ist_timeout_i(tr)
               [] m = "ist_snd_1xx"        -> ist_snd_1xx(tr, e[2], ok)
               [] m = "ist_snd_2xx"        -> ist_snd_2xx(tr, ok)
               [] m = "ist_snd_3456xx"     -> ist_snd_3456xx(tr, ok)
               [] m = "ist_rcv_ack"        -> ist_rcv_ack(tr)
               [] m = "nist_rcv_request"   -> nist_rcv_request(tr, ok)
               [] m = "nist_snd_1xx"       -> nist_snd_1xx(tr, e[2], ok)
               [] m = "nist_snd_23456xx"   -> nist_snd_23456xx(tr, e[2], ok)
               [] m = "nist_timeout_j"     -> nist_timeout_j(tr)

-----------------------------------------------------------------------------
(* The timers: __osip_xxx_need_timer_y_event and osip_timers_xxx_execute.    *)

\* A timer that is due counts only in its states.
Due(tr, timer, states) == tr.state \in states /\ tr[timer] = 0

need_timer_a_event(tr) == Due(tr, "retx", {"CALLING"})
need_timer_b_event(tr) == Due(tr, "life", {"CALLING"})
need_timer_d_event(tr) == Due(tr, "linger", {"COMPLETED"})
need_timer_e_event(tr) == Due(tr, "retx", {"TRYING", "PROCEEDING"})
need_timer_f_event(tr) == Due(tr, "life", {"TRYING", "PROCEEDING"})
need_timer_k_event(tr) == Due(tr, "linger", {"COMPLETED"})
need_timer_g_event(tr) == Due(tr, "retx", {"COMPLETED"})
need_timer_h_event(tr) == Due(tr, "life", {"COMPLETED"})
need_timer_i_event(tr) == Due(tr, "linger", {"CONFIRMED"})
need_timer_j_event(tr) == Due(tr, "linger", {"COMPLETED"})

\* Of the due timers the first asked is taken.
Timer(t) == << <<"timeout", t>> >>

\* Only the INVITE client skips its timers while an event is pending.
osip_timers_ict_execute(tr) ==
    IF tr.fifo # << >> THEN << >>
    ELSE IF need_timer_b_event(tr) THEN Timer("life")
    ELSE IF need_timer_a_event(tr) THEN Timer("retx")
    ELSE IF need_timer_d_event(tr) THEN Timer("linger") ELSE << >>

osip_timers_nict_execute(tr) ==
    IF need_timer_k_event(tr) THEN Timer("linger")
    ELSE IF need_timer_f_event(tr) THEN Timer("life")
    ELSE IF need_timer_e_event(tr) THEN Timer("retx") ELSE << >>

osip_timers_ist_execute(tr) ==
    IF need_timer_i_event(tr) THEN Timer("linger")
    ELSE IF need_timer_h_event(tr) THEN Timer("life")
    ELSE IF need_timer_g_event(tr) THEN Timer("retx") ELSE << >>

osip_timers_nist_execute(tr) == IF need_timer_j_event(tr) THEN Timer("linger") ELSE << >>

TimerEvents(tr) ==
    CASE tr.ctx = "ICT"  -> osip_timers_ict_execute(tr)
      [] tr.ctx = "NICT" -> osip_timers_nict_execute(tr)
      [] tr.ctx = "IST"  -> osip_timers_ist_execute(tr)
      [] tr.ctx = "NIST" -> osip_timers_nist_execute(tr)

Later(n) == IF n > 0 THEN n - 1 ELSE n

\* One T1 passes.
Age(tr) == [tr EXCEPT !.retx = Later(@), !.life = Later(@), !.linger = Later(@)]

=============================================================================
