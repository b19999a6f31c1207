------------------------------ MODULE Exchange -------------------------------
(***************************************************************************)
(* One SIP request and its answer between two eXosip user agents: the      *)
(* caller's transaction, the callee's, the network between them and what   *)
(* eXosip does above the transactions (dialogs, ACK, the 200 OK it sends   *)
(* again, the release of calls that went nowhere).                         *)
(*                                                                         *)
(* Each side runs eXosip's loop: read messages into the FIFOs, collect the *)
(* timers that are due, execute the FIFOs.  The application calls in at    *)
(* any time.  Time passes in units of T1 when all due work is done.        *)
(***************************************************************************)
EXTENDS OsipFsm, FiniteSets

CONSTANTS
    Kinds,       \* requests to try: "INVITE", "OTHER"
    Delay,       \* longest time a message is under way
    MaxFaults,   \* messages lost, delivered twice or refused by the socket
    RetryWait,   \* time between two copies of a 200 OK (4 s)
    RetryMax,    \* copies of a 200 OK before the call is dropped (5)
    Patience,    \* age at which an unfinished call is released (180 s)
    AnswerStatus \* the status argument of eXosip_call_send_answer for a 200

ASSUME ExchangeConstants ==
    /\ Kinds \subseteq {"INVITE", "OTHER"}
    /\ {Delay, MaxFaults, RetryWait, RetryMax, Patience} \subseteq Nat
    /\ AnswerStatus \in {0, 200}

VARIABLES
    kind,    \* of the request
    client,  \* the transaction of the caller
    server,  \* the transaction of the callee; TERMINATED when it has none
    net,     \* messages under way
    phase,   \* where each side's loop is: "read" or "execute"
    uac,     \* the caller above the transaction
    uas,     \* the callee above the transaction
    faults   \* messages lost, duplicated and refused so far

vars == <<kind, client, server, net, phase, uac, uas, faults>>

Sides == {"uac", "uas"}
Inputs == [to : Sides, msg : Messages, ttl : 0 .. Delay]

\* jd->d_ack: built and sent by the engine when it sees the answer.
Caller == [asked : BOOLEAN, outcome : {"none", "failed"} \cup Final,
           ack : {"none", "owed", "sent"}, age : 0 .. Patience]

\* said: what the application sent last, given: its final answers; dialog: jd->d_dialog exists; held,
\* tries and wait: d_200Ok, d_count and the time to d_timer.
Callee == [announced : Nat, said : {"none", "180"} \cup Final,
           given : SUBSET Final, dialog : BOOLEAN,
           held : BOOLEAN, tries : 0 .. RetryMax, wait : 0 .. RetryWait,
           acked : BOOLEAN, dropped : BOOLEAN, age : 0 .. Patience]

TypeOK ==
    /\ kind \in Kinds
    /\ client \in Transaction /\ server \in Transaction
    /\ net \subseteq Inputs
    /\ phase \in [Sides -> {"read", "execute"}]
    /\ uac \in Caller /\ uas \in Callee
    /\ faults \in [{"lost", "dup", "fail"} -> 0 .. MaxFaults]

Gone(tr) == tr.state = "TERMINATED"

Init ==
    /\ kind \in Kinds
    /\ client = Terminated(IF kind = "INVITE" THEN ict_init ELSE nict_init)
    /\ server = Terminated(IF kind = "INVITE" THEN ist_init ELSE nist_init)
    /\ net = {}
    /\ phase = [s \in Sides |-> "read"]
    /\ uac = [asked |-> FALSE, outcome |-> "none", ack |-> "none", age |-> 0]
    /\ uas = [announced |-> 0, said |-> "none", given |-> {}, dialog |-> FALSE, held |-> FALSE,
              tries |-> 0, wait |-> 0, acked |-> FALSE, dropped |-> FALSE, age |-> 0]
    /\ faults = [lost |-> 0, dup |-> 0, fail |-> 0]

-----------------------------------------------------------------------------
(* The network and the transport. *)

Peer(side) == IF side = "uac" THEN "uas" ELSE "uac"

\* cb_snd_message: a 101 never leaves the host.
Wire(side, msg) ==
    IF msg \in {"none", "101"} THEN {}
    ELSE {[to |-> Peer(side), msg |-> msg, ttl |-> Delay]}

MoreFaults == faults.lost + faults.dup + faults.fail < MaxFaults

Lose(m) ==
    /\ m \in net /\ MoreFaults
    /\ net' = net \ {m}
    /\ faults' = [faults EXCEPT !.lost = @ + 1]
    /\ UNCHANGED <<kind, client, server, phase, uac, uas>>

\* What is left under way when m is delivered: nothing, or a copy of it.
Delivered(m) ==
    \/ net' = net \ {m} /\ UNCHANGED faults
    \/ MoreFaults /\ net' = net /\ faults' = [faults EXCEPT !.dup = @ + 1]

Add(tr, e) == [tr EXCEPT !.fifo = Append(@, e)]

-----------------------------------------------------------------------------
(* The caller's side. *)

\* eXosip_call_send_initial_invite and its kin: a transaction with the request
\* in its FIFO.
Ask ==
    /\ ~uac.asked
    /\ client' = Add(IF kind = "INVITE" THEN ict_init ELSE nict_init, <<"snd", "req">>)
    /\ uac' = [uac EXCEPT !.asked = TRUE]
    /\ UNCHANGED <<kind, server, net, phase, uas, faults>>

\* osip_find_transaction_and_add_event: a response of a live transaction.
ClientReads(m) ==
    /\ m \in net /\ m.to = "uac" /\ phase["uac"] = "read" /\ ~Gone(client)
    /\ client' = Add(client, <<"rcv", m.msg>>)
    /\ Delivered(m)
    /\ UNCHANGED <<kind, server, phase, uac, uas>>

\* eXosip_process_response_out_of_transaction: a 2xx of a dialog we know is
\* answered with the ACK that was sent for it; everything else is dropped.
ClientReadsLate(m) ==
    /\ m \in net /\ m.to = "uac" /\ phase["uac"] = "read" /\ Gone(client)
    /\ IF kind = "INVITE" /\ m.msg = "2xx" /\ uac.ack = "sent"
       THEN net' = (net \ {m}) \cup Wire("uac", "ack2xx")
       ELSE net' = net \ {m}
    /\ UNCHANGED <<kind, client, server, phase, uac, uas, faults>>

\* osip_timers_ict_execute, osip_timers_nict_execute: the second half of the
\* loop begins.
ClientTimers ==
    /\ phase["uac"] = "read"
    /\ client.fifo # << >> \/ TimerEvents(client) # << >>
    /\ client' = [client EXCEPT !.fifo = @ \o TimerEvents(client)]
    /\ phase' = [phase EXCEPT !["uac"] = "execute"]
    /\ UNCHANGED <<kind, server, net, uac, uas, faults>>

\* Faulty variant of Hears: every end without an answer is reported.
HearsAll(r) ==
    CASE r.tell \in Final /\ uac.outcome = "none" ->
            [uac EXCEPT !.outcome = r.tell,
                        !.ack = IF kind = "INVITE" /\ r.tell = "2xx" THEN "owed" ELSE @]
      [] r.tell \in {"timeout", "error"} -> [uac EXCEPT !.outcome = "failed"]
      [] OTHER -> uac

\* cb_rcv2xx, cb_rcv3xx .. cb_rcv6xx report the answer.  A timeout or an error
\* is reported by cb_xixt_kill_transaction, for requests that are no INVITE,
\* and then only when there was no response at all, not even a 1xx.
Hears(r) ==
    CASE r.tell \in Final /\ uac.outcome = "none" ->
            [uac EXCEPT !.outcome = r.tell,
                        !.ack = IF kind = "INVITE" /\ r.tell = "2xx" THEN "owed" ELSE @]
      [] r.tell \in {"timeout", "error"} /\ kind = "OTHER" /\ r.tr.last = "none" ->
            [uac EXCEPT !.outcome = "failed"]
      [] OTHER -> uac

\* Refusals of the socket are only interesting where something is sent.
MayFail(tr, e) ==
    MoreFaults /\ Execute(tr, e, FALSE) # Execute(tr, e, TRUE)

Refused(ok) == IF ok THEN faults ELSE [faults EXCEPT !.fail = @ + 1]

\* A killed transaction leaves the lists; what its FIFO holds is freed.
Killed(tr) == IF Gone(tr) THEN [tr EXCEPT !.fifo = << >>] ELSE tr

\* The loop starts again when the FIFO is empty.
Turn(side, tr) == IF tr.fifo = << >> THEN [phase EXCEPT ![side] = "read"] ELSE phase

\* osip_ict_execute, osip_nict_execute.
ClientExecutes ==
    /\ phase["uac"] = "execute" /\ client.fifo # << >>
    /\ LET e    == Head(client.fifo)
           rest == [client EXCEPT !.fifo = Tail(@)]
       IN  \E ok \in {TRUE} \cup (IF MayFail(rest, e) THEN {FALSE} ELSE {}) :
             LET r == Execute(rest, e, ok)
             IN  /\ client' = Killed(r.tr)
                 /\ phase' = Turn("uac", Killed(r.tr))
                 /\ net' = net \cup Wire("uac", r.send)
                 /\ uac' = Hears(r)
                 /\ faults' = Refused(ok)
    /\ UNCHANGED <<kind, server, uas>>

\* The engine answers EXOSIP_CALL_ANSWERED with eXosip_call_send_ack, which
\* keeps the ACK whether or not it could be sent.
SendAck ==
    /\ uac.ack = "owed"
    /\ uac' = [uac EXCEPT !.ack = "sent"]
    /\ \/ net' = net \cup Wire("uac", "ack2xx") /\ UNCHANGED faults
       \/ MoreFaults /\ UNCHANGED net /\ faults' = Refused(FALSE)
    /\ UNCHANGED <<kind, client, server, phase, uas>>

\* eXosip_release_terminated_calls: a call whose INVITE ended without an
\* answer, or has been waiting for one for too long.
ClientReleases ==
    /\ kind = "INVITE" /\ uac.asked /\ uac.outcome = "none" /\ phase["uac"] = "read"
    /\ Gone(client) \/ uac.age = Patience
    /\ uac' = [uac EXCEPT !.outcome = "failed"]
    /\ client' = Killed(Terminated(client))
    /\ UNCHANGED <<kind, server, net, phase, uas, faults>>

-----------------------------------------------------------------------------
(* The callee's side. *)

\* A copy of the request or the ACK of a 3456xx, for a live transaction.
ServerReads(m) ==
    /\ m \in net /\ m.to = "uas" /\ phase["uas"] = "read"
    /\ m.msg \in {"req", "ack"} /\ ~Gone(server)
    /\ server' = Add(server, <<"rcv", m.msg>>)
    /\ Delivered(m)
    /\ UNCHANGED <<kind, client, phase, uac, uas>>

\* Faulty variant of IsRepeat: a request of a known dialog is a new one.
NeverRepeat == FALSE

\* eXosip_process_newrequest finds the dialog of an earlier copy: the CSeq is
\* that of the dialog, the new transaction is freed and nothing is answered.
IsRepeat == kind = "INVITE" /\ uas.dialog

\* eXosip_process_newrequest, eXosip_process_new_invite: a new transaction; for
\* an INVITE also the 100, the 101 and the dialog, executed on the spot.
ServerReadsNew(m) ==
    /\ m \in net /\ m.to = "uas" /\ phase["uas"] = "read"
    /\ m.msg = "req" /\ Gone(server)
    /\ Delivered(m)
    /\ IF IsRepeat THEN UNCHANGED <<server, phase, uas>>
       ELSE /\ server' = IF kind = "INVITE"
                         THEN [ist_init EXCEPT !.fifo = << <<"rcv", "req">>, <<"snd", "100">>,
                                                           <<"snd", "101">> >>]
                         ELSE Add(nist_init, <<"rcv", "req">>)
            /\ phase' = [phase EXCEPT !["uas"] = "execute"]
            /\ uas' = [uas EXCEPT !.dialog = (kind = "INVITE"), !.said = "none", !.age = 0]
    /\ UNCHANGED <<kind, client, uac>>

\* eXosip_process_ack: the ACK of a 2xx belongs to the dialog; without one, and
\* without a transaction, an ACK is dropped.
ServerReadsAck(m) ==
    /\ m \in net /\ m.to = "uas" /\ phase["uas"] = "read"
    /\ m.msg = "ack2xx" \/ (m.msg = "ack" /\ Gone(server))
    /\ net' = net \ {m}
    /\ uas' = IF m.msg = "ack2xx" /\ uas.dialog
              THEN [uas EXCEPT !.acked = TRUE, !.held = FALSE, !.tries = 0] ELSE uas
    /\ UNCHANGED <<kind, client, server, phase, uac, faults>>

\* osip_timers_ist_execute, osip_timers_nist_execute.
ServerTimers ==
    /\ phase["uas"] = "read"
    /\ server.fifo # << >> \/ TimerEvents(server) # << >>
    /\ server' = [server EXCEPT !.fifo = @ \o TimerEvents(server)]
    /\ phase' = [phase EXCEPT !["uas"] = "execute"]
    /\ UNCHANGED <<kind, client, net, uac, uas, faults>>

\* osip_ist_execute, osip_nist_execute.  A new request is reported; sending a
\* refusal of an INVITE deletes the early dialog (cb_snd123456xx).
ServerExecutes ==
    /\ phase["uas"] = "execute" /\ server.fifo # << >>
    /\ LET e    == Head(server.fifo)
           rest == [server EXCEPT !.fifo = Tail(@)]
       IN  \E ok \in {TRUE} \cup (IF MayFail(rest, e) THEN {FALSE} ELSE {}) :
             LET r == Execute(rest, e, ok)
             IN  /\ server' = Killed(r.tr)
                 /\ phase' = Turn("uas", Killed(r.tr))
                 /\ net' = net \cup Wire("uas", r.send)
                 /\ uas' = [uas EXCEPT
                      !.announced = IF r.tell = "new" THEN @ + 1 ELSE @,
                      !.dialog = @ /\ r.send # "3456xx"]
                 /\ faults' = Refused(ok)
    /\ UNCHANGED <<kind, client, uac>>

Waiting == uas.announced > 0 /\ uas.said \notin Final

\* eXosip_call_send_answer refuses a transaction that was answered or is gone.
CanAnswer == server.state \in {"TRYING", "PROCEEDING"} /\ (kind = "INVITE" => uas.dialog)

\* The engine answers EXOSIP_CALL_INVITE with a 180.  Other requests may get a
\* provisional answer too, from a registrar.
Ring ==
    /\ uas.announced > 0 /\ uas.said = "none"
    /\ uas' = [uas EXCEPT !.said = "180"]
    /\ server' = IF CanAnswer THEN Add(server, <<"snd", "180">>) ELSE server
    /\ UNCHANGED <<kind, client, net, phase, uac, faults>>

\* eXosip_call_send_answer keeps a 2xx only when its status argument says 2xx.
Keeps(a) == kind = "INVITE" /\ a = "2xx" /\ AnswerStatus = 200

\* eXosip_call_send_answer with a final answer, when the user decides.
SendAnswer(a) ==
    /\ Waiting /\ CanAnswer
    /\ kind = "INVITE" => uas.said = "180"
    /\ server' = Add(server, <<"snd", a>>)
    /\ uas' = [uas EXCEPT !.said = a, !.given = @ \cup {a}, !.held = Keeps(a), !.tries = 0,
                          !.wait = IF Keeps(a) THEN RetryWait \div 2 ELSE 0]
    /\ UNCHANGED <<kind, client, net, phase, uac, faults>>

\* eXosip_retransmit_lost200ok, called whenever the engine waits for events.
Retransmit200 ==
    /\ uas.held /\ uas.dialog /\ uas.tries < RetryMax /\ uas.wait = 0
    /\ net' = net \cup Wire("uas", "2xx")
    /\ uas' = [uas EXCEPT !.tries = @ + 1, !.wait = RetryWait]
    /\ UNCHANGED <<kind, client, server, phase, uac, faults>>

\* Faulty variant of DropUnacked: the 200 OK is forgotten and the call kept.
ForgetUnacked ==
    /\ uas.held /\ uas.tries = RetryMax
    /\ uas' = [uas EXCEPT !.held = FALSE, !.tries = 0]
    /\ UNCHANGED <<kind, client, server, net, phase, uac, faults>>

\* The same function after the last copy: eXosip_call_terminate sends a BYE and
\* gives the dialog up.  It does not wait for the answer to that copy.
DropUnacked ==
    /\ uas.held /\ uas.tries = RetryMax
    /\ uas' = [uas EXCEPT !.held = FALSE, !.tries = 0, !.dialog = FALSE, !.dropped = TRUE]
    /\ UNCHANGED <<kind, client, server, net, phase, uac, faults>>

\* eXosip_release_aborted_calls: an INVITE nobody answered.
ServerReleases ==
    /\ kind = "INVITE" /\ Waiting /\ ~Gone(server) /\ phase["uas"] = "read"
    /\ uas.age = Patience
    /\ server' = Killed(Terminated(server))
    /\ uas' = [uas EXCEPT !.dialog = FALSE]
    /\ UNCHANGED <<kind, client, net, phase, uac, faults>>

-----------------------------------------------------------------------------
(* Time. *)

ClientWaits == kind = "INVITE" /\ uac.asked /\ uac.outcome = "none"
ServerWaits == kind = "INVITE" /\ Waiting /\ ~Gone(server)

\* The loops turn much faster than T1, so nothing is left to do when it passes.
Settled ==
    /\ \A s \in Sides : phase[s] = "read"
    /\ \A tr \in {client, server} : tr.fifo = << >> /\ TimerEvents(tr) = << >>
    /\ \A m \in net : m.ttl > 0
    /\ uac.ack # "owed"
    /\ ~(kind = "INVITE" /\ Waiting /\ uas.said = "none")
    /\ ~(uas.held /\ (uas.wait = 0 \/ uas.tries = RetryMax))
    /\ ~(ClientWaits /\ (Gone(client) \/ uac.age = Patience))
    /\ ~(ServerWaits /\ uas.age = Patience)

Tick ==
    /\ uac.asked /\ Settled
    /\ client' = Age(client) /\ server' = Age(server)
    /\ net' = {[m EXCEPT !.ttl = @ - 1] : m \in net}
    /\ uac' = [uac EXCEPT !.age = IF ClientWaits THEN @ + 1 ELSE @]
    /\ uas' = [uas EXCEPT !.wait = Later(@), !.age = IF ServerWaits THEN @ + 1 ELSE @]
    /\ UNCHANGED <<kind, phase, faults>>

-----------------------------------------------------------------------------
ClientReceives == \E m \in net : ClientReads(m) \/ ClientReadsLate(m)
ServerReceives == \E m \in net : ServerReads(m) \/ ServerReadsNew(m) \/ ServerReadsAck(m)

ClientLoop == ClientReceives \/ ClientTimers \/ ClientExecutes \/ ClientReleases
ServerLoop == ServerReceives \/ ServerTimers \/ ServerExecutes \/ ServerReleases

\* What the threads and the clock do by themselves.
Progress ==
    \/ ClientLoop \/ SendAck
    \/ ServerLoop \/ (kind = "INVITE" /\ Ring) \/ Retransmit200 \/ DropUnacked
    \/ Tick

Next ==
    \/ Progress
    \/ Ask
    \/ kind = "OTHER" /\ Ring
    \/ \E a \in Final : SendAnswer(a)
    \/ \E m \in net : Lose(m)

Spec == Init /\ [][Next]_vars

\* The loops of the threads turn and time passes.  This is less than fairness
\* of each thread; it is enough since Tick waits for the others.  Nobody has to
\* make the call or to answer it, and nothing has to be lost.
FairSpec == Spec /\ WF_vars(Progress)

-----------------------------------------------------------------------------
(* Properties. *)

\* A request is put to the application once, whatever the network repeats:
\* only an answer the socket refused (the transaction is killed) lets a copy
\* through eXosip_process_newrequest again.  It takes fewer losses than answers
\* and copies of them: a callee that heard no ACK drops the call, and if every
\* answer was lost the caller's next copy is a new call to it.
ServedOnce == uas.announced <= 1 + faults.fail

\* The exchange implements the abstract request: what the caller learns is
\* what the callee answered, or a failure, and is learned once.
Abstract == INSTANCE RequestResponse WITH
    Answers <- Final,
    asked <- uac.asked,
    pending <- Waiting,
    answers <- uas.given,
    outcome <- uac.outcome

Implements == Abstract!Spec

\* Once the caller has learned the outcome, its transaction puts no further
\* copy of the request on the wire (timers A and E do not count any more).
QuietAfterOutcome ==
    [][uac.outcome # "none" =>
         \A m \in net' \ net : m.msg = "req" => m.ttl < Delay]_vars

\* A transaction whose work is done goes away: timers D, H, I, J and K are
\* never left stopped.
LeavesTheList ==
    /\ client.state = "COMPLETED" ~> Gone(client)
    /\ server.state \in {"COMPLETED", "CONFIRMED"} ~> Gone(server)

\* Every request is decided in the end, without help from the other side or
\* the network.  The exception is in cb_xixt_kill_transaction: a request other
\* than INVITE that got a provisional answer and no other ends unreported.
Decided ==
    uac.asked ~> (uac.outcome # "none" \/ (kind = "OTHER" /\ client.last \in Provisional))

\* An accepted INVITE settles: the callee gets the ACK, or it gives the call up
\* and says BYE; it does not wait for ever.
AnswerSettles == (kind = "INVITE" /\ uas.said = "2xx") ~> (uas.acked \/ uas.dropped)

=============================================================================
