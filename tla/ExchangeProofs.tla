--------------------------- MODULE ExchangeProofs ---------------------------
(***************************************************************************)
(* The exchange implements the abstract request, for every timer length,   *)
(* delay and number of lost, repeated and refused messages, and the caller *)
(* sends no copy of its request once it knows the outcome.                 *)
(*                                                                         *)
(* What the caller learns has come a long way: the application gave it, it *)
(* waited in the callee's FIFO, the transaction kept it for copies, it was *)
(* under way, perhaps twice, and waited in the caller's FIFO.  The         *)
(* invariant follows it: a final answer found in any of these places was   *)
(* given (AnswersGiven).                                                   *)
(***************************************************************************)
EXTENDS Exchange, SequenceTheorems, TLAPS

\* A transaction, its timers anywhere.
Tr == [ctx : Contexts, state : States, fifo : Seq(Events), retx : Int, rlen : Int, life : Int,
       linger : Int, last : {"none"} \cup Responses]

---------------------------------------------------------------------------
(* The state machines *)

\* The rows of the INVITE client's table, by state, event and method.
LEMMA IctRows ==
    ASSUME NEW tr, tr.ctx = "ICT", NEW e, NEW m \in Methods(tr, e)
    PROVE  \/ tr.state = "PRE" /\ m = "ict_snd_invite"
           \/ tr.state = "CALLING" /\ m \in {"ict_timeout_a", "ict_timeout_b"}
           \/ tr.state = "COMPLETED" /\ m \in {"ict_timeout_d", "ict_retransmit_ack"}
           \/ tr.state \in {"CALLING", "PROCEEDING"} /\ m = "ict_rcv_1xx" /\ e[2] \in Provisional
           \/ tr.state \in {"CALLING", "PROCEEDING"} /\ m = "ict_rcv_2xx" /\ e = <<"rcv", "2xx">>
           \/ tr.state \in {"CALLING", "PROCEEDING"} /\ m = "ict_rcv_3456xx" /\ e = <<"rcv", "3456xx">>
<1>1. PICK u \in ict_fsm : u[1] = tr.state /\ u[2] = e /\ u[3] = m
  BY DEF Methods, fsm
<1> QED BY <1>1 DEF ict_fsm

\* The rows of the other clients' table.
LEMMA NictRows ==
    ASSUME NEW tr, tr.ctx = "NICT", NEW e, NEW m \in Methods(tr, e)
    PROVE  \/ tr.state = "PRE" /\ m = "nict_snd_request"
           \/ tr.state = "COMPLETED" /\ m = "nict_timeout_k"
           \/ tr.state \in {"TRYING", "PROCEEDING"} /\ m \in {"nict_timeout_e", "nict_timeout_f"}
           \/ tr.state \in {"TRYING", "PROCEEDING"} /\ m = "nict_rcv_1xx" /\ e[2] \in Provisional
           \/ /\ tr.state \in {"TRYING", "PROCEEDING"} /\ m = "nict_rcv_23456xx"
              /\ e[2] \in Final /\ e = <<"rcv", e[2]>>
<1>1. PICK u \in nict_fsm : u[1] = tr.state /\ u[2] = e /\ u[3] = m
  BY DEF Methods, fsm
<1> QED BY <1>1 DEF nict_fsm

\* The rows of the INVITE server's table.
LEMMA IstRows ==
    ASSUME NEW tr, tr.ctx = "IST", NEW e, NEW m \in Methods(tr, e)
    PROVE  /\ tr.state # "TERMINATED"
           /\ \/ m \in {"ist_timeout_g", "ist_timeout_h", "ist_timeout_i", "ist_rcv_invite", "ist_rcv_ack"}
              \/ m = "ist_snd_2xx" /\ e = <<"snd", "2xx">>
              \/ m = "ist_snd_3456xx" /\ e = <<"snd", "3456xx">>
              \/ m = "ist_snd_1xx" /\ e[2] \in Provisional
<1>1. PICK u \in ist_fsm : u[1] = tr.state /\ u[2] = e /\ u[3] = m
  BY DEF Methods, fsm
<1> QED BY <1>1 DEF ist_fsm

\* The rows of the other servers' table.
LEMMA NistRows ==
    ASSUME NEW tr, tr.ctx = "NIST", NEW e, NEW m \in Methods(tr, e)
    PROVE  /\ tr.state # "TERMINATED"
           /\ \/ m \in {"nist_timeout_j", "nist_rcv_request"}
              \/ m = "nist_snd_1xx" /\ e[2] \in Provisional
              \/ m = "nist_snd_23456xx" /\ e[2] \in Final /\ e = <<"snd", e[2]>>
<1>1. PICK u \in nist_fsm : u[1] = tr.state /\ u[2] = e /\ u[3] = m
  BY DEF Methods, fsm
<1> QED BY <1>1 DEF nist_fsm

Done == {"COMPLETED", "TERMINATED"}

\* What an event may do to a client transaction: r is the effect of e on tr.
ClientRun(tr, e, r) ==
    /\ r.tr \in Tr /\ r.tr.ctx = tr.ctx /\ r.tr.fifo = tr.fifo
    /\ r.send \in {"none", "req", "ack"}
    /\ r.send = "req" => tr.state \notin Done
    /\ r.tell \in {"none", "timeout", "error"} \cup Responses
    /\ r.tell \in Final => e = <<"rcv", r.tell>> /\ r.tr.state \in Done
    /\ r.tell \in {"timeout", "error"} => r.tr.state = "TERMINATED"
    /\ tr.state \in Done => /\ r.tr.state \in Done /\ r.tell \in {"none", "error"}
                            /\ tr.ctx = "NICT" => r.tell = "none"
    /\ tr.state = "TERMINATED" => r = Effect(tr, "none", "none")

\* What one may do to a server transaction.
ServerRun(tr, e, r) ==
    /\ r.tr \in Tr /\ r.tr.ctx = tr.ctx /\ r.tr.fifo = tr.fifo
    /\ r.send \in {"none"} \cup Responses
    /\ r.send \in Final => r.send = tr.last \/ e = <<"snd", r.send>>
    /\ r.tr.last \in Final => r.tr.last = tr.last \/ e = <<"snd", r.tr.last>>
    /\ tr.state = "TERMINATED" => r = Effect(tr, "none", "none")

\* An event without a method leaves either kind as it was.
LEMMA NoMethod ==
    ASSUME NEW tr \in Tr, NEW e \in Events, NEW ok \in BOOLEAN, Methods(tr, e) = {}
    PROVE  LET r == Execute(tr, e, ok) IN
           (tr.ctx \in {"ICT", "NICT"} => ClientRun(tr, e, r)) /\ (tr.ctx \in {"IST", "NIST"} => ServerRun(tr, e, r))
<1>1. Execute(tr, e, ok) = [tr |-> tr, send |-> "none", tell |-> "none"]
  BY DEF Execute, Effect
<1> QED BY <1>1 DEF ClientRun, ServerRun, Effect, Final, Tr

\* Ending a transaction keeps the rest of it.
LEMMA TerminatedTr ==
    ASSUME NEW tr \in Tr
    PROVE  LET t == Terminated(tr) IN
           t \in Tr /\ t.ctx = tr.ctx /\ t.fifo = tr.fifo /\ t.last = tr.last /\ t.state = "TERMINATED"
BY DEF Terminated, Tr, States

\* A message is handed to the transport, or the transaction ends in an error.
LEMMA SendingSays ==
    ASSUME NEW tr \in Tr, NEW ok \in BOOLEAN, NEW msg, NEW then, NEW tell
    PROVE  LET r == Sending(tr, ok, msg, then, tell) IN
           \/ r = [tr |-> then, send |-> msg, tell |-> tell]
           \/ r = [tr |-> Terminated(tr), send |-> "none", tell |-> "error"]
BY DEF Sending, TransportError, Effect

\* The values the methods assign.
LEMMA Values ==
    /\ {"PRE", "CALLING", "TRYING", "PROCEEDING", "COMPLETED", "CONFIRMED", "TERMINATED"} \subseteq States
    /\ {"2xx", "3456xx"} = Final /\ Final \subseteq Responses /\ Provisional \subseteq Responses
    /\ Final \cap Provisional = {} /\ {"none", "req", "ack", "ack2xx", "new", "timeout", "error"} \cap Responses = {}
    /\ Off \in Int /\ T2 \in Int /\ Timeout \in Int
    /\ LengthD \in Int /\ LengthK \in Int /\ LengthI \in Int /\ LengthJ \in Int
    /\ \A n \in Int : 2 * n \in Int /\ Capped(n) \in Int
<1>1. Off \in Int /\ T2 \in Int /\ Timeout \in Int /\ T4 \in Int /\ Reliable \in BOOLEAN /\ 0 \in Int
  BY FsmConstants DEF Off
<1>2. LengthD \in Int /\ LengthK \in Int /\ LengthI \in Int /\ LengthJ \in Int
  BY <1>1 DEF LengthD, LengthK, LengthI, LengthJ
<1>3. \A n \in Int : 2 * n \in Int /\ Capped(n) \in Int
  BY <1>1 DEF Capped
<1> QED BY <1>1, <1>2, <1>3 DEF States, Final, Provisional, Responses

\* What a method of a client may say, and what an error says.
LEMMA ClientSays ==
    ASSUME NEW tr \in Tr, NEW e, NEW new \in Tr, new.ctx = tr.ctx, new.fifo = tr.fifo, tr.state # "TERMINATED",
           NEW send \in {"none", "req", "ack"}, send = "req" => tr.state \notin Done,
           NEW tell \in {"none", "timeout"} \cup Responses,
           tell \in Final => e = <<"rcv", tell>> /\ new.state \in Done,
           tell = "timeout" => new.state = "TERMINATED",
           tr.state \in Done => new.state \in Done /\ tell = "none"
    PROVE  ClientRun(tr, e, [tr |-> new, send |-> send, tell |-> tell])
BY Values DEF ClientRun

\* An error ends the transaction and says no more than that.
LEMMA ClientErrs ==
    ASSUME NEW tr \in Tr, NEW e, NEW base \in Tr, base.ctx = tr.ctx, base.fifo = tr.fifo, tr.state # "TERMINATED",
           tr.state \in Done => tr.ctx # "NICT"
    PROVE  ClientRun(tr, e, [tr |-> Terminated(base), send |-> "none", tell |-> "error"])
BY Values, TerminatedTr DEF ClientRun, Done

\* The same for a server.
LEMMA ServerSays ==
    ASSUME NEW tr \in Tr, NEW e, NEW new \in Tr, new.ctx = tr.ctx, new.fifo = tr.fifo, tr.state # "TERMINATED",
           NEW send \in {"none"} \cup Responses, send \in Final => send = tr.last \/ e = <<"snd", send>>,
           new.last \in Final => new.last = tr.last \/ e = <<"snd", new.last>>, NEW tell
    PROVE  ServerRun(tr, e, [tr |-> new, send |-> send, tell |-> tell])
BY Values DEF ServerRun

\* The same for a server.
LEMMA ServerErrs ==
    ASSUME NEW tr \in Tr, NEW e, tr.state # "TERMINATED"
    PROVE  ServerRun(tr, e, [tr |-> Terminated(tr), send |-> "none", tell |-> "error"])
BY Values, TerminatedTr DEF ServerRun

\* The methods of ict_fsm.c.
LEMMA IctExecutes ==
    ASSUME NEW tr \in Tr, tr.ctx = "ICT", NEW e \in Events, NEW ok \in BOOLEAN, Methods(tr, e) # {}
    PROVE  ClientRun(tr, e, Execute(tr, e, ok))
<1> DEFINE m == CHOOSE x \in Methods(tr, e) : TRUE
           r == Execute(tr, e, ok)
<1> SUFFICES ClientRun(tr, e, r)
  OBVIOUS
<1>1. m \in Methods(tr, e)
  OBVIOUS
<1>2. CASE m = "ict_snd_invite"
  <2>1. r = ict_snd_invite(tr, ok)
    BY <1>2 DEF Execute
  <2> DEFINE new == [tr EXCEPT !.state = "CALLING"]
  <2>2. \/ r = [tr |-> new, send |-> "req", tell |-> "none"]
        \/ r = [tr |-> Terminated(tr), send |-> "none", tell |-> "error"]
    BY <2>1, SendingSays DEF ict_snd_invite
  <2> HIDE DEF m, r
  <2>3. tr.state = "PRE"
    BY <1>1, <1>2, IctRows
  <2>4. new \in Tr /\ new.ctx = tr.ctx /\ new.fifo = tr.fifo /\ new.state = "CALLING"
    BY <2>3, Values DEF Tr
  <2> HIDE DEF new
  <2>5. CASE r = [tr |-> new, send |-> "req", tell |-> "none"]
    BY <2>3, <2>4, <2>5, ClientSays, Values DEF Tr, Done
  <2>6. CASE r = [tr |-> Terminated(tr), send |-> "none", tell |-> "error"]
    BY <2>3, <2>6, ClientErrs DEF Done
  <2> QED BY <2>2, <2>5, <2>6
<1>3. CASE m = "ict_timeout_a"
  <2>1. r = ict_timeout_a(tr, ok)
    BY <1>3 DEF Execute
  <2> DEFINE new == [tr EXCEPT !.rlen = 2 * tr.rlen, !.retx = 2 * tr.rlen]
  <2>2. \/ r = [tr |-> new, send |-> "req", tell |-> "none"]
        \/ r = [tr |-> Terminated(tr), send |-> "none", tell |-> "error"]
    BY <2>1, SendingSays DEF ict_timeout_a, Rearm, Twice
  <2> HIDE DEF m, r
  <2>3. tr.state = "CALLING"
    BY <1>1, <1>3, IctRows
  <2>4. new \in Tr /\ new.ctx = tr.ctx /\ new.fifo = tr.fifo /\ new.state = tr.state
    BY <2>3, Values DEF Tr, Rearm, Twice
  <2> HIDE DEF new
  <2>5. CASE r = [tr |-> new, send |-> "req", tell |-> "none"]
    BY <2>3, <2>4, <2>5, ClientSays, Values DEF Tr, Done
  <2>6. CASE r = [tr |-> Terminated(tr), send |-> "none", tell |-> "error"]
    BY <2>3, <2>6, ClientErrs DEF Done
  <2> QED BY <2>2, <2>5, <2>6
<1>4. CASE m = "ict_timeout_b"
  <2>1. r = ict_timeout_b(tr)
    BY <1>4 DEF Execute
  <2> DEFINE new == Terminated([tr EXCEPT !.life = Off])
  <2>2. r = [tr |-> new, send |-> "none", tell |-> "timeout"]
    BY <2>1 DEF ict_timeout_b, Effect
  <2> HIDE DEF m, r
  <2>3. tr.state = "CALLING"
    BY <1>1, <1>4, IctRows
  <2>4. new \in Tr /\ new.ctx = tr.ctx /\ new.fifo = tr.fifo /\ new.state = "TERMINATED"
    BY <2>3, Values, TerminatedTr DEF Tr, Terminated
  <2> HIDE DEF new
  <2> QED BY <2>2, <2>3, <2>4, ClientSays, Values DEF Tr, Done
<1>5. CASE m = "ict_timeout_d"
  <2>1. r = ict_timeout_d(tr)
    BY <1>5 DEF Execute
  <2> DEFINE new == Terminated([tr EXCEPT !.linger = Off])
  <2>2. r = [tr |-> new, send |-> "none", tell |-> "none"]
    BY <2>1 DEF ict_timeout_d, Effect
  <2> HIDE DEF m, r
  <2>3. tr.state = "COMPLETED"
    BY <1>1, <1>5, IctRows
  <2>4. new \in Tr /\ new.ctx = tr.ctx /\ new.fifo = tr.fifo /\ new.state = "TERMINATED"
    BY <2>3, Values, TerminatedTr DEF Tr, Terminated
  <2> HIDE DEF new
  <2> QED BY <2>2, <2>3, <2>4, ClientSays, Values DEF Tr, Done
<1>6. CASE m = "ict_rcv_1xx"
  <2>1. r = ict_rcv_1xx(tr, e[2])
    BY <1>6 DEF Execute
  <2> DEFINE new == [tr EXCEPT !.state = "PROCEEDING", !.last = e[2]]
  <2>2. r = [tr |-> new, send |-> "none", tell |-> e[2]]
    BY <2>1 DEF ict_rcv_1xx, Effect
  <2> HIDE DEF m, r
  <2>3. tr.state \in {"CALLING", "PROCEEDING"} /\ e[2] \in Provisional
    BY <1>1, <1>6, IctRows
  <2>4. new \in Tr /\ new.ctx = tr.ctx /\ new.fifo = tr.fifo /\ new.state = "PROCEEDING"
    BY <2>3, Values DEF Tr
  <2> HIDE DEF new
  <2> QED BY <2>2, <2>3, <2>4, ClientSays, Values DEF Tr, Done
<1>7. CASE m = "ict_rcv_2xx"
  <2>1. r = ict_rcv_2xx(tr)
    BY <1>7 DEF Execute
  <2> DEFINE new == Terminated([tr EXCEPT !.last = "2xx"])
  <2>2. r = [tr |-> new, send |-> "none", tell |-> "2xx"]
    BY <2>1 DEF ict_rcv_2xx, Effect
  <2> HIDE DEF m, r
  <2>3. tr.state \in {"CALLING", "PROCEEDING"} /\ e = <<"rcv", "2xx">>
    BY <1>1, <1>7, IctRows
  <2>4. new \in Tr /\ new.ctx = tr.ctx /\ new.fifo = tr.fifo /\ new.state = "TERMINATED"
    BY <2>3, Values, TerminatedTr DEF Tr, Terminated
  <2> HIDE DEF new
  <2> QED BY <2>2, <2>3, <2>4, ClientSays, Values DEF Tr, Done
<1>8. CASE m = "ict_rcv_3456xx"
  <2>1. r = ict_rcv_3456xx(tr, ok)
    BY <1>8 DEF Execute
  <2> DEFINE new == [[tr EXCEPT !.last = "3456xx"] EXCEPT !.state = "COMPLETED", !.linger = LengthD]
             base == [tr EXCEPT !.last = "3456xx"]
  <2>0. base \in Tr /\ base.ctx = tr.ctx /\ base.fifo = tr.fifo
    BY Values DEF Tr
  <2>2. \/ r = [tr |-> new, send |-> "ack", tell |-> "3456xx"]
        \/ r = [tr |-> Terminated(base), send |-> "none", tell |-> "error"]
    BY <2>1, <2>0, SendingSays DEF ict_rcv_3456xx
  <2> HIDE DEF m, r
  <2>3. tr.state \in {"CALLING", "PROCEEDING"} /\ e = <<"rcv", "3456xx">>
    BY <1>1, <1>8, IctRows
  <2>4. new \in Tr /\ new.ctx = tr.ctx /\ new.fifo = tr.fifo /\ new.state = "COMPLETED"
    BY <2>3, Values DEF Tr
  <2> HIDE DEF new, base
  <2>5. CASE r = [tr |-> new, send |-> "ack", tell |-> "3456xx"]
    BY <2>3, <2>4, <2>5, ClientSays, Values DEF Tr, Done
  <2>6. CASE r = [tr |-> Terminated(base), send |-> "none", tell |-> "error"]
    BY <2>0, <2>3, <2>6, ClientErrs DEF Done
  <2> QED BY <2>2, <2>5, <2>6
<1>9. CASE m = "ict_retransmit_ack"
  <2>1. r = ict_retransmit_ack(tr, ok)
    BY <1>9 DEF Execute
  <2> DEFINE new == tr
  <2>2. \/ r = [tr |-> new, send |-> "ack", tell |-> "none"]
        \/ r = [tr |-> Terminated(tr), send |-> "none", tell |-> "error"]
    BY <2>1, SendingSays DEF ict_retransmit_ack
  <2> HIDE DEF m, r
  <2>3. tr.state = "COMPLETED"
    BY <1>1, <1>9, IctRows
  <2>4. new \in Tr /\ new.ctx = tr.ctx /\ new.fifo = tr.fifo /\ new.state = tr.state
    BY <2>3, Values DEF Tr
  <2> HIDE DEF new
  <2>5. CASE r = [tr |-> new, send |-> "ack", tell |-> "none"]
    BY <2>3, <2>4, <2>5, ClientSays, Values DEF Tr, Done
  <2>6. CASE r = [tr |-> Terminated(tr), send |-> "none", tell |-> "error"]
    BY <2>3, <2>6, ClientErrs DEF Done
  <2> QED BY <2>2, <2>5, <2>6
<1>10. \/ m = "ict_snd_invite"
        \/ m = "ict_timeout_a"
        \/ m = "ict_timeout_b"
        \/ m = "ict_timeout_d"
        \/ m = "ict_rcv_1xx"
        \/ m = "ict_rcv_2xx"
        \/ m = "ict_rcv_3456xx"
        \/ m = "ict_retransmit_ack"
  <2> HIDE DEF m, r
  <2> QED BY <1>1, IctRows
<1> QED BY <1>2, <1>3, <1>4, <1>5, <1>6, <1>7, <1>8, <1>9, <1>10

\* The methods of nict_fsm.c.
LEMMA NictExecutes ==
    ASSUME NEW tr \in Tr, tr.ctx = "NICT", NEW e \in Events, NEW ok \in BOOLEAN, Methods(tr, e) # {}
    PROVE  ClientRun(tr, e, Execute(tr, e, ok))
<1> DEFINE m == CHOOSE x \in Methods(tr, e) : TRUE
           r == Execute(tr, e, ok)
<1> SUFFICES ClientRun(tr, e, r)
  OBVIOUS
<1>1. m \in Methods(tr, e)
  OBVIOUS
<1>2. CASE m = "nict_snd_request"
  <2>1. r = nict_snd_request(tr, ok)
    BY <1>2 DEF Execute
  <2> DEFINE new == [tr EXCEPT !.state = "TRYING", !.retx = tr.rlen]
  <2>2. \/ r = [tr |-> new, send |-> "req", tell |-> "none"]
        \/ r = [tr |-> Terminated(tr), send |-> "none", tell |-> "error"]
    BY <2>1, SendingSays DEF nict_snd_request
  <2> HIDE DEF m, r
  <2>3. tr.state = "PRE"
    BY <1>1, <1>2, NictRows
  <2>4. new \in Tr /\ new.ctx = tr.ctx /\ new.fifo = tr.fifo /\ new.state = "TRYING"
    BY <2>3, Values DEF Tr
  <2> HIDE DEF new
  <2>5. CASE r = [tr |-> new, send |-> "req", tell |-> "none"]
    BY <2>3, <2>4, <2>5, ClientSays, Values DEF Tr, Done
  <2>6. CASE r = [tr |-> Terminated(tr), send |-> "none", tell |-> "error"]
    BY <2>3, <2>6, ClientErrs DEF Done
  <2> QED BY <2>2, <2>5, <2>6
<1>3. CASE m = "nict_timeout_e"
  <2>1. r = nict_timeout_e(tr, ok)
    BY <1>3 DEF Execute
  <2> DEFINE new == Rearm(tr, IF tr.state = "TRYING" THEN Capped(Twice(tr)) ELSE T2)
  <2>2. \/ r = [tr |-> new, send |-> "req", tell |-> "none"]
        \/ r = [tr |-> Terminated(tr), send |-> "none", tell |-> "error"]
    BY <2>1, SendingSays DEF nict_timeout_e, Rearm, Twice, Capped
  <2> HIDE DEF m, r
  <2>3. tr.state \in {"TRYING", "PROCEEDING"}
    BY <1>1, <1>3, NictRows
  <2>4. new \in Tr /\ new.ctx = tr.ctx /\ new.fifo = tr.fifo /\ new.state = tr.state
    BY <2>3, Values DEF Tr, Rearm, Twice, Capped
  <2> HIDE DEF new
  <2>5. CASE r = [tr |-> new, send |-> "req", tell |-> "none"]
    BY <2>3, <2>4, <2>5, ClientSays, Values DEF Tr, Done
  <2>6. CASE r = [tr |-> Terminated(tr), send |-> "none", tell |-> "error"]
    BY <2>3, <2>6, ClientErrs DEF Done
  <2> QED BY <2>2, <2>5, <2>6
<1>4. CASE m = "nict_timeout_f"
  <2>1. r = nict_timeout_f(tr)
    BY <1>4 DEF Execute
  <2> DEFINE new == Terminated([tr EXCEPT !.life = Off])
  <2>2. r = [tr |-> new, send |-> "none", tell |-> "timeout"]
    BY <2>1 DEF nict_timeout_f, Effect
  <2> HIDE DEF m, r
  <2>3. tr.state \in {"TRYING", "PROCEEDING"}
    BY <1>1, <1>4, NictRows
  <2>4. new \in Tr /\ new.ctx = tr.ctx /\ new.fifo = tr.fifo /\ new.state = "TERMINATED"
    BY <2>3, Values, TerminatedTr DEF Tr, Terminated
  <2> HIDE DEF new
  <2> QED BY <2>2, <2>3, <2>4, ClientSays, Values DEF Tr, Done
<1>5. CASE m = "nict_timeout_k"
  <2>1. r = nict_timeout_k(tr)
    BY <1>5 DEF Execute
  <2> DEFINE new == Terminated([tr EXCEPT !.linger = Off])
  <2>2. r = [tr |-> new, send |-> "none", tell |-> "none"]
    BY <2>1 DEF nict_timeout_k, Effect
  <2> HIDE DEF m, r
  <2>3. tr.state = "COMPLETED"
    BY <1>1, <1>5, NictRows
  <2>4. new \in Tr /\ new.ctx = tr.ctx /\ new.fifo = tr.fifo /\ new.state = "TERMINATED"
    BY <2>3, Values, TerminatedTr DEF Tr, Terminated
  <2> HIDE DEF new
  <2> QED BY <2>2, <2>3, <2>4, ClientSays, Values DEF Tr, Done
<1>6. CASE m = "nict_rcv_1xx"
  <2>1. r = nict_rcv_1xx(tr, e[2])
    BY <1>6 DEF Execute
  <2> DEFINE new == [tr EXCEPT !.state = "PROCEEDING", !.last = e[2]]
  <2>2. r = [tr |-> new, send |-> "none", tell |-> e[2]]
    BY <2>1 DEF nict_rcv_1xx, Effect
  <2> HIDE DEF m, r
  <2>3. tr.state \in {"TRYING", "PROCEEDING"} /\ e[2] \in Provisional
    BY <1>1, <1>6, NictRows
  <2>4. new \in Tr /\ new.ctx = tr.ctx /\ new.fifo = tr.fifo /\ new.state = "PROCEEDING"
    BY <2>3, Values DEF Tr
  <2> HIDE DEF new
  <2> QED BY <2>2, <2>3, <2>4, ClientSays, Values DEF Tr, Done
<1>7. CASE m = "nict_rcv_23456xx"
  <2>1. r = nict_rcv_23456xx(tr, e[2])
    BY <1>7 DEF Execute
  <2> DEFINE new == [tr EXCEPT !.state = "COMPLETED", !.last = e[2], !.linger = LengthK]
  <2>2. r = [tr |-> new, send |-> "none", tell |-> e[2]]
    BY <2>1 DEF nict_rcv_23456xx, Effect
  <2> HIDE DEF m, r
  <2>3. tr.state \in {"TRYING", "PROCEEDING"} /\ e[2] \in Final /\ e = <<"rcv", e[2]>>
    BY <1>1, <1>7, NictRows
  <2>4. new \in Tr /\ new.ctx = tr.ctx /\ new.fifo = tr.fifo /\ new.state = "COMPLETED"
    BY <2>3, Values DEF Tr
  <2> HIDE DEF new
  <2> QED BY <2>2, <2>3, <2>4, ClientSays, Values DEF Tr, Done
<1>8. \/ m = "nict_snd_request"
        \/ m = "nict_timeout_e"
        \/ m = "nict_timeout_f"
        \/ m = "nict_timeout_k"
        \/ m = "nict_rcv_1xx"
        \/ m = "nict_rcv_23456xx"
  <2> HIDE DEF m, r
  <2> QED BY <1>1, NictRows
<1> QED BY <1>2, <1>3, <1>4, <1>5, <1>6, <1>7, <1>8

\* The methods of ist_fsm.c.
LEMMA IstExecutes ==
    ASSUME NEW tr \in Tr, tr.ctx = "IST", NEW e \in Events, NEW ok \in BOOLEAN, Methods(tr, e) # {}
    PROVE  ServerRun(tr, e, Execute(tr, e, ok))
<1> DEFINE m == CHOOSE x \in Methods(tr, e) : TRUE
           r == Execute(tr, e, ok)
<1> SUFFICES ServerRun(tr, e, r)
  OBVIOUS
<1>1. m \in Methods(tr, e)
  OBVIOUS
<1>2. CASE m = "ist_rcv_invite"
  <2>1. r = ist_rcv_invite(tr, ok)
    BY <1>2 DEF Execute
  <2> HIDE DEF m, r
  <2>2. tr.state # "TERMINATED" /\ tr.last \in {"none"} \cup Responses
    BY <1>1, <1>2, IstRows DEF Tr
  <2>3. CASE tr.state = "PRE"
    <3> DEFINE new == [tr EXCEPT !.state = "PROCEEDING"]
    <3>1. r = [tr |-> new, send |-> "none", tell |-> "new"]
      BY <2>1, <2>3 DEF ist_rcv_invite, Effect
    <3>2. new \in Tr /\ new.ctx = tr.ctx /\ new.fifo = tr.fifo /\ new.last = tr.last
      BY Values DEF Tr
    <3> HIDE DEF new
    <3> QED BY <2>2, <3>1, <3>2, ServerSays, Values
  <2>4. CASE tr.state # "PRE" /\ tr.last = "none"
    <3>1. r = [tr |-> tr, send |-> "none", tell |-> "none"]
      BY <2>1, <2>4 DEF ist_rcv_invite, Effect
    <3> QED BY <2>2, <3>1, ServerSays, Values
  <2>5. CASE tr.state # "PRE" /\ tr.last # "none"
    <3>1. \/ r = [tr |-> tr, send |-> tr.last, tell |-> "none"]
          \/ r = [tr |-> Terminated(tr), send |-> "none", tell |-> "error"]
      BY <2>1, <2>5, SendingSays DEF ist_rcv_invite
    <3> QED BY <2>2, <3>1, ServerSays, ServerErrs
  <2> QED BY <2>3, <2>4, <2>5
<1>3. CASE m = "ist_timeout_g"
  <2>1. r = ist_timeout_g(tr, ok)
    BY <1>3 DEF Execute
  <2> DEFINE new == Rearm(tr, Capped(Twice(tr)))
  <2>2. \/ r = [tr |-> new, send |-> tr.last, tell |-> "none"]
        \/ r = [tr |-> Terminated(tr), send |-> "none", tell |-> "error"]
    BY <2>1, SendingSays DEF ist_timeout_g, Rearm, Twice, Capped
  <2> HIDE DEF m, r
  <2>3. tr.state # "TERMINATED"
    BY <1>1, <1>3, IstRows
  <2>4. new \in Tr /\ new.ctx = tr.ctx /\ new.fifo = tr.fifo /\ new.last = tr.last
    BY <2>3, Values DEF Tr, Rearm, Twice, Capped
  <2> HIDE DEF new
  <2>5. CASE r = [tr |-> new, send |-> tr.last, tell |-> "none"]
    BY <2>3, <2>4, <2>5, ServerSays, Values DEF Tr
  <2>6. CASE r = [tr |-> Terminated(tr), send |-> "none", tell |-> "error"]
    BY <2>3, <2>6, ServerErrs
  <2> QED BY <2>2, <2>5, <2>6
<1>4. CASE m = "ist_timeout_h"
  <2>1. r = ist_timeout_h(tr)
    BY <1>4 DEF Execute
  <2> DEFINE new == Terminated([tr EXCEPT !.life = Off])
  <2>2. r = [tr |-> new, send |-> "none", tell |-> "none"]
    BY <2>1 DEF ist_timeout_h, Effect
  <2> HIDE DEF m, r
  <2>3. tr.state # "TERMINATED"
    BY <1>1, <1>4, IstRows
  <2>4. new \in Tr /\ new.ctx = tr.ctx /\ new.fifo = tr.fifo /\ new.last = tr.last
    BY <2>3, Values, TerminatedTr DEF Tr, Terminated
  <2> HIDE DEF new
  <2> QED BY <2>2, <2>3, <2>4, ServerSays, Values DEF Tr
<1>5. CASE m = "ist_timeout_i"
  <2>1. r = ist_timeout_i(tr)
    BY <1>5 DEF Execute
  <2> DEFINE new == Terminated([tr EXCEPT !.linger = Off])
  <2>2. r = [tr |-> new, send |-> "none", tell |-> "none"]
    BY <2>1 DEF ist_timeout_i, Effect
  <2> HIDE DEF m, r
  <2>3. tr.state # "TERMINATED"
    BY <1>1, <1>5, IstRows
  <2>4. new \in Tr /\ new.ctx = tr.ctx /\ new.fifo = tr.fifo /\ new.last = tr.last
    BY <2>3, Values, TerminatedTr DEF Tr, Terminated
  <2> HIDE DEF new
  <2> QED BY <2>2, <2>3, <2>4, ServerSays, Values DEF Tr
<1>6. CASE m = "ist_snd_1xx"
  <2>1. r = ist_snd_1xx(tr, e[2], ok)
    BY <1>6 DEF Execute
  <2> DEFINE new == [tr EXCEPT !.last = e[2]]
  <2>2. \/ r = [tr |-> new, send |-> e[2], tell |-> "none"]
        \/ r = [tr |-> Terminated(tr), send |-> "none", tell |-> "error"]
    BY <2>1, SendingSays DEF ist_snd_1xx
  <2> HIDE DEF m, r
  <2>3. tr.state # "TERMINATED" /\ e[2] \in Provisional
    BY <1>1, <1>6, IstRows
  <2>4. new \in Tr /\ new.ctx = tr.ctx /\ new.fifo = tr.fifo /\ new.last = e[2]
    BY <2>3, Values DEF Tr
  <2> HIDE DEF new
  <2>5. CASE r = [tr |-> new, send |-> e[2], tell |-> "none"]
    BY <2>3, <2>4, <2>5, ServerSays, Values DEF Tr
  <2>6. CASE r = [tr |-> Terminated(tr), send |-> "none", tell |-> "error"]
    BY <2>3, <2>6, ServerErrs
  <2> QED BY <2>2, <2>5, <2>6
<1>7. CASE m = "ist_snd_2xx"
  <2>1. r = ist_snd_2xx(tr, ok)
    BY <1>7 DEF Execute
  <2> DEFINE new == Terminated([tr EXCEPT !.last = "2xx"])
  <2>2. \/ r = [tr |-> new, send |-> "2xx", tell |-> "none"]
        \/ r = [tr |-> Terminated(tr), send |-> "none", tell |-> "error"]
    BY <2>1, SendingSays DEF ist_snd_2xx
  <2> HIDE DEF m, r
  <2>3. tr.state # "TERMINATED" /\ e = <<"snd", "2xx">>
    BY <1>1, <1>7, IstRows
  <2>4. new \in Tr /\ new.ctx = tr.ctx /\ new.fifo = tr.fifo /\ new.last = "2xx"
    BY <2>3, Values, TerminatedTr DEF Tr, Terminated
  <2> HIDE DEF new
  <2>5. CASE r = [tr |-> new, send |-> "2xx", tell |-> "none"]
    BY <2>3, <2>4, <2>5, ServerSays, Values DEF Tr
  <2>6. CASE r = [tr |-> Terminated(tr), send |-> "none", tell |-> "error"]
    BY <2>3, <2>6, ServerErrs
  <2> QED BY <2>2, <2>5, <2>6
<1>8. CASE m = "ist_snd_3456xx"
  <2>1. r = ist_snd_3456xx(tr, ok)
    BY <1>8 DEF Execute
  <2> DEFINE new == [tr EXCEPT !.state = "COMPLETED", !.last = "3456xx", !.retx = tr.rlen, !.life = Timeout]
  <2>2. \/ r = [tr |-> new, send |-> "3456xx", tell |-> "none"]
        \/ r = [tr |-> Terminated(tr), send |-> "none", tell |-> "error"]
    BY <2>1, SendingSays DEF ist_snd_3456xx
  <2> HIDE DEF m, r
  <2>3. tr.state # "TERMINATED" /\ e = <<"snd", "3456xx">>
    BY <1>1, <1>8, IstRows
  <2>4. new \in Tr /\ new.ctx = tr.ctx /\ new.fifo = tr.fifo /\ new.last = "3456xx"
    BY <2>3, Values DEF Tr
  <2> HIDE DEF new
  <2>5. CASE r = [tr |-> new, send |-> "3456xx", tell |-> "none"]
    BY <2>3, <2>4, <2>5, ServerSays, Values DEF Tr
  <2>6. CASE r = [tr |-> Terminated(tr), send |-> "none", tell |-> "error"]
    BY <2>3, <2>6, ServerErrs
  <2> QED BY <2>2, <2>5, <2>6
<1>9. CASE m = "ist_rcv_ack"
  <2>1. r = ist_rcv_ack(tr)
    BY <1>9 DEF Execute
  <2> DEFINE new == [tr EXCEPT !.state = "CONFIRMED", !.linger = LengthI]
  <2>2. r = [tr |-> new, send |-> "none", tell |-> "none"]
    BY <2>1 DEF ist_rcv_ack, Effect
  <2> HIDE DEF m, r
  <2>3. tr.state # "TERMINATED"
    BY <1>1, <1>9, IstRows
  <2>4. new \in Tr /\ new.ctx = tr.ctx /\ new.fifo = tr.fifo /\ new.last = tr.last
    BY <2>3, Values DEF Tr
  <2> HIDE DEF new
  <2> QED BY <2>2, <2>3, <2>4, ServerSays, Values DEF Tr
<1>10. \/ m = "ist_rcv_invite"
        \/ m = "ist_timeout_g"
        \/ m = "ist_timeout_h"
        \/ m = "ist_timeout_i"
        \/ m = "ist_snd_1xx"
        \/ m = "ist_snd_2xx"
        \/ m = "ist_snd_3456xx"
        \/ m = "ist_rcv_ack"
  <2> HIDE DEF m, r
  <2> QED BY <1>1, IstRows
<1> QED BY <1>2, <1>3, <1>4, <1>5, <1>6, <1>7, <1>8, <1>9, <1>10

\* The methods of nist_fsm.c.
LEMMA NistExecutes ==
    ASSUME NEW tr \in Tr, tr.ctx = "NIST", NEW e \in Events, NEW ok \in BOOLEAN, Methods(tr, e) # {}
    PROVE  ServerRun(tr, e, Execute(tr, e, ok))
<1> DEFINE m == CHOOSE x \in Methods(tr, e) : TRUE
           r == Execute(tr, e, ok)
<1> SUFFICES ServerRun(tr, e, r)
  OBVIOUS
<1>1. m \in Methods(tr, e)
  OBVIOUS
<1>2. CASE m = "nist_rcv_request"
  <2>1. r = nist_rcv_request(tr, ok)
    BY <1>2 DEF Execute
  <2> HIDE DEF m, r
  <2>2. tr.state # "TERMINATED" /\ tr.last \in {"none"} \cup Responses
    BY <1>1, <1>2, NistRows DEF Tr
  <2>3. CASE tr.state = "PRE"
    <3> DEFINE new == [tr EXCEPT !.state = "TRYING"]
    <3>1. r = [tr |-> new, send |-> "none", tell |-> "new"]
      BY <2>1, <2>3 DEF nist_rcv_request, Effect
    <3>2. new \in Tr /\ new.ctx = tr.ctx /\ new.fifo = tr.fifo /\ new.last = tr.last
      BY Values DEF Tr
    <3> HIDE DEF new
    <3> QED BY <2>2, <3>1, <3>2, ServerSays, Values
  <2>4. CASE tr.state # "PRE" /\ tr.last = "none"
    <3>1. r = [tr |-> tr, send |-> "none", tell |-> "none"]
      BY <2>1, <2>4 DEF nist_rcv_request, Effect
    <3> QED BY <2>2, <3>1, ServerSays, Values
  <2>5. CASE tr.state # "PRE" /\ tr.last # "none"
    <3>1. \/ r = [tr |-> tr, send |-> tr.last, tell |-> "none"]
          \/ r = [tr |-> Terminated(tr), send |-> "none", tell |-> "error"]
      BY <2>1, <2>5, SendingSays DEF nist_rcv_request
    <3> QED BY <2>2, <3>1, ServerSays, ServerErrs
  <2> QED BY <2>3, <2>4, <2>5
<1>3. CASE m = "nist_snd_1xx"
  <2>1. r = nist_snd_1xx(tr, e[2], ok)
    BY <1>3 DEF Execute
  <2> DEFINE new == [tr EXCEPT !.state = "PROCEEDING", !.last = e[2]]
  <2>2. \/ r = [tr |-> new, send |-> e[2], tell |-> "none"]
        \/ r = [tr |-> Terminated(tr), send |-> "none", tell |-> "error"]
    BY <2>1, SendingSays DEF nist_snd_1xx
  <2> HIDE DEF m, r
  <2>3. tr.state # "TERMINATED" /\ e[2] \in Provisional
    BY <1>1, <1>3, NistRows
  <2>4. new \in Tr /\ new.ctx = tr.ctx /\ new.fifo = tr.fifo /\ new.last = e[2]
    BY <2>3, Values DEF Tr
  <2> HIDE DEF new
  <2>5. CASE r = [tr |-> new, send |-> e[2], tell |-> "none"]
    BY <2>3, <2>4, <2>5, ServerSays, Values DEF Tr
  <2>6. CASE r = [tr |-> Terminated(tr), send |-> "none", tell |-> "error"]
    BY <2>3, <2>6, ServerErrs
  <2> QED BY <2>2, <2>5, <2>6
<1>4. CASE m = "nist_snd_23456xx"
  <2>1. r = nist_snd_23456xx(tr, e[2], ok)
    BY <1>4 DEF Execute
  <2> DEFINE new == [tr EXCEPT !.state = "COMPLETED", !.last = e[2], !.linger = LengthJ]
  <2>2. \/ r = [tr |-> new, send |-> e[2], tell |-> "none"]
        \/ r = [tr |-> Terminated(tr), send |-> "none", tell |-> "error"]
    BY <2>1, SendingSays DEF nist_snd_23456xx
  <2> HIDE DEF m, r
  <2>3. tr.state # "TERMINATED" /\ e[2] \in Final /\ e = <<"snd", e[2]>>
    BY <1>1, <1>4, NistRows
  <2>4. new \in Tr /\ new.ctx = tr.ctx /\ new.fifo = tr.fifo /\ new.last = e[2]
    BY <2>3, Values DEF Tr
  <2> HIDE DEF new
  <2>5. CASE r = [tr |-> new, send |-> e[2], tell |-> "none"]
    BY <2>3, <2>4, <2>5, ServerSays, Values DEF Tr
  <2>6. CASE r = [tr |-> Terminated(tr), send |-> "none", tell |-> "error"]
    BY <2>3, <2>6, ServerErrs
  <2> QED BY <2>2, <2>5, <2>6
<1>5. CASE m = "nist_timeout_j"
  <2>1. r = nist_timeout_j(tr)
    BY <1>5 DEF Execute
  <2> DEFINE new == Terminated([tr EXCEPT !.linger = Off])
  <2>2. r = [tr |-> new, send |-> "none", tell |-> "none"]
    BY <2>1 DEF nist_timeout_j, Effect
  <2> HIDE DEF m, r
  <2>3. tr.state # "TERMINATED"
    BY <1>1, <1>5, NistRows
  <2>4. new \in Tr /\ new.ctx = tr.ctx /\ new.fifo = tr.fifo /\ new.last = tr.last
    BY <2>3, Values, TerminatedTr DEF Tr, Terminated
  <2> HIDE DEF new
  <2> QED BY <2>2, <2>3, <2>4, ServerSays, Values DEF Tr
<1>6. \/ m = "nist_rcv_request"
        \/ m = "nist_snd_1xx"
        \/ m = "nist_snd_23456xx"
        \/ m = "nist_timeout_j"
  <2> HIDE DEF m, r
  <2> QED BY <1>1, NistRows
<1> QED BY <1>2, <1>3, <1>4, <1>5, <1>6

---------------------------------------------------------------------------
(* The invariant *)

InFifo(tr, e) == \E i \in DOMAIN tr.fifo : tr.fifo[i] = e

CallerType == [asked : BOOLEAN, outcome : {"none", "failed"} \cup Final, ack : {"none", "owed", "sent"}, age : Int]

CalleeType == [announced : Nat, said : {"none", "180"} \cup Final, given : SUBSET Final, dialog : BOOLEAN,
               held : BOOLEAN, tries : Int, wait : Int, acked : BOOLEAN, dropped : BOOLEAN, age : Int]

ExchangeTypes ==
    /\ kind \in {"INVITE", "OTHER"}
    /\ client \in Tr /\ client.ctx = (IF kind = "INVITE" THEN "ICT" ELSE "NICT")
    /\ server \in Tr /\ server.ctx = (IF kind = "INVITE" THEN "IST" ELSE "NIST")
    /\ net \subseteq Inputs
    /\ uac \in CallerType /\ uas \in CalleeType

\* Wherever a final answer is found, the application gave it.
AnswersGiven ==
    /\ \A a \in Final : InFifo(server, <<"snd", a>>) => a \in uas.given
    /\ server.last \in Final => server.last \in uas.given
    /\ uas.held => "2xx" \in uas.given
    /\ \A m \in net : m.msg \in Final => m.msg \in uas.given
    /\ \A a \in Final : InFifo(client, <<"rcv", a>>) => a \in uas.given

\* Before the call nothing is under way and neither side has a transaction.
NotAskedYet ==
    ~uac.asked => /\ net = {} /\ Gone(client) /\ Gone(server) /\ uas.announced = 0 /\ ~uas.held
                  /\ uac.outcome = "none" /\ uac.ack = "none"

\* A caller that knows the outcome has a transaction that only absorbs copies.
OutcomeFits == uac.outcome # "none" => client.state \in Done

ExchangeInv == ExchangeTypes /\ AnswersGiven /\ NotAskedYet /\ OutcomeFits

---------------------------------------------------------------------------
(* FIFOs and the network *)

\* A new transaction is empty and has answered nothing.
LEMMA Fresh ==
    /\ \A c \in Contexts : \A a, b, d, l \in Int :
          LET t == New(c, a, b, d, l) IN
          t \in Tr /\ t.ctx = c /\ t.state = "PRE" /\ t.fifo = << >> /\ t.last = "none"
    /\ ict_init \in Tr /\ ict_init.ctx = "ICT" /\ ict_init.fifo = << >> /\ ict_init.last = "none"
    /\ nict_init \in Tr /\ nict_init.ctx = "NICT" /\ nict_init.fifo = << >> /\ nict_init.last = "none"
    /\ ist_init \in Tr /\ ist_init.ctx = "IST" /\ ist_init.fifo = << >> /\ ist_init.last = "none"
    /\ nist_init \in Tr /\ nist_init.ctx = "NIST" /\ nist_init.fifo = << >> /\ nist_init.last = "none"
<1>1. ASSUME NEW c \in Contexts, NEW a \in Int, NEW b \in Int, NEW d \in Int, NEW l \in Int
      PROVE  LET t == New(c, a, b, d, l) IN
             t \in Tr /\ t.ctx = c /\ t.state = "PRE" /\ t.fifo = << >> /\ t.last = "none"
  <2>1. << >> \in Seq(Events)
    OBVIOUS
  <2> QED BY <2>1, Values DEF New, Tr
<1>2. ResendLength \in Int /\ Timeout \in Int /\ Off \in Int
  BY Values DEF ResendLength, T1
<1>3. {"ICT", "NICT", "IST", "NIST"} = Contexts
  BY DEF Contexts
<1> DEFINE fits(t, c) == t \in Tr /\ t.ctx = c /\ t.state = "PRE" /\ t.fifo = << >> /\ t.last = "none"
<1>4. \A c \in Contexts : \A a, b, d, l \in Int : fits(New(c, a, b, d, l), c)
  BY <1>1
<1> HIDE DEF fits
<1>5. fits(ict_init, "ICT") /\ fits(nict_init, "NICT") /\ fits(ist_init, "IST") /\ fits(nist_init, "NIST")
  BY <1>2, <1>3, <1>4 DEF ict_init, nict_init, ist_init, nist_init
<1> QED BY <1>4, <1>5 DEF fits

\* An event put in is the only new one.
LEMMA Added ==
    ASSUME NEW tr \in Tr, NEW e \in Events
    PROVE  LET t == Add(tr, e) IN
           /\ t \in Tr /\ t.ctx = tr.ctx /\ t.state = tr.state /\ t.last = tr.last
           /\ \A x : InFifo(t, x) => InFifo(tr, x) \/ x = e
<1> DEFINE q == Append(tr.fifo, e)
           t == [tr EXCEPT !.fifo = q]
<1>1. tr.fifo \in Seq(Events)
  BY DEF Tr
<1>2. q \in Seq(Events) /\ Len(q) = Len(tr.fifo) + 1
      /\ \A i \in 1 .. Len(q) : q[i] = IF i <= Len(tr.fifo) THEN tr.fifo[i] ELSE e
  BY <1>1
<1>3. DOMAIN q = 1 .. Len(q) /\ DOMAIN tr.fifo = 1 .. Len(tr.fifo) /\ Len(tr.fifo) \in Nat
  BY <1>1, <1>2
<1> HIDE DEF q
<1>4. t \in Tr /\ t.ctx = tr.ctx /\ t.state = tr.state /\ t.last = tr.last /\ t.fifo = q
  BY <1>2 DEF Tr
<1>5. Add(tr, e) = t
  BY DEF Add, q
<1> HIDE DEF t
<1>6. ASSUME NEW x, InFifo(t, x) PROVE InFifo(tr, x) \/ x = e
  <2>1. PICK i \in 1 .. Len(q) : q[i] = x
    BY <1>3, <1>4, <1>6 DEF InFifo
  <2> QED BY <1>2, <1>3, <2>1 DEF InFifo
<1> QED BY <1>4, <1>5, <1>6

\* The timers put in nothing but timeouts.
LEMMA TimersAdded ==
    ASSUME NEW tr \in Tr
    PROVE  LET t == [tr EXCEPT !.fifo = @ \o TimerEvents(tr)] IN
           /\ t \in Tr /\ t.ctx = tr.ctx /\ t.state = tr.state /\ t.last = tr.last
           /\ \A x : InFifo(t, x) => InFifo(tr, x) \/ x[1] = "timeout"
<1> DEFINE d == TimerEvents(tr)
           q == tr.fifo \o d
           t == [tr EXCEPT !.fifo = q]
<1>1. tr.fifo \in Seq(Events) /\ tr.ctx \in Contexts
  BY DEF Tr
<1>2. d = << >> \/ \E k \in {"retx", "life", "linger"} : d = << <<"timeout", k>> >>
  <2>1. tr.ctx = "ICT" \/ tr.ctx = "NICT" \/ tr.ctx = "IST" \/ tr.ctx = "NIST"
    BY <1>1 DEF Contexts
  <2> QED BY <2>1 DEF TimerEvents, osip_timers_ict_execute, osip_timers_nict_execute, osip_timers_ist_execute,
                      osip_timers_nist_execute, Timer
<1> HIDE DEF d
<1>3. d \in Seq(Events) /\ Len(d) \in Nat /\ DOMAIN d = 1 .. Len(d) /\ \A i \in 1 .. Len(d) : d[i][1] = "timeout"
  <2>1. CASE d = << >>
    BY <2>1
  <2>2. ASSUME NEW k \in {"retx", "life", "linger"}, d = << <<"timeout", k>> >>
        PROVE  d \in Seq(Events) /\ Len(d) = 1 /\ DOMAIN d = 1 .. Len(d) /\ d[1][1] = "timeout"
    <3> DEFINE e == <<"timeout", k>>
    <3>1. e \in Events /\ e[1] = "timeout"
      BY DEF Events
    <3> HIDE DEF e
    <3>2. d = <<e>>
      BY <2>2 DEF e
    <3> QED BY <3>1, <3>2
  <2> QED BY <1>2, <2>1, <2>2
<1>4. q \in Seq(Events) /\ Len(q) = Len(tr.fifo) + Len(d)
      /\ \A i \in 1 .. Len(q) : q[i] = IF i <= Len(tr.fifo) THEN tr.fifo[i] ELSE d[i - Len(tr.fifo)]
  BY <1>1, <1>3
<1>5. DOMAIN q = 1 .. Len(q) /\ DOMAIN tr.fifo = 1 .. Len(tr.fifo) /\ Len(tr.fifo) \in Nat
  BY <1>1, <1>4
<1>6. [tr EXCEPT !.fifo = @ \o TimerEvents(tr)] = t
  BY DEF Tr, d
<1> HIDE DEF q
<1>7. t \in Tr /\ t.ctx = tr.ctx /\ t.state = tr.state /\ t.last = tr.last /\ t.fifo = q
  BY <1>4 DEF Tr
<1> HIDE DEF t
<1>8. ASSUME NEW x, InFifo(t, x) PROVE InFifo(tr, x) \/ x[1] = "timeout"
  <2>1. PICK i \in 1 .. Len(q) : q[i] = x
    BY <1>5, <1>7, <1>8 DEF InFifo
  <2>2. CASE i <= Len(tr.fifo)
    BY <1>4, <1>5, <2>1, <2>2 DEF InFifo
  <2>3. CASE ~(i <= Len(tr.fifo))
    <3>1. i - Len(tr.fifo) \in 1 .. Len(d) /\ x = d[i - Len(tr.fifo)]
      BY <1>3, <1>4, <1>5, <2>1, <2>3
    <3> QED BY <1>3, <3>1
  <2> QED BY <2>2, <2>3
<1> QED BY <1>6, <1>7, <1>8

\* The head of the FIFO is taken.
LEMMA Taken ==
    ASSUME NEW tr \in Tr, tr.fifo # << >>
    PROVE  LET t == [tr EXCEPT !.fifo = Tail(@)] IN
           /\ t \in Tr /\ t.ctx = tr.ctx /\ t.state = tr.state /\ t.last = tr.last
           /\ Head(tr.fifo) \in Events /\ InFifo(tr, Head(tr.fifo))
           /\ \A x : InFifo(t, x) => InFifo(tr, x)
<1> DEFINE q == Tail(tr.fifo)
           t == [tr EXCEPT !.fifo = q]
<1>1. tr.fifo \in Seq(Events)
  BY DEF Tr
<1>2. q \in Seq(Events) /\ Len(q) = Len(tr.fifo) - 1 /\ \A i \in 1 .. Len(q) : q[i] = tr.fifo[i + 1]
  BY <1>1
<1>3. DOMAIN q = 1 .. Len(q) /\ DOMAIN tr.fifo = 1 .. Len(tr.fifo) /\ Len(tr.fifo) \in Nat /\ Len(tr.fifo) >= 1
  BY <1>1, <1>2
<1>4. Head(tr.fifo) = tr.fifo[1] /\ Head(tr.fifo) \in Events
  BY <1>1
<1>5. InFifo(tr, Head(tr.fifo))
  BY <1>3, <1>4 DEF InFifo
<1>6. [tr EXCEPT !.fifo = Tail(@)] = t
  BY DEF Tr
<1> HIDE DEF q
<1>7. t \in Tr /\ t.ctx = tr.ctx /\ t.state = tr.state /\ t.last = tr.last /\ t.fifo = q
  BY <1>2 DEF Tr
<1> HIDE DEF t
<1>8. ASSUME NEW x, InFifo(t, x) PROVE InFifo(tr, x)
  <2>1. PICK i \in 1 .. Len(q) : q[i] = x
    BY <1>3, <1>7, <1>8 DEF InFifo
  <2>2. i + 1 \in 1 .. Len(tr.fifo) /\ tr.fifo[i + 1] = x
    BY <1>2, <1>3, <2>1
  <2> QED BY <1>3, <2>2 DEF InFifo
<1> QED BY <1>4, <1>5, <1>6, <1>7, <1>8

\* A killed transaction keeps its state and loses its events.
LEMMA KilledTr ==
    ASSUME NEW tr \in Tr
    PROVE  LET t == Killed(tr) IN
           /\ t \in Tr /\ t.ctx = tr.ctx /\ t.state = tr.state /\ t.last = tr.last
           /\ \A x : InFifo(t, x) => InFifo(tr, x)
<1>1. << >> \in Seq(Events) /\ DOMAIN << >> = {}
  OBVIOUS
<1>2. CASE Gone(tr)
  <2> DEFINE t == [tr EXCEPT !.fifo = << >>]
  <2>1. Killed(tr) = t
    BY <1>2 DEF Killed
  <2>2. t \in Tr /\ t.ctx = tr.ctx /\ t.state = tr.state /\ t.last = tr.last /\ t.fifo = << >>
    BY <1>1 DEF Tr
  <2> HIDE DEF t
  <2> QED BY <1>1, <2>1, <2>2 DEF InFifo
<1>3. CASE ~Gone(tr)
  BY <1>3 DEF Killed
<1> QED BY <1>2, <1>3

\* What is put on the wire is one message, or nothing.
LEMMA WireSays ==
    ASSUME NEW side \in Sides, NEW msg \in {"none"} \cup Messages
    PROVE  Wire(side, msg) \subseteq Inputs /\ \A m \in Wire(side, msg) : m.msg = msg /\ m.ttl = Delay
<1>1. Delay \in 0 .. Delay
  BY ExchangeConstants
<1>2. Peer(side) \in Sides
  BY DEF Peer, Sides
<1>3. CASE Wire(side, msg) = {}
  BY <1>3
<1>4. CASE Wire(side, msg) = {[to |-> Peer(side), msg |-> msg, ttl |-> Delay]} /\ msg # "none"
  BY <1>1, <1>2, <1>4 DEF Inputs
<1> QED BY <1>3, <1>4 DEF Wire

\* What every action of the loops may find in the events.
LEMMA MessageEvents ==
    /\ \A msg \in Messages : <<"rcv", msg>> \in Events /\ <<"snd", msg>> \in Events
    /\ Responses \subseteq Messages /\ {"req", "ack", "ack2xx", "180", "100", "101"} \subseteq Messages
BY DEF Events, Messages, Responses, Provisional

---------------------------------------------------------------------------
(* The caller's side keeps the invariant *)

\* What a step of the caller has to see to.
LEMMA CallerMoves ==
    ASSUME ExchangeInv, UNCHANGED <<kind, server, uas>>,
           client' \in Tr, client'.ctx = client.ctx, net' \subseteq Inputs, uac' \in CallerType,
           \A a \in Final : InFifo(client', <<"rcv", a>>) => a \in uas.given,
           \A m \in net' : m.msg \in Final => m.msg \in uas.given,
           ~uac'.asked => /\ ~uac.asked /\ net' = {} /\ Gone(client')
                          /\ uac'.outcome = "none" /\ uac'.ack = "none",
           uac'.outcome # "none" => client'.state \in Done
    PROVE  ExchangeInv'
<1>1. ExchangeTypes'
  BY DEF ExchangeInv, ExchangeTypes
<1>2. AnswersGiven'
  BY DEF ExchangeInv, AnswersGiven, InFifo
<1>3. NotAskedYet'
  BY DEF ExchangeInv, NotAskedYet, Gone
<1>4. OutcomeFits'
  BY DEF OutcomeFits
<1> QED BY <1>1, <1>2, <1>3, <1>4 DEF ExchangeInv

\* A message that is lost takes nothing else with it.
LEMMA LoseKeeps ==
    ASSUME ExchangeInv, NEW m \in net, Lose(m)
    PROVE  ExchangeInv'
<1>1. net' \subseteq net /\ UNCHANGED <<kind, client, server, uac, uas>>
  BY DEF Lose
<1>2. uac.asked
  BY DEF ExchangeInv, NotAskedYet
<1> QED BY <1>1, <1>2, CallerMoves DEF ExchangeInv, ExchangeTypes, AnswersGiven, OutcomeFits

\* A new transaction has nothing but the request in its FIFO.
LEMMA AskKeeps ==
    ASSUME ExchangeInv, Ask
    PROVE  ExchangeInv'
<1>1. ~uac.asked /\ uac' = [uac EXCEPT !.asked = TRUE] /\ UNCHANGED <<kind, server, net, uas>>
      /\ client' = Add(IF kind = "INVITE" THEN ict_init ELSE nict_init, <<"snd", "req">>)
  BY DEF Ask
<1> DEFINE t == IF kind = "INVITE" THEN ict_init ELSE nict_init
<1>2. t \in Tr /\ t.fifo = << >> /\ t.ctx = client.ctx
  BY Fresh DEF ExchangeInv, ExchangeTypes
<1>3. <<"snd", "req">> \in Events
  BY MessageEvents
<1> HIDE DEF t
<1>4. client' = Add(t, <<"snd", "req">>)
  BY <1>1 DEF t
<1>5. /\ client' \in Tr /\ client'.ctx = client.ctx
      /\ \A x : InFifo(client', x) => InFifo(t, x) \/ x = <<"snd", "req">>
  BY <1>2, <1>3, <1>4, Added
<1>6. \A x : ~InFifo(t, x)
  BY <1>2 DEF InFifo
<1>7. \A a \in Final : ~InFifo(client', <<"rcv", a>>)
  BY <1>5, <1>6
<1>8. uac' \in CallerType /\ uac'.asked /\ uac'.outcome = "none" /\ uac.outcome = "none"
  BY <1>1 DEF ExchangeInv, ExchangeTypes, NotAskedYet, CallerType
<1>9. net' \subseteq Inputs /\ \A m \in net' : m.msg \in Final => m.msg \in uas.given
  BY <1>1 DEF ExchangeInv, ExchangeTypes, AnswersGiven
<1> QED BY <1>1, <1>5, <1>7, <1>8, <1>9, CallerMoves

\* A response goes from the network into the FIFO, and perhaps stays for a copy.
LEMMA ClientReadsKeeps ==
    ASSUME ExchangeInv, NEW m \in net, ClientReads(m)
    PROVE  ExchangeInv'
<1>1. client' = Add(client, <<"rcv", m.msg>>) /\ UNCHANGED <<kind, server, uac, uas>> /\ net' \subseteq net
  BY DEF ClientReads, Delivered
<1>2. client \in Tr /\ m.msg \in Messages /\ <<"rcv", m.msg>> \in Events
  BY MessageEvents DEF ExchangeInv, ExchangeTypes, Inputs
<1>3. /\ client' \in Tr /\ client'.ctx = client.ctx /\ client'.state = client.state
      /\ \A x : InFifo(client', x) => InFifo(client, x) \/ x = <<"rcv", m.msg>>
  BY <1>1, <1>2, Added
<1>4. uac.asked
  BY DEF ExchangeInv, NotAskedYet
<1>5. \A a \in Final : InFifo(client', <<"rcv", a>>) => a \in uas.given
  BY <1>3 DEF ExchangeInv, AnswersGiven
<1> QED BY <1>1, <1>3, <1>4, <1>5, CallerMoves DEF ExchangeInv, ExchangeTypes, AnswersGiven, OutcomeFits

\* A response that comes too late is dropped or acknowledged.
LEMMA ClientReadsLateKeeps ==
    ASSUME ExchangeInv, NEW m \in net, ClientReadsLate(m)
    PROVE  ExchangeInv'
<1>1. UNCHANGED <<kind, client, server, uac, uas>> /\ net' \subseteq net \cup Wire("uac", "ack2xx")
  BY DEF ClientReadsLate
<1>2. Wire("uac", "ack2xx") \subseteq Inputs /\ \A w \in Wire("uac", "ack2xx") : w.msg = "ack2xx"
  <2>1. "uac" \in Sides /\ "ack2xx" \in Messages
    BY MessageEvents DEF Sides
  <2> QED BY <2>1, WireSays
<1>3. uac.asked
  BY DEF ExchangeInv, NotAskedYet
<1>4. net' \subseteq Inputs /\ \A w \in net' : w.msg \in Final => w.msg \in uas.given
  BY <1>1, <1>2, Values DEF ExchangeInv, ExchangeTypes, AnswersGiven
<1> QED BY <1>1, <1>3, <1>4, CallerMoves DEF ExchangeInv, ExchangeTypes, AnswersGiven, OutcomeFits

\* The timers add no answer.
LEMMA ClientTimersKeeps ==
    ASSUME ExchangeInv, ClientTimers
    PROVE  ExchangeInv'
<1>1. client' = [client EXCEPT !.fifo = @ \o TimerEvents(client)] /\ UNCHANGED <<kind, server, net, uac, uas>>
  BY DEF ClientTimers
<1>2. client \in Tr
  BY DEF ExchangeInv, ExchangeTypes
<1>3. /\ client' \in Tr /\ client'.ctx = client.ctx /\ client'.state = client.state
      /\ \A x : InFifo(client', x) => InFifo(client, x) \/ x[1] = "timeout"
  BY <1>1, <1>2, TimersAdded
<1>4. \A a \in Final : InFifo(client', <<"rcv", a>>) => a \in uas.given
  BY <1>3 DEF ExchangeInv, AnswersGiven
<1> QED BY <1>1, <1>3, <1>4, CallerMoves
     DEF ExchangeInv, ExchangeTypes, AnswersGiven, OutcomeFits, NotAskedYet, Gone

\* The ACK of a 2xx is no answer.
LEMMA SendAckKeeps ==
    ASSUME ExchangeInv, SendAck
    PROVE  ExchangeInv'
<1>1. /\ uac.ack = "owed" /\ uac' = [uac EXCEPT !.ack = "sent"] /\ UNCHANGED <<kind, client, server, uas>>
      /\ net' \subseteq net \cup Wire("uac", "ack2xx")
  BY DEF SendAck
<1>2. Wire("uac", "ack2xx") \subseteq Inputs /\ \A w \in Wire("uac", "ack2xx") : w.msg = "ack2xx"
  <2>1. "uac" \in Sides /\ "ack2xx" \in Messages
    BY MessageEvents DEF Sides
  <2> QED BY <2>1, WireSays
<1>3. uac.asked
  BY <1>1 DEF ExchangeInv, NotAskedYet
<1>4. uac' \in CallerType /\ uac'.asked /\ uac'.outcome = uac.outcome
  BY <1>1, <1>3 DEF ExchangeInv, ExchangeTypes, CallerType
<1>5. net' \subseteq Inputs /\ \A w \in net' : w.msg \in Final => w.msg \in uas.given
  BY <1>1, <1>2, Values DEF ExchangeInv, ExchangeTypes, AnswersGiven
<1> QED BY <1>1, <1>4, <1>5, CallerMoves DEF ExchangeInv, ExchangeTypes, AnswersGiven, OutcomeFits

\* A released call has an outcome and no transaction.
LEMMA ClientReleasesKeeps ==
    ASSUME ExchangeInv, ClientReleases
    PROVE  ExchangeInv'
<1>1. /\ uac.asked /\ uac' = [uac EXCEPT !.outcome = "failed"] /\ client' = Killed(Terminated(client))
      /\ UNCHANGED <<kind, server, net, uas>>
  BY DEF ClientReleases
<1>2. client \in Tr
  BY DEF ExchangeInv, ExchangeTypes
<1> DEFINE t == Terminated(client)
<1>3. t \in Tr /\ t.ctx = client.ctx /\ t.fifo = client.fifo /\ t.state = "TERMINATED"
  BY <1>2, TerminatedTr
<1> HIDE DEF t
<1>4. client' = Killed(t)
  BY <1>1 DEF t
<1>5. /\ client' \in Tr /\ client'.ctx = client.ctx /\ client'.state = "TERMINATED"
      /\ \A x : InFifo(client', x) => InFifo(t, x)
  BY <1>3, <1>4, KilledTr
<1>6. \A a \in Final : InFifo(client', <<"rcv", a>>) => a \in uas.given
  BY <1>3, <1>5 DEF ExchangeInv, AnswersGiven, InFifo
<1>7. uac' \in CallerType /\ uac'.asked
  BY <1>1 DEF ExchangeInv, ExchangeTypes, CallerType
<1>8. net' \subseteq Inputs /\ \A m \in net' : m.msg \in Final => m.msg \in uas.given
  BY <1>1 DEF ExchangeInv, ExchangeTypes, AnswersGiven
<1> QED BY <1>1, <1>5, <1>6, <1>7, <1>8, CallerMoves DEF Done

\* One event of the caller's FIFO, whatever the transport makes of it.
LEMMA ClientEvent ==
    ASSUME ExchangeInv, ClientExecutes
    PROVE  \E r, ok, e :
              /\ ok \in BOOLEAN /\ e \in Events /\ InFifo(client, e)
              /\ ClientRun([client EXCEPT !.fifo = Tail(@)], e, r)
              /\ client' = Killed(r.tr) /\ net' = net \cup Wire("uac", r.send) /\ uac' = Hears(r)
              /\ UNCHANGED <<kind, server, uas>>
<1> DEFINE e == Head(client.fifo)
           rest == [client EXCEPT !.fifo = Tail(@)]
<1>1. client.fifo # << >> /\ UNCHANGED <<kind, server, uas>>
  BY DEF ClientExecutes
<1>2. client \in Tr /\ client.ctx \in {"ICT", "NICT"}
  BY DEF ExchangeInv, ExchangeTypes
<1>3. rest \in Tr /\ rest.ctx = client.ctx /\ e \in Events /\ InFifo(client, e)
  BY <1>1, <1>2, Taken
<1>4. PICK ok \in BOOLEAN : LET r == Execute(rest, e, ok) IN
        client' = Killed(r.tr) /\ net' = net \cup Wire("uac", r.send) /\ uac' = Hears(r)
  BY DEF ClientExecutes
<1> HIDE DEF rest, e
<1>5. ClientRun(rest, e, Execute(rest, e, ok))
  BY <1>2, <1>3, NoMethod, IctExecutes, NictExecutes
<1> QED BY <1>1, <1>3, <1>4, <1>5 DEF rest

\* An event executed: an outcome is learned only with the end of the waiting.
LEMMA ClientExecutesKeeps ==
    ASSUME ExchangeInv, ClientExecutes
    PROVE  ExchangeInv'
<1> DEFINE rest == [client EXCEPT !.fifo = Tail(@)]
<1>1. PICK r, ok, e :
        /\ ok \in BOOLEAN /\ e \in Events /\ InFifo(client, e) /\ ClientRun(rest, e, r)
        /\ client' = Killed(r.tr) /\ net' = net \cup Wire("uac", r.send) /\ uac' = Hears(r)
        /\ UNCHANGED <<kind, server, uas>>
  BY ClientEvent
<1>2. client \in Tr /\ client.fifo # << >>
  BY DEF ExchangeInv, ExchangeTypes, ClientExecutes
<1>3. /\ rest \in Tr /\ rest.ctx = client.ctx /\ rest.state = client.state /\ rest.last = client.last
      /\ \A x : InFifo(rest, x) => InFifo(client, x)
  BY <1>2, Taken
<1> HIDE DEF rest
<1>4. /\ r.tr \in Tr /\ r.tr.ctx = client.ctx /\ r.tr.fifo = rest.fifo
      /\ r.send \in {"none", "req", "ack"}
      /\ r.tell \in {"none", "timeout", "error"} \cup Responses
      /\ r.tell \in Final => r.tr.state \in Done
      /\ r.tell \in {"timeout", "error"} => r.tr.state = "TERMINATED"
      /\ client.state \in Done => r.tr.state \in Done
      /\ client.state = "TERMINATED" => r.tr.state = "TERMINATED" /\ r.send = "none" /\ r.tell = "none"
  BY <1>1, <1>3 DEF ClientRun, Effect
<1>5. /\ client' \in Tr /\ client'.ctx = client.ctx /\ client'.state = r.tr.state
      /\ \A x : InFifo(client', x) => InFifo(r.tr, x)
  BY <1>1, <1>4, KilledTr
<1>6. \A a \in Final : InFifo(client', <<"rcv", a>>) => a \in uas.given
  BY <1>3, <1>4, <1>5 DEF ExchangeInv, AnswersGiven, InFifo
<1>7. Wire("uac", r.send) \subseteq Inputs /\ \A m \in Wire("uac", r.send) : m.msg = r.send
  <2>1. "uac" \in Sides /\ r.send \in {"none"} \cup Messages
    BY <1>4 DEF Sides, Messages
  <2> QED BY <2>1, WireSays
<1>8. net' \subseteq Inputs /\ \A m \in net' : m.msg \in Final => m.msg \in uas.given
  <2>1. r.send \notin Final
    BY <1>4 DEF Final
  <2> QED BY <1>1, <1>7, <2>1 DEF ExchangeInv, ExchangeTypes, AnswersGiven
<1>9. uac \in CallerType
  BY DEF ExchangeInv, ExchangeTypes
<1>10. \/ uac' = uac
       \/ /\ r.tell \in Final /\ uac.outcome = "none"
          /\ uac' = [uac EXCEPT !.outcome = r.tell,
                                !.ack = IF kind = "INVITE" /\ r.tell = "2xx" THEN "owed" ELSE @]
       \/ r.tell \in {"timeout", "error"} /\ uac' = [uac EXCEPT !.outcome = "failed"]
  BY <1>1 DEF Hears
<1>11. uac' \in CallerType /\ uac'.asked = uac.asked
  BY <1>9, <1>10 DEF CallerType
<1>12. uac'.outcome # "none" => client'.state \in Done
  <2>1. uac' = uac \/ client'.state \in Done
    BY <1>4, <1>5, <1>10 DEF Done
  <2>2. uac.outcome # "none" => client'.state \in Done
    BY <1>4, <1>5 DEF ExchangeInv, OutcomeFits
  <2> QED BY <2>1, <2>2
<1>13. ~uac.asked => net' = {} /\ Gone(client') /\ uac' = uac /\ uac.outcome = "none" /\ uac.ack = "none"
  <2> SUFFICES ASSUME ~uac.asked
               PROVE  net' = {} /\ Gone(client') /\ uac' = uac /\ uac.outcome = "none" /\ uac.ack = "none"
    OBVIOUS
  <2>1. client.state = "TERMINATED" /\ net = {} /\ uac.outcome = "none" /\ uac.ack = "none"
    BY DEF ExchangeInv, NotAskedYet, Gone
  <2>2. r.send = "none" /\ r.tell = "none" /\ client'.state = "TERMINATED"
    BY <1>4, <1>5, <2>1
  <2>3. uac' = uac
    BY <1>10, <2>2 DEF Final
  <2> QED BY <1>1, <2>1, <2>2, <2>3 DEF Wire, Gone
<1> QED BY <1>1, <1>5, <1>6, <1>8, <1>11, <1>12, <1>13, CallerMoves

---------------------------------------------------------------------------
(* The callee's side keeps the invariant *)

\* What a step of the callee has to see to.
LEMMA CalleeMoves ==
    ASSUME ExchangeInv, UNCHANGED <<kind, client, uac>>,
           server' \in Tr, server'.ctx = server.ctx, net' \subseteq Inputs, uas' \in CalleeType,
           uas.given \subseteq uas'.given,
           \A a \in Final : InFifo(server', <<"snd", a>>) => a \in uas'.given,
           server'.last \in Final => server'.last \in uas'.given,
           uas'.held => "2xx" \in uas'.given,
           \A m \in net' : m.msg \in Final => m.msg \in uas'.given,
           ~uac.asked => net' = {} /\ Gone(server') /\ uas'.announced = 0 /\ ~uas'.held
    PROVE  ExchangeInv'
<1>1. ExchangeTypes'
  BY DEF ExchangeInv, ExchangeTypes
<1>2. AnswersGiven'
  BY DEF ExchangeInv, AnswersGiven, InFifo
<1>3. NotAskedYet'
  BY DEF ExchangeInv, NotAskedYet, Gone
<1>4. OutcomeFits'
  BY DEF ExchangeInv, OutcomeFits
<1> QED BY <1>1, <1>2, <1>3, <1>4 DEF ExchangeInv

\* A copy of the request or an ACK is no answer.
LEMMA ServerReadsKeeps ==
    ASSUME ExchangeInv, NEW m \in net, ServerReads(m)
    PROVE  ExchangeInv'
<1>1. server' = Add(server, <<"rcv", m.msg>>) /\ UNCHANGED <<kind, client, uac, uas>> /\ net' \subseteq net
  BY DEF ServerReads, Delivered
<1>2. server \in Tr /\ m.msg \in Messages /\ <<"rcv", m.msg>> \in Events
  BY MessageEvents DEF ExchangeInv, ExchangeTypes, Inputs
<1>3. /\ server' \in Tr /\ server'.ctx = server.ctx /\ server'.last = server.last
      /\ \A x : InFifo(server', x) => InFifo(server, x) \/ x = <<"rcv", m.msg>>
  BY <1>1, <1>2, Added
<1>4. uac.asked
  BY DEF ExchangeInv, NotAskedYet
<1>5. \A a \in Final : InFifo(server', <<"snd", a>>) => a \in uas.given
  BY <1>3 DEF ExchangeInv, AnswersGiven
<1> QED BY <1>1, <1>3, <1>4, <1>5, CalleeMoves DEF ExchangeInv, ExchangeTypes, AnswersGiven

\* A new transaction of the callee has answered nothing.
LEMMA ServerReadsNewKeeps ==
    ASSUME ExchangeInv, NEW m \in net, ServerReadsNew(m)
    PROVE  ExchangeInv'
<1>1. UNCHANGED <<kind, client, uac>> /\ net' \subseteq net
  BY DEF ServerReadsNew, Delivered
<1>2. uac.asked
  BY DEF ExchangeInv, NotAskedYet
<1>3. net' \subseteq Inputs /\ \A w \in net' : w.msg \in Final => w.msg \in uas.given
  BY <1>1 DEF ExchangeInv, ExchangeTypes, AnswersGiven
<1>4. CASE UNCHANGED <<server, uas>>
  BY <1>1, <1>2, <1>3, <1>4, CalleeMoves DEF ExchangeInv, ExchangeTypes, AnswersGiven
<1>5. CASE /\ server' = IF kind = "INVITE"
                        THEN [ist_init EXCEPT !.fifo = << <<"rcv", "req">>, <<"snd", "100">>, <<"snd", "101">> >>]
                        ELSE Add(nist_init, <<"rcv", "req">>)
           /\ uas' = [uas EXCEPT !.dialog = (kind = "INVITE"), !.said = "none", !.age = 0]
  <2>1. server' \in Tr /\ server'.ctx = server.ctx /\ server'.last = "none"
        /\ \A a \in Final : ~InFifo(server', <<"snd", a>>)
    <3>1. CASE kind = "INVITE"
      <4> DEFINE q == << <<"rcv", "req">>, <<"snd", "100">>, <<"snd", "101">> >>
      <4>1. q \in Seq(Events)
        <5>1. {<<"rcv", "req">>, <<"snd", "100">>, <<"snd", "101">>} \subseteq Events
          BY MessageEvents
        <5> QED BY <5>1
      <4>2. \A a \in Final : \A i \in DOMAIN q : q[i] # <<"snd", a>>
        BY DEF Final
      <4>3. server' = [ist_init EXCEPT !.fifo = q]
        BY <1>5, <3>1
      <4> HIDE DEF q
      <4>4. server' \in Tr /\ server'.ctx = "IST" /\ server'.last = "none" /\ server'.fifo = q
        BY <4>1, <4>3, Fresh DEF Tr
      <4> QED BY <3>1, <4>2, <4>4 DEF InFifo, ExchangeInv, ExchangeTypes
    <3>2. CASE kind # "INVITE"
      <4>1. server' = Add(nist_init, <<"rcv", "req">>) /\ <<"rcv", "req">> \in Events
        BY <1>5, <3>2, MessageEvents
      <4>2. /\ server' \in Tr /\ server'.ctx = "NIST" /\ server'.last = "none"
            /\ \A x : InFifo(server', x) => InFifo(nist_init, x) \/ x = <<"rcv", "req">>
        BY <4>1, Fresh, Added
      <4>3. \A x : ~InFifo(nist_init, x)
        BY Fresh DEF InFifo
      <4> QED BY <3>2, <4>2, <4>3 DEF ExchangeInv, ExchangeTypes
    <3> QED BY <3>1, <3>2
  <2>2. uas' \in CalleeType /\ uas'.given = uas.given /\ uas'.held = uas.held
    <3>1. uas \in CalleeType
      BY DEF ExchangeInv, ExchangeTypes
    <3> DEFINE u(d, w, k) == [uas EXCEPT !.dialog = d, !.said = w, !.age = k]
    <3>2. \A d \in BOOLEAN, w \in {"none"}, k \in Int :
             u(d, w, k) \in CalleeType /\ u(d, w, k).given = uas.given /\ u(d, w, k).held = uas.held
      BY <3>1 DEF CalleeType
    <3>3. uas' = u(kind = "INVITE", "none", 0)
      BY <1>5
    <3>4. (kind = "INVITE") \in BOOLEAN /\ "none" \in {"none"} /\ 0 \in Int
      OBVIOUS
    <3> HIDE DEF u
    <3> QED BY <3>2, <3>3, <3>4
  <2> QED BY <1>1, <1>2, <1>3, <2>1, <2>2, CalleeMoves DEF ExchangeInv, AnswersGiven, Final
<1> QED BY <1>4, <1>5 DEF ServerReadsNew

\* The ACK of a 2xx ends the sending of copies.
LEMMA ServerReadsAckKeeps ==
    ASSUME ExchangeInv, NEW m \in net, ServerReadsAck(m)
    PROVE  ExchangeInv'
<1>1. UNCHANGED <<kind, client, uac, server>> /\ net' \subseteq net
      /\ uas' \in {uas, [uas EXCEPT !.acked = TRUE, !.held = FALSE, !.tries = 0]}
  BY DEF ServerReadsAck
<1>2. uac.asked
  BY DEF ExchangeInv, NotAskedYet
<1>3. uas' \in CalleeType /\ uas'.given = uas.given /\ (uas'.held => uas.held)
  <2>1. uas \in CalleeType
    BY DEF ExchangeInv, ExchangeTypes
  <2>2. CASE uas' = uas
    BY <2>1, <2>2
  <2>3. CASE uas' = [uas EXCEPT !.acked = TRUE, !.held = FALSE, !.tries = 0]
    <3> DEFINE u(y, n, k) == [uas EXCEPT !.acked = y, !.held = n, !.tries = k]
    <3>1. \A y, n \in BOOLEAN, k \in Int :
             u(y, n, k) \in CalleeType /\ u(y, n, k).given = uas.given /\ u(y, n, k).held = n
      BY <2>1 DEF CalleeType
    <3>2. uas' = u(TRUE, FALSE, 0) /\ TRUE \in BOOLEAN /\ FALSE \in BOOLEAN /\ 0 \in Int
      BY <2>3
    <3> HIDE DEF u
    <3> QED BY <3>1, <3>2
  <2> QED BY <1>1, <2>2, <2>3
<1> QED BY <1>1, <1>2, <1>3, CalleeMoves DEF ExchangeInv, ExchangeTypes, AnswersGiven

\* The timers add no answer.
LEMMA ServerTimersKeeps ==
    ASSUME ExchangeInv, ServerTimers
    PROVE  ExchangeInv'
<1>1. server' = [server EXCEPT !.fifo = @ \o TimerEvents(server)] /\ UNCHANGED <<kind, client, net, uac, uas>>
  BY DEF ServerTimers
<1>2. server \in Tr
  BY DEF ExchangeInv, ExchangeTypes
<1>3. /\ server' \in Tr /\ server'.ctx = server.ctx /\ server'.state = server.state /\ server'.last = server.last
      /\ \A x : InFifo(server', x) => InFifo(server, x) \/ x[1] = "timeout"
  BY <1>1, <1>2, TimersAdded
<1>4. \A a \in Final : InFifo(server', <<"snd", a>>) => a \in uas.given
  BY <1>3 DEF ExchangeInv, AnswersGiven
<1> QED BY <1>1, <1>3, <1>4, CalleeMoves DEF ExchangeInv, ExchangeTypes, AnswersGiven, NotAskedYet, Gone

\* The event the callee executes, and its effect.
LEMMA ServerEvent ==
    ASSUME ExchangeInv, ServerExecutes
    PROVE  \E r, ok, e :
              /\ ok \in BOOLEAN /\ e \in Events /\ InFifo(server, e)
              /\ ServerRun([server EXCEPT !.fifo = Tail(@)], e, r)
              /\ server' = Killed(r.tr) /\ net' = net \cup Wire("uas", r.send)
              /\ uas' = [uas EXCEPT !.announced = IF r.tell = "new" THEN @ + 1 ELSE @,
                                    !.dialog = @ /\ r.send # "3456xx"]
              /\ UNCHANGED <<kind, client, uac>>
<1> DEFINE e == Head(server.fifo)
           rest == [server EXCEPT !.fifo = Tail(@)]
<1>1. server.fifo # << >> /\ UNCHANGED <<kind, client, uac>>
  BY DEF ServerExecutes
<1>2. server \in Tr /\ server.ctx \in {"IST", "NIST"}
  BY DEF ExchangeInv, ExchangeTypes
<1>3. rest \in Tr /\ rest.ctx = server.ctx /\ e \in Events /\ InFifo(server, e)
  BY <1>1, <1>2, Taken
<1>4. PICK ok \in BOOLEAN : LET r == Execute(rest, e, ok) IN
        /\ server' = Killed(r.tr) /\ net' = net \cup Wire("uas", r.send)
        /\ uas' = [uas EXCEPT !.announced = IF r.tell = "new" THEN @ + 1 ELSE @,
                              !.dialog = @ /\ r.send # "3456xx"]
  BY DEF ServerExecutes
<1> HIDE DEF rest, e
<1>5. ServerRun(rest, e, Execute(rest, e, ok))
  BY <1>2, <1>3, NoMethod, IstExecutes, NistExecutes
<1> QED BY <1>1, <1>3, <1>4, <1>5 DEF rest

\* What the callee sends was given to it, now or when its last response was.
LEMMA ServerExecutesKeeps ==
    ASSUME ExchangeInv, ServerExecutes
    PROVE  ExchangeInv'
<1> DEFINE rest == [server EXCEPT !.fifo = Tail(@)]
<1>1. PICK r, ok, e :
        /\ ok \in BOOLEAN /\ e \in Events /\ InFifo(server, e) /\ ServerRun(rest, e, r)
        /\ server' = Killed(r.tr) /\ net' = net \cup Wire("uas", r.send)
        /\ uas' = [uas EXCEPT !.announced = IF r.tell = "new" THEN @ + 1 ELSE @,
                              !.dialog = @ /\ r.send # "3456xx"]
        /\ UNCHANGED <<kind, client, uac>>
  BY ServerEvent
<1>2. server \in Tr /\ server.fifo # << >>
  BY DEF ExchangeInv, ExchangeTypes, ServerExecutes
<1>3. /\ rest \in Tr /\ rest.ctx = server.ctx /\ rest.state = server.state /\ rest.last = server.last
      /\ \A x : InFifo(rest, x) => InFifo(server, x)
  BY <1>2, Taken
<1> HIDE DEF rest
<1>4. /\ r.tr \in Tr /\ r.tr.ctx = server.ctx /\ r.tr.fifo = rest.fifo
      /\ r.send \in {"none"} \cup Responses
      /\ r.send \in Final => r.send = server.last \/ e = <<"snd", r.send>>
      /\ r.tr.last \in Final => r.tr.last = server.last \/ e = <<"snd", r.tr.last>>
      /\ server.state = "TERMINATED" => r.tr.state = "TERMINATED" /\ r.send = "none" /\ r.tell = "none"
  BY <1>1, <1>3 DEF ServerRun, Effect
<1>5. /\ server' \in Tr /\ server'.ctx = server.ctx /\ server'.state = r.tr.state /\ server'.last = r.tr.last
      /\ \A x : InFifo(server', x) => InFifo(r.tr, x)
  BY <1>1, <1>4, KilledTr
<1>6. \A a \in Final : InFifo(server', <<"snd", a>>) => a \in uas.given
  BY <1>3, <1>4, <1>5 DEF ExchangeInv, AnswersGiven, InFifo
<1>7. Wire("uas", r.send) \subseteq Inputs /\ \A m \in Wire("uas", r.send) : m.msg = r.send
  <2>1. "uas" \in Sides /\ r.send \in {"none"} \cup Messages
    BY <1>4, MessageEvents DEF Sides
  <2> QED BY <2>1, WireSays
<1>8. r.send \in Final => r.send \in uas.given
  BY <1>1, <1>4 DEF ExchangeInv, AnswersGiven
<1>9. r.tr.last \in Final => r.tr.last \in uas.given
  BY <1>1, <1>4 DEF ExchangeInv, AnswersGiven
<1>10. net' \subseteq Inputs /\ \A m \in net' : m.msg \in Final => m.msg \in uas.given
  BY <1>1, <1>7, <1>8 DEF ExchangeInv, ExchangeTypes, AnswersGiven
<1>11. PICK n \in Nat, d \in BOOLEAN : /\ uas' = [uas EXCEPT !.announced = n, !.dialog = d]
                                       /\ r.tell # "new" => n = uas.announced
  <2>1. uas.announced \in Nat /\ uas.dialog \in BOOLEAN
    BY DEF ExchangeInv, ExchangeTypes, CalleeType
  <2>2. (IF r.tell = "new" THEN uas.announced + 1 ELSE uas.announced) \in Nat
    BY <2>1
  <2>3. (uas.dialog /\ r.send # "3456xx") \in BOOLEAN
    OBVIOUS
  <2>4. uas' = [uas EXCEPT !.announced = IF r.tell = "new" THEN uas.announced + 1 ELSE uas.announced,
                           !.dialog = uas.dialog /\ r.send # "3456xx"]
    BY <1>1 DEF ExchangeInv, ExchangeTypes, CalleeType
  <2> QED BY <2>2, <2>3, <2>4
<1>12. uas' \in CalleeType /\ uas'.given = uas.given /\ uas'.held = uas.held /\ uas'.announced = n
  BY <1>11 DEF ExchangeInv, ExchangeTypes, CalleeType
<1>13. ~uac.asked => net' = {} /\ Gone(server') /\ uas'.announced = 0 /\ ~uas'.held
  <2> SUFFICES ASSUME ~uac.asked PROVE net' = {} /\ Gone(server') /\ uas'.announced = 0 /\ ~uas'.held
    OBVIOUS
  <2>1. server.state = "TERMINATED" /\ net = {} /\ uas.announced = 0 /\ ~uas.held
    BY DEF ExchangeInv, NotAskedYet, Gone
  <2>2. r.send = "none" /\ r.tell = "none" /\ server'.state = "TERMINATED"
    BY <1>4, <1>5, <2>1
  <2> QED BY <1>1, <1>11, <1>12, <2>1, <2>2 DEF Wire, Gone
<1>14. uas'.held => "2xx" \in uas'.given
  BY <1>12 DEF ExchangeInv, AnswersGiven
<1> QED BY <1>1, <1>5, <1>6, <1>9, <1>10, <1>12, <1>13, <1>14, CalleeMoves

\* A 180 is not final.
LEMMA RingKeeps ==
    ASSUME ExchangeInv, Ring
    PROVE  ExchangeInv'
<1>1. /\ uas.announced > 0 /\ uas' = [uas EXCEPT !.said = "180"] /\ UNCHANGED <<kind, client, net, uac>>
      /\ server' \in {server, Add(server, <<"snd", "180">>)}
  BY DEF Ring
<1>2. server \in Tr /\ <<"snd", "180">> \in Events
  BY MessageEvents DEF ExchangeInv, ExchangeTypes
<1>3. /\ server' \in Tr /\ server'.ctx = server.ctx /\ server'.last = server.last
      /\ \A x : InFifo(server', x) => InFifo(server, x) \/ x = <<"snd", "180">>
  BY <1>1, <1>2, Added
<1>4. uac.asked
  BY <1>1 DEF ExchangeInv, NotAskedYet
<1>5. \A a \in Final : InFifo(server', <<"snd", a>>) => a \in uas.given
  BY <1>3 DEF ExchangeInv, AnswersGiven, Final
<1>6. uas' \in CalleeType /\ uas'.given = uas.given /\ uas'.held = uas.held
  BY <1>1 DEF ExchangeInv, ExchangeTypes, CalleeType
<1> QED BY <1>1, <1>3, <1>4, <1>5, <1>6, CalleeMoves DEF ExchangeInv, ExchangeTypes, AnswersGiven

\* The one place where an answer comes into being.
LEMMA SendAnswerKeeps ==
    ASSUME ExchangeInv, NEW a \in Final, SendAnswer(a)
    PROVE  ExchangeInv'
<1>1. /\ uas.announced > 0 /\ server' = Add(server, <<"snd", a>>) /\ UNCHANGED <<kind, client, net, uac>>
      /\ uas' = [uas EXCEPT !.said = a, !.given = @ \cup {a}, !.held = Keeps(a), !.tries = 0,
                            !.wait = IF Keeps(a) THEN RetryWait \div 2 ELSE 0]
  BY DEF SendAnswer, Waiting
<1>2. server \in Tr /\ <<"snd", a>> \in Events
  BY MessageEvents, Values DEF ExchangeInv, ExchangeTypes
<1>3. /\ server' \in Tr /\ server'.ctx = server.ctx /\ server'.last = server.last
      /\ \A x : InFifo(server', x) => InFifo(server, x) \/ x = <<"snd", a>>
  BY <1>1, <1>2, Added
<1>4. uac.asked
  BY <1>1 DEF ExchangeInv, NotAskedYet
<1>5. (IF Keeps(a) THEN RetryWait \div 2 ELSE 0) \in Int
  BY ExchangeConstants
<1>6. Keeps(a) \in BOOLEAN /\ (Keeps(a) => a = "2xx")
  BY DEF Keeps
<1>7. uas' \in CalleeType /\ uas'.given = uas.given \cup {a} /\ uas'.held = Keeps(a)
  <2>1. uas.given \cup {a} \subseteq Final
    BY DEF ExchangeInv, ExchangeTypes, CalleeType
  <2>2. uas' = [uas EXCEPT !.said = a, !.given = uas.given \cup {a}, !.held = Keeps(a), !.tries = 0,
                           !.wait = IF Keeps(a) THEN RetryWait \div 2 ELSE 0]
    BY <1>1 DEF ExchangeInv, ExchangeTypes, CalleeType
  <2> DEFINE g == uas.given \cup {a}
             w == IF Keeps(a) THEN RetryWait \div 2 ELSE 0
             u(h, k, n) == [uas EXCEPT !.said = a, !.given = g, !.held = h, !.tries = k, !.wait = n]
  <2>3. uas \in CalleeType
    BY DEF ExchangeInv, ExchangeTypes
  <2>4. uas' = u(Keeps(a), 0, w) /\ 0 \in Int /\ w \in Int /\ g \in SUBSET Final
    BY <1>5, <2>1, <2>2
  <2> HIDE DEF w, g
  <2>5. \A h \in BOOLEAN, k, n \in Int :
           u(h, k, n) \in CalleeType /\ u(h, k, n).given = g /\ u(h, k, n).held = h
    BY <2>3, <2>4 DEF CalleeType
  <2> HIDE DEF u
  <2>6. uas' \in CalleeType /\ uas'.given = g /\ uas'.held = Keeps(a)
    BY <1>6, <2>4, <2>5
  <2> QED BY <2>6 DEF g
<1>8. \A b \in Final : InFifo(server', <<"snd", b>>) => b \in uas'.given
  BY <1>3, <1>7 DEF ExchangeInv, AnswersGiven
<1> QED BY <1>1, <1>3, <1>4, <1>6, <1>7, <1>8, CalleeMoves DEF ExchangeInv, ExchangeTypes, AnswersGiven

\* A copy of the 200 OK is sent only of one that was given.
LEMMA Retransmit200Keeps ==
    ASSUME ExchangeInv, Retransmit200
    PROVE  ExchangeInv'
<1>1. /\ uas.held /\ net' = net \cup Wire("uas", "2xx") /\ UNCHANGED <<kind, client, server, uac>>
      /\ uas' = [uas EXCEPT !.tries = @ + 1, !.wait = RetryWait]
  BY DEF Retransmit200
<1>2. Wire("uas", "2xx") \subseteq Inputs /\ \A w \in Wire("uas", "2xx") : w.msg = "2xx"
  <2>1. "uas" \in Sides /\ "2xx" \in Messages
    BY MessageEvents, Values DEF Sides
  <2> QED BY <2>1, WireSays
<1>3. uac.asked
  BY <1>1 DEF ExchangeInv, NotAskedYet
<1>4. uas' \in CalleeType /\ uas'.given = uas.given /\ uas'.held = uas.held
  <2>1. uas.tries + 1 \in Int /\ RetryWait \in Int
    BY ExchangeConstants DEF ExchangeInv, ExchangeTypes, CalleeType
  <2>2. PICK k \in Int, w \in Int : uas' = [uas EXCEPT !.tries = k, !.wait = w]
    BY <1>1, <2>1 DEF ExchangeInv, ExchangeTypes, CalleeType
  <2> QED BY <2>2 DEF ExchangeInv, ExchangeTypes, CalleeType
<1>5. net' \subseteq Inputs /\ \A w \in net' : w.msg \in Final => w.msg \in uas.given
  BY <1>1, <1>2 DEF ExchangeInv, ExchangeTypes, AnswersGiven
<1> QED BY <1>1, <1>3, <1>4, <1>5, CalleeMoves DEF ExchangeInv, ExchangeTypes, AnswersGiven

\* Giving up the call takes nothing back that was given.
LEMMA DropUnackedKeeps ==
    ASSUME ExchangeInv, DropUnacked
    PROVE  ExchangeInv'
<1>1. /\ uas.held /\ UNCHANGED <<kind, client, server, net, uac>>
      /\ uas' = [uas EXCEPT !.held = FALSE, !.tries = 0, !.dialog = FALSE, !.dropped = TRUE]
  BY DEF DropUnacked
<1>2. uac.asked
  BY <1>1 DEF ExchangeInv, NotAskedYet
<1>3. uas' \in CalleeType /\ uas'.given = uas.given /\ ~uas'.held
  <2>1. uas \in CalleeType
    BY DEF ExchangeInv, ExchangeTypes
  <2> DEFINE v(h, k) == [uas EXCEPT !.held = h, !.tries = k]
  <2>2. \A h \in BOOLEAN, k \in Int :
           v(h, k) \in CalleeType /\ v(h, k).given = uas.given /\ v(h, k).held = h
    BY <2>1 DEF CalleeType
  <2> HIDE DEF v
  <2>3. PICK w \in CalleeType : w = v(FALSE, 0) /\ w.given = uas.given /\ w.held = FALSE
    <3>1. FALSE \in BOOLEAN /\ 0 \in Int
      OBVIOUS
    <3> QED BY <2>2, <3>1
  <2> DEFINE u(d, y) == [w EXCEPT !.dialog = d, !.dropped = y]
  <2>4. uas' = u(FALSE, TRUE) /\ TRUE \in BOOLEAN /\ FALSE \in BOOLEAN
    BY <1>1, <2>3 DEF v
  <2>5. \A d, y \in BOOLEAN :
           u(d, y) \in CalleeType /\ u(d, y).given = w.given /\ u(d, y).held = w.held
    BY DEF CalleeType
  <2> HIDE DEF u
  <2> QED BY <2>3, <2>4, <2>5
<1> QED BY <1>1, <1>2, <1>3, CalleeMoves DEF ExchangeInv, ExchangeTypes, AnswersGiven

\* Nor does releasing a call that nobody answered.
LEMMA ServerReleasesKeeps ==
    ASSUME ExchangeInv, ServerReleases
    PROVE  ExchangeInv'
<1>1. /\ uas.announced > 0 /\ server' = Killed(Terminated(server)) /\ uas' = [uas EXCEPT !.dialog = FALSE]
      /\ UNCHANGED <<kind, client, net, uac>>
  BY DEF ServerReleases, Waiting
<1>2. server \in Tr
  BY DEF ExchangeInv, ExchangeTypes
<1> DEFINE t == Terminated(server)
<1>3. t \in Tr /\ t.ctx = server.ctx /\ t.fifo = server.fifo /\ t.last = server.last
  BY <1>2, TerminatedTr
<1> HIDE DEF t
<1>4. server' = Killed(t)
  BY <1>1 DEF t
<1>5. /\ server' \in Tr /\ server'.ctx = server.ctx /\ server'.last = server.last
      /\ \A x : InFifo(server', x) => InFifo(t, x)
  BY <1>3, <1>4, KilledTr
<1>6. \A a \in Final : InFifo(server', <<"snd", a>>) => a \in uas.given
  BY <1>3, <1>5 DEF ExchangeInv, AnswersGiven, InFifo
<1>7. uac.asked
  BY <1>1 DEF ExchangeInv, NotAskedYet
<1>8. uas' \in CalleeType /\ uas'.given = uas.given /\ uas'.held = uas.held
  BY <1>1 DEF ExchangeInv, ExchangeTypes, CalleeType
<1> QED BY <1>1, <1>5, <1>6, <1>7, <1>8, CalleeMoves DEF ExchangeInv, ExchangeTypes, AnswersGiven

---------------------------------------------------------------------------
(* Time keeps the invariant *)

\* Only the timers of a transaction get older.
LEMMA Aged ==
    ASSUME NEW tr \in Tr
    PROVE  LET t == Age(tr) IN
           t \in Tr /\ t.ctx = tr.ctx /\ t.state = tr.state /\ t.last = tr.last /\ t.fifo = tr.fifo
<1>1. \A n \in Int : Later(n) \in Int
  BY DEF Later
<1> DEFINE u(a, b, c) == [tr EXCEPT !.retx = a, !.life = b, !.linger = c]
<1>2. \A a, b, c \in Int : LET t == u(a, b, c) IN
         t \in Tr /\ t.ctx = tr.ctx /\ t.state = tr.state /\ t.last = tr.last /\ t.fifo = tr.fifo
  BY DEF Tr
<1>3. Age(tr) = u(Later(tr.retx), Later(tr.life), Later(tr.linger))
  BY DEF Age, Tr
<1>4. tr.retx \in Int /\ tr.life \in Int /\ tr.linger \in Int
  BY DEF Tr
<1>5. Later(tr.retx) \in Int /\ Later(tr.life) \in Int /\ Later(tr.linger) \in Int
  BY <1>1, <1>4
<1> DEFINE t == Age(tr)
<1>6. t = u(Later(tr.retx), Later(tr.life), Later(tr.linger))
  BY <1>3
<1> HIDE DEF u, t
<1>7. t \in Tr /\ t.ctx = tr.ctx /\ t.state = tr.state /\ t.last = tr.last /\ t.fifo = tr.fifo
  BY <1>2, <1>5, <1>6
<1> QED BY <1>7 DEF t

\* A unit of time makes every message on the way older by one.
LEMMA NetAges ==
    ASSUME ExchangeInv, Tick
    PROVE  /\ net' \subseteq Inputs
           /\ \A w \in net' : w.ttl < Delay /\ \E m \in net : w.msg = m.msg
<1>1. net \subseteq Inputs /\ (\A m \in net : m.ttl > 0) /\ net' = {[m EXCEPT !.ttl = @ - 1] : m \in net}
  BY DEF ExchangeInv, ExchangeTypes, Tick, Settled
<1>2. ASSUME NEW w \in net'
      PROVE  w \in Inputs /\ w.ttl < Delay /\ \E m \in net : w.msg = m.msg
  <2>1. PICK m \in net : w = [m EXCEPT !.ttl = @ - 1]
    BY <1>1
  <2>2. m \in Inputs /\ m.ttl > 0 /\ Delay \in Nat
    BY <1>1, ExchangeConstants
  <2>3. m.ttl - 1 \in 0 .. Delay /\ m.ttl - 1 < Delay
    BY <2>2 DEF Inputs
  <2>4. w = [m EXCEPT !.ttl = m.ttl - 1]
    BY <2>1, <2>2 DEF Inputs
  <2>5. PICK n \in 0 .. Delay : n < Delay /\ w = [m EXCEPT !.ttl = n]
    BY <2>3, <2>4
  <2>6. w \in Inputs /\ w.ttl = n /\ w.msg = m.msg
    BY <2>2, <2>5 DEF Inputs
  <2> QED BY <2>5, <2>6
<1> QED BY <1>2

\* Both sides grow older together; nothing is learned or answered by it.
LEMMA TickKeeps ==
    ASSUME ExchangeInv, Tick
    PROVE  ExchangeInv'
<1>1. client' = Age(client) /\ server' = Age(server) /\ uac.asked /\ UNCHANGED kind
  BY DEF Tick
<1>2. client \in Tr /\ server \in Tr /\ uac \in CallerType /\ uas \in CalleeType
  BY DEF ExchangeInv, ExchangeTypes
<1>3. /\ client' \in Tr /\ client'.ctx = client.ctx /\ client'.state = client.state /\ client'.fifo = client.fifo
      /\ server' \in Tr /\ server'.ctx = server.ctx /\ server'.last = server.last /\ server'.fifo = server.fifo
  BY <1>1, <1>2, Aged
<1>4. uac' \in CallerType /\ uac'.asked = uac.asked /\ uac'.outcome = uac.outcome
  <2>1. uac' = [uac EXCEPT !.age = IF ClientWaits THEN uac.age + 1 ELSE uac.age]
    BY <1>2 DEF Tick, CallerType
  <2>2. (IF ClientWaits THEN uac.age + 1 ELSE uac.age) \in Int
    BY <1>2 DEF CallerType
  <2>3. PICK n \in Int : uac' = [uac EXCEPT !.age = n]
    BY <2>1, <2>2
  <2> QED BY <1>2, <2>3 DEF CallerType
<1>5. uas' \in CalleeType /\ uas'.given = uas.given /\ uas'.held = uas.held
  <2>1. uas' = [uas EXCEPT !.wait = Later(uas.wait), !.age = IF ServerWaits THEN uas.age + 1 ELSE uas.age]
    BY <1>2 DEF Tick, CalleeType
  <2>2. Later(uas.wait) \in Int /\ (IF ServerWaits THEN uas.age + 1 ELSE uas.age) \in Int
    BY <1>2 DEF CalleeType, Later
  <2>3. PICK w \in Int, n \in Int : uas' = [uas EXCEPT !.wait = w, !.age = n]
    BY <2>1, <2>2
  <2> QED BY <1>2, <2>3 DEF CalleeType
<1>6. net' \subseteq Inputs /\ \A w \in net' : w.msg \in Final => w.msg \in uas.given
  BY NetAges DEF ExchangeInv, AnswersGiven
<1>7. ExchangeTypes'
  BY <1>1, <1>3, <1>4, <1>5, <1>6 DEF ExchangeInv, ExchangeTypes
<1>8. AnswersGiven'
  BY <1>3, <1>5, <1>6 DEF ExchangeInv, AnswersGiven, InFifo
<1>9. NotAskedYet' /\ OutcomeFits'
  BY <1>1, <1>3, <1>4 DEF ExchangeInv, NotAskedYet, OutcomeFits
<1> QED BY <1>7, <1>8, <1>9 DEF ExchangeInv

---------------------------------------------------------------------------
(* The invariant *)

\* Nothing has been asked.
LEMMA ExchangeInitially ==
    ASSUME Init
    PROVE  ExchangeInv
<1>1. kind \in {"INVITE", "OTHER"}
  BY ExchangeConstants DEF Init
<1> DEFINE c == IF kind = "INVITE" THEN ict_init ELSE nict_init
           s == IF kind = "INVITE" THEN ist_init ELSE nist_init
<1>2. /\ c \in Tr /\ c.fifo = << >> /\ c.ctx = (IF kind = "INVITE" THEN "ICT" ELSE "NICT")
      /\ s \in Tr /\ s.fifo = << >> /\ s.ctx = (IF kind = "INVITE" THEN "IST" ELSE "NIST") /\ s.last = "none"
  BY Fresh
<1>3. client = Terminated(c) /\ server = Terminated(s)
  BY DEF Init
<1> HIDE DEF c, s
<1>4. /\ client \in Tr /\ client.fifo = << >> /\ client.state = "TERMINATED"
      /\ client.ctx = (IF kind = "INVITE" THEN "ICT" ELSE "NICT")
      /\ server \in Tr /\ server.fifo = << >> /\ server.state = "TERMINATED" /\ server.last = "none"
      /\ server.ctx = (IF kind = "INVITE" THEN "IST" ELSE "NIST")
  BY <1>2, <1>3, TerminatedTr
<1>5. uac \in CallerType /\ ~uac.asked /\ uac.outcome = "none" /\ uac.ack = "none"
  BY DEF Init, CallerType
<1>6. uas \in CalleeType /\ ~uas.held /\ uas.announced = 0
  BY DEF Init, CalleeType
<1>7. net = {} /\ DOMAIN << >> = {}
  BY DEF Init
<1> QED BY <1>1, <1>4, <1>5, <1>6, <1>7
     DEF ExchangeInv, ExchangeTypes, AnswersGiven, NotAskedYet, OutcomeFits, InFifo, Gone, Final

\* Every step keeps it.
LEMMA ExchangeStep ==
    ASSUME ExchangeInv, [Next]_vars
    PROVE  ExchangeInv'
<1>1. CASE UNCHANGED vars
  BY <1>1 DEF vars, ExchangeInv, ExchangeTypes, AnswersGiven, NotAskedYet, OutcomeFits, InFifo, Gone
<1>2. CASE ClientLoop
  BY <1>2, ClientReadsKeeps, ClientReadsLateKeeps, ClientTimersKeeps, ClientExecutesKeeps, ClientReleasesKeeps
     DEF ClientLoop, ClientReceives
<1>3. CASE ServerLoop
  BY <1>3, ServerReadsKeeps, ServerReadsNewKeeps, ServerReadsAckKeeps, ServerTimersKeeps, ServerExecutesKeeps,
     ServerReleasesKeeps DEF ServerLoop, ServerReceives
<1>4. CASE Ask \/ SendAck \/ Ring \/ Retransmit200 \/ DropUnacked \/ Tick
  BY <1>4, AskKeeps, SendAckKeeps, RingKeeps, Retransmit200Keeps, DropUnackedKeeps, TickKeeps
<1>5. CASE \E a \in Final : SendAnswer(a)
  BY <1>5, SendAnswerKeeps
<1>6. CASE \E m \in net : Lose(m)
  BY <1>6, LoseKeeps
<1> QED BY <1>1, <1>2, <1>3, <1>4, <1>5, <1>6 DEF Next, Progress

\* Wherever a final answer is found between the two applications - FIFOs, last
\* responses, the network, the 200 OK held for copies - the callee gave it; and
\* a caller that knows its outcome has a finished transaction.
THEOREM ExchangeInvHolds == Spec => []ExchangeInv
<1>1. Init => ExchangeInv
  BY ExchangeInitially
<1>2. ExchangeInv /\ [Next]_vars => ExchangeInv'
  BY ExchangeStep
<1> QED BY <1>1, <1>2, PTL DEF Spec

---------------------------------------------------------------------------
(* The exchange implements the abstract request *)

\* Neither user of the exchange learns or says anything.
LEMMA Silent ==
    ASSUME uac'.asked = uac.asked, uac'.outcome = uac.outcome,
           uas'.given = uas.given, uas'.announced = uas.announced, uas'.said = uas.said
    PROVE  [Abstract!Next]_Abstract!vars
BY DEF Abstract!vars, Waiting

\* The caller learns an answer that was given, or that there is none.
LEMMA Learned ==
    ASSUME uac.asked, uac.outcome = "none", uac'.asked = uac.asked,
           uac'.outcome \in uas.given \cup {"failed"}, UNCHANGED uas
    PROVE  [Abstract!Next]_Abstract!vars
BY DEF Abstract!Learn, Abstract!Next, Waiting

\* A callee that was not told of the request may be told of it.
LEMMA Told ==
    ASSUME uac.asked, UNCHANGED uac, uas'.given = uas.given, Waiting => Waiting'
    PROVE  [Abstract!Next]_Abstract!vars
<1>1. CASE Waiting
  BY <1>1 DEF Abstract!vars
<1>2. CASE ~Waiting /\ ~Waiting'
  <2>1. Waiting' = Waiting
    BY <1>2 DEF Waiting
  <2> QED BY <2>1 DEF Abstract!vars
<1>3. CASE ~Waiting /\ Waiting'
  <2>1. Waiting' = TRUE
    BY <1>3
  <2> QED BY <1>3, <2>1 DEF Abstract!Take, Abstract!Next
<1> QED BY <1>1, <1>2, <1>3

\* The event the caller executes tells it nothing, or an answer it was sent
\* and never one after another.
LEMMA ClientExecutesLearns ==
    ASSUME ExchangeInv, ClientExecutes
    PROVE  [Abstract!Next]_Abstract!vars
<1> DEFINE rest == [client EXCEPT !.fifo = Tail(@)]
<1>1. PICK r, ok, e :
        /\ ok \in BOOLEAN /\ e \in Events /\ InFifo(client, e) /\ ClientRun(rest, e, r)
        /\ client' = Killed(r.tr) /\ net' = net \cup Wire("uac", r.send) /\ uac' = Hears(r)
        /\ UNCHANGED <<kind, server, uas>>
  BY ClientEvent
<1>2. client \in Tr /\ client.fifo # << >> /\ uac \in CallerType
  BY DEF ExchangeInv, ExchangeTypes, ClientExecutes
<1>3. rest.ctx = client.ctx /\ rest.state = client.state
  BY <1>2, Taken
<1> HIDE DEF rest
<1>4. /\ r.tell \in Final => e = <<"rcv", r.tell>>
      /\ client.state \in Done => r.tell \in {"none", "error"} /\ (client.ctx = "NICT" => r.tell = "none")
      /\ client.state = "TERMINATED" => r.tell = "none"
  BY <1>1, <1>3 DEF ClientRun, Effect
<1>5. CASE uac' = uac
  BY <1>1, <1>5, Silent
<1>6. CASE /\ r.tell \in Final /\ uac.outcome = "none"
           /\ uac' = [uac EXCEPT !.outcome = r.tell,
                                 !.ack = IF kind = "INVITE" /\ r.tell = "2xx" THEN "owed" ELSE @]
  <2>1. uac'.outcome = r.tell /\ uac'.asked = uac.asked
    BY <1>2, <1>6 DEF CallerType
  <2>2. r.tell \in uas.given
    BY <1>1, <1>4, <1>6 DEF ExchangeInv, AnswersGiven
  <2>3. uac.asked
    BY <1>4, <1>6 DEF ExchangeInv, NotAskedYet, Gone, Final
  <2> QED BY <1>1, <1>6, <2>1, <2>2, <2>3, Learned
<1>7. CASE /\ r.tell \in {"timeout", "error"} /\ kind = "OTHER" /\ uac' = [uac EXCEPT !.outcome = "failed"]
  <2>1. uac'.outcome = "failed" /\ uac'.asked = uac.asked
    BY <1>2, <1>7 DEF CallerType
  <2>2. uac.outcome = "none"
    BY <1>4, <1>7 DEF ExchangeInv, ExchangeTypes, OutcomeFits
  <2>3. uac.asked
    BY <1>4, <1>7 DEF ExchangeInv, NotAskedYet, Gone
  <2> QED BY <1>1, <2>1, <2>2, <2>3, Learned
<1>8. \/ uac' = uac
      \/ /\ r.tell \in Final /\ uac.outcome = "none"
         /\ uac' = [uac EXCEPT !.outcome = r.tell,
                               !.ack = IF kind = "INVITE" /\ r.tell = "2xx" THEN "owed" ELSE @]
      \/ r.tell \in {"timeout", "error"} /\ kind = "OTHER" /\ uac' = [uac EXCEPT !.outcome = "failed"]
  BY <1>1 DEF Hears
<1> QED BY <1>5, <1>6, <1>7, <1>8

\* Nothing else of the caller tells it anything, except that a call which went
\* nowhere is released.
LEMMA ClientImplements ==
    ASSUME ExchangeInv, Ask \/ ClientReceives \/ ClientTimers \/ ClientReleases \/ SendAck
    PROVE  [Abstract!Next]_Abstract!vars
<1>1. uac \in CallerType
  BY DEF ExchangeInv, ExchangeTypes
<1>2. CASE Ask
  <2>1. ~uac.asked /\ uac' = [uac EXCEPT !.asked = TRUE] /\ UNCHANGED uas
    BY <1>2 DEF Ask
  <2>2. uac'.asked = TRUE /\ uac'.outcome = uac.outcome
    BY <1>1, <2>1 DEF CallerType
  <2>3. Waiting' = Waiting
    BY <2>1 DEF Waiting
  <2> QED BY <2>1, <2>2, <2>3 DEF Abstract!Ask, Abstract!Next
<1>3. CASE ClientReceives
  BY <1>3, Silent DEF ClientReceives, ClientReads, ClientReadsLate
<1>4. CASE ClientTimers
  BY <1>4, Silent DEF ClientTimers
<1>5. CASE ClientReleases
  <2>1. uac.asked /\ uac.outcome = "none" /\ uac' = [uac EXCEPT !.outcome = "failed"] /\ UNCHANGED uas
    BY <1>5 DEF ClientReleases
  <2>2. uac'.asked = uac.asked /\ uac'.outcome = "failed"
    BY <1>1, <2>1 DEF CallerType
  <2> QED BY <2>1, <2>2, Learned
<1>6. CASE SendAck
  <2>1. uac' = [uac EXCEPT !.ack = "sent"] /\ UNCHANGED uas
    BY <1>6 DEF SendAck
  <2>2. uac'.asked = uac.asked /\ uac'.outcome = uac.outcome
    BY <1>1, <2>1 DEF CallerType
  <2> QED BY <2>1, <2>2, Silent
<1> QED BY <1>2, <1>3, <1>4, <1>5, <1>6

\* A request that reaches the callee is put to it, once or again.
LEMMA ServerImplements ==
    ASSUME ExchangeInv, ServerReceives \/ ServerTimers \/ ServerExecutes \/ ServerReleases
    PROVE  [Abstract!Next]_Abstract!vars
<1>1. uas \in CalleeType
  BY DEF ExchangeInv, ExchangeTypes
<1>2. CASE ServerTimers
  BY <1>2, Silent DEF ServerTimers
<1>3. CASE ServerReleases
  <2>1. uas' = [uas EXCEPT !.dialog = FALSE] /\ UNCHANGED uac
    BY <1>3 DEF ServerReleases
  <2>2. uas'.given = uas.given /\ uas'.announced = uas.announced /\ uas'.said = uas.said
    BY <1>1, <2>1 DEF CalleeType
  <2> QED BY <2>1, <2>2, Silent
<1>4. ASSUME NEW m \in net, ServerReads(m) PROVE [Abstract!Next]_Abstract!vars
  BY <1>4, Silent DEF ServerReads
<1>5. ASSUME NEW m \in net, ServerReadsAck(m) PROVE [Abstract!Next]_Abstract!vars
  <2>1. uas' = uas \/ uas' = [uas EXCEPT !.acked = TRUE, !.held = FALSE, !.tries = 0]
    BY <1>5 DEF ServerReadsAck
  <2>2. uas'.given = uas.given /\ uas'.announced = uas.announced /\ uas'.said = uas.said
    BY <1>1, <2>1 DEF CalleeType
  <2> QED BY <1>5, <2>2, Silent DEF ServerReadsAck
<1>6. ASSUME NEW m \in net, ServerReadsNew(m) PROVE [Abstract!Next]_Abstract!vars
  <2>1. UNCHANGED uac /\ uac.asked
    BY <1>6 DEF ServerReadsNew, ExchangeInv, NotAskedYet
  <2>2. uas' = uas \/ uas' = [uas EXCEPT !.dialog = (kind = "INVITE"), !.said = "none", !.age = 0]
    BY <1>6 DEF ServerReadsNew
  <2>3. uas'.given = uas.given /\ uas'.announced = uas.announced /\ uas'.said \in {uas.said, "none"}
    BY <1>1, <2>2 DEF CalleeType
  <2>4. Waiting => Waiting'
    BY <2>3 DEF Waiting, Final
  <2> QED BY <2>1, <2>3, <2>4, Told
<1>7. CASE ServerExecutes
  <2> DEFINE rest == [server EXCEPT !.fifo = Tail(@)]
  <2>1. PICK r, e : /\ uas' = [uas EXCEPT !.announced = IF r.tell = "new" THEN uas.announced + 1 ELSE uas.announced,
                                          !.dialog = uas.dialog /\ r.send # "3456xx"]
                    /\ UNCHANGED uac /\ ServerRun(rest, e, r)
    BY <1>1, <1>7, ServerEvent DEF CalleeType
  <2>2. rest.state = server.state
    BY <1>7, Taken DEF ServerExecutes, ExchangeInv, ExchangeTypes
  <2> HIDE DEF rest
  <2>3. uas.announced \in Nat
    BY <1>1 DEF CalleeType
  <2> DEFINE n == IF r.tell = "new" THEN uas.announced + 1 ELSE uas.announced
  <2>4. /\ n \in Nat /\ n >= uas.announced /\ (r.tell # "new" => n = uas.announced)
        /\ uas' = [uas EXCEPT !.announced = n, !.dialog = uas.dialog /\ r.send # "3456xx"]
    BY <2>1, <2>3
  <2> HIDE DEF n
  <2>5. uas'.given = uas.given /\ uas'.announced = n /\ uas'.said = uas.said
    BY <1>1, <2>4 DEF CalleeType
  <2>6. CASE uac.asked
    <3>1. Waiting => Waiting'
      BY <2>3, <2>4, <2>5 DEF Waiting
    <3> QED BY <2>1, <2>5, <2>6, <3>1, Told
  <2>7. CASE ~uac.asked
    <3>1. r.tell = "none"
      BY <2>1, <2>2, <2>7 DEF ServerRun, Effect, ExchangeInv, NotAskedYet, Gone
    <3> QED BY <2>1, <2>4, <2>5, <3>1, Silent
  <2> QED BY <2>6, <2>7
<1> QED BY <1>2, <1>3, <1>4, <1>5, <1>6, <1>7 DEF ServerReceives

\* The callee's application answers a request that was put to it.
LEMMA CalleeImplements ==
    ASSUME ExchangeInv, Ring \/ Retransmit200 \/ DropUnacked \/ Tick \/ \E a \in Final : SendAnswer(a)
    PROVE  [Abstract!Next]_Abstract!vars
<1>1. uas \in CalleeType /\ uac \in CallerType
  BY DEF ExchangeInv, ExchangeTypes
<1>2. CASE Ring
  <2>1. uas.said = "none" /\ uas' = [uas EXCEPT !.said = "180"] /\ UNCHANGED uac
    BY <1>2 DEF Ring
  <2>2. uas'.given = uas.given /\ uas'.announced = uas.announced /\ uas'.said = "180"
    BY <1>1, <2>1 DEF CalleeType
  <2>3. Waiting' = Waiting
    BY <2>1, <2>2 DEF Waiting, Final
  <2> QED BY <2>1, <2>2, <2>3 DEF Abstract!vars
<1>3. CASE Retransmit200
  <2>1. uas' = [uas EXCEPT !.tries = @ + 1, !.wait = RetryWait] /\ UNCHANGED uac
    BY <1>3 DEF Retransmit200
  <2>2. uas'.given = uas.given /\ uas'.announced = uas.announced /\ uas'.said = uas.said
    BY <1>1, <2>1 DEF CalleeType
  <2> QED BY <2>1, <2>2, Silent
<1>4. CASE DropUnacked
  <2>1. uas' = [uas EXCEPT !.held = FALSE, !.tries = 0, !.dialog = FALSE, !.dropped = TRUE] /\ UNCHANGED uac
    BY <1>4 DEF DropUnacked
  <2>2. uas'.given = uas.given /\ uas'.announced = uas.announced /\ uas'.said = uas.said
    BY <1>1, <2>1 DEF CalleeType
  <2> QED BY <2>1, <2>2, Silent
<1>5. CASE Tick
  <2>1. /\ uac' = [uac EXCEPT !.age = IF ClientWaits THEN @ + 1 ELSE @]
        /\ uas' = [uas EXCEPT !.wait = Later(@), !.age = IF ServerWaits THEN @ + 1 ELSE @]
    BY <1>5 DEF Tick
  <2>2. uac'.asked = uac.asked /\ uac'.outcome = uac.outcome
    BY <1>1, <2>1 DEF CallerType
  <2>3. uas'.given = uas.given /\ uas'.announced = uas.announced /\ uas'.said = uas.said
    BY <1>1, <2>1 DEF CalleeType
  <2> QED BY <2>2, <2>3, Silent
<1>6. ASSUME NEW a \in Final, SendAnswer(a) PROVE [Abstract!Next]_Abstract!vars
  <2>1. /\ Waiting /\ UNCHANGED uac
        /\ uas' = [uas EXCEPT !.said = a, !.given = @ \cup {a}, !.held = Keeps(a), !.tries = 0,
                              !.wait = IF Keeps(a) THEN RetryWait \div 2 ELSE 0]
    BY <1>6 DEF SendAnswer
  <2>2. uas'.given = uas.given \cup {a} /\ uas'.said = a
    BY <1>1, <2>1 DEF CalleeType
  <2>3. Waiting' = FALSE
    BY <2>2 DEF Waiting
  <2>4. Abstract!Answer(a)
    BY <2>1, <2>2, <2>3 DEF Abstract!Answer
  <2> QED BY <2>4 DEF Abstract!Next
<1> QED BY <1>2, <1>3, <1>4, <1>5, <1>6

\* What the caller learns is what the callee answered, or a failure, and it
\* learns it once: the state machines, their timers, the copies, losses and
\* refused messages and the releases above them are one abstract request.
THEOREM ExchangeImplements == Spec => Implements
<1>1. Init => Abstract!Init
  BY DEF Init, Abstract!Init, Waiting
<1>2. ExchangeInv /\ [Next]_vars => [Abstract!Next]_Abstract!vars
  <2> SUFFICES ASSUME ExchangeInv, [Next]_vars PROVE [Abstract!Next]_Abstract!vars
    OBVIOUS
  <2>1. CASE UNCHANGED vars
    BY <2>1, Silent DEF vars
  <2>2. CASE ClientLoop \/ SendAck \/ Ask
    BY <2>2, ClientExecutesLearns, ClientImplements DEF ClientLoop
  <2>3. CASE ServerLoop
    BY <2>3, ServerImplements DEF ServerLoop
  <2>4. CASE Ring \/ Retransmit200 \/ DropUnacked \/ Tick \/ \E a \in Final : SendAnswer(a)
    BY <2>4, CalleeImplements
  <2>5. CASE \E m \in net : Lose(m)
    BY <2>5, Silent DEF Lose
  <2> QED BY <2>1, <2>2, <2>3, <2>4, <2>5 DEF Next, Progress
<1> QED BY <1>1, <1>2, ExchangeInvHolds, PTL DEF Spec, Implements, Abstract!Spec

---------------------------------------------------------------------------
(* A caller that knows its outcome *)

\* Only the caller's state machine puts the request on the wire, and only
\* while it knows no outcome.
LEMMA NoMoreRequests ==
    ASSUME ExchangeInv, [Next]_vars, uac.outcome # "none", NEW m \in net' \ net, m.msg = "req"
    PROVE  m.ttl < Delay
<1>1. \A msg \in {"ack2xx", "2xx"} : \A w \in Wire("uac", msg) \cup Wire("uas", msg) : w.msg = msg
  BY DEF Wire
<1>2. CASE UNCHANGED net
  BY <1>2
<1>3. CASE \E k \in net : Lose(k) \/ ClientReads(k) \/ ServerReads(k) \/ ServerReadsNew(k) \/ ServerReadsAck(k)
  BY <1>3 DEF Lose, ClientReads, ServerReads, ServerReadsNew, ServerReadsAck, Delivered
<1>4. CASE (\E k \in net : ClientReadsLate(k)) \/ SendAck
  <2>1. net' \subseteq net \cup Wire("uac", "ack2xx")
    BY <1>4 DEF ClientReadsLate, SendAck
  <2> QED BY <1>1, <2>1
<1>5. CASE Retransmit200
  <2>1. net' = net \cup Wire("uas", "2xx")
    BY <1>5 DEF Retransmit200
  <2> QED BY <1>1, <2>1
<1>6. CASE Tick
  BY <1>6, NetAges
<1>7. CASE ClientExecutes
  <2> DEFINE rest == [client EXCEPT !.fifo = Tail(@)]
  <2>1. PICK r, e : ClientRun(rest, e, r) /\ net' = net \cup Wire("uac", r.send)
    BY <1>7, ClientEvent
  <2>2. rest.state = client.state
    BY <1>7, Taken DEF ClientExecutes, ExchangeInv, ExchangeTypes
  <2> HIDE DEF rest
  <2>3. client.state \in Done
    BY DEF ExchangeInv, OutcomeFits
  <2>4. r.send # "req"
    BY <2>1, <2>2, <2>3 DEF ClientRun
  <2>5. \A w \in Wire("uac", r.send) : w.msg = r.send
    BY DEF Wire
  <2> QED BY <2>1, <2>4, <2>5
<1>8. CASE ServerExecutes
  <2>1. PICK r, e : ServerRun([server EXCEPT !.fifo = Tail(@)], e, r) /\ net' = net \cup Wire("uas", r.send)
    BY <1>8, ServerEvent
  <2>2. r.send # "req"
    BY <2>1, Values DEF ServerRun
  <2>3. \A w \in Wire("uas", r.send) : w.msg = r.send
    BY DEF Wire
  <2> QED BY <2>1, <2>2, <2>3
<1>9. ClientTimers \/ ClientReleases \/ ServerTimers \/ ServerReleases \/ Ask \/ Ring \/ DropUnacked
      \/ (\E a \in Final : SendAnswer(a)) \/ UNCHANGED vars => UNCHANGED net
  BY DEF ClientTimers, ClientReleases, ServerTimers, ServerReleases, Ask, Ring, DropUnacked, SendAnswer, vars
<1> QED BY <1>2, <1>3, <1>4, <1>5, <1>6, <1>7, <1>8, <1>9
     DEF Next, Progress, ClientLoop, ServerLoop, ClientReceives, ServerReceives

\* Once the caller has learned the outcome, no copy of its request leaves any
\* more, whatever timers A and E still count.
THEOREM CallerGoesQuiet == Spec => QuietAfterOutcome
<1>1. ExchangeInv /\ [Next]_vars => (uac.outcome # "none" => \A m \in net' \ net : m.msg = "req" => m.ttl < Delay)
  BY NoMoreRequests
<1> QED BY <1>1, ExchangeInvHolds, PTL DEF Spec, QuietAfterOutcome
=============================================================================
