----------------------------- MODULE RtpReceive ------------------------------
(***************************************************************************)
(* What the phone plays: the receiving half of an RtpSession, from the     *)
(* socket to the buffer of rtpAudioRecv.                                   *)
(*                                                                         *)
(* A source numbers its packets from First; packet n carries sequence      *)
(* number n modulo SeqWrap (2^16) and timestamp n * PacketLen modulo TsWrap  *)
(* (2^32), so both wrap.  The network loses, delays and reorders packets,  *)
(* and the source may change.  Only the receiving thread touches this      *)
(* state, so a call is one step, except that every packet read from the    *)
(* socket is a step of its own.                                            *)
(***************************************************************************)
EXTENDS Integers, Sequences, SequencesExt

CONSTANTS
    SeqWrap, TsWrap,  \* sequence numbers and timestamps wrap here
    First, Final,    \* the packets of a source
    Sources,        \* 1 .. : the SSRCs; 0 means none is known
    PacketLen,      \* samples in a packet
    BufLen,         \* samples rtpAudioRecv asks for
    Comp,           \* jitt_comp_ts
    MaxSlide,       \* clock slide the jitter control may find, either way
    MaxJitter,      \* and the largest jitter
    Window,         \* a packet is overtaken by fewer packets than this
    MaxQ,           \* max_rq_size (100)
    MaxTs           \* bound of the user's timestamp

ASSUME ReceiveConstants ==
    /\ {SeqWrap, TsWrap, First, Final, PacketLen, BufLen, Comp, MaxSlide,
        MaxJitter, Window, MaxQ, MaxTs} \subseteq Nat
    /\ SeqWrap > 0 /\ TsWrap > 0 /\ PacketLen > 0 /\ BufLen > 0
    /\ Sources \subseteq Nat \ {0}

VARIABLES
    sender,   \* the source that sends and its next packet
    net,      \* packets under way
    rq,       \* session->rtp.rq
    ssrc,     \* session->rcv.ssrc
    sync,     \* RTP_SESSION_RECV_SYNC
    started,  \* RTP_SESSION_FIRST_PACKET_DELIVERED
    hwdiff,   \* hwrcv_diff_ts
    diff,     \* rcv_diff_ts
    lastTs,   \* rcv_last_ts
    retTs,    \* rcv_last_ret_ts
    user,     \* ts of rtpAudioRecv
    room,     \* rlen of rtp_session_recv_with_ts; 0 between calls
    played    \* source and position of the last sample played since the last reset

vars == <<sender, net, rq, ssrc, sync, started, hwdiff, diff, lastTs, retTs, user,
          room, played>>

\* rest: samples not read yet.
Packets == [src : Sources, n : First .. Final, rest : 1 .. PacketLen]

seq(p) == p.n % SeqWrap
ts(p)  == (p.n * PacketLen) % TsWrap

TypeOK ==
    /\ sender \in [src : Sources, n : First .. Final + 1]
    /\ net \subseteq Packets
    /\ rq \in Seq(Packets) /\ Len(rq) <= MaxQ
    /\ ssrc \in Sources \cup {0}
    /\ sync \in BOOLEAN /\ started \in BOOLEAN
    /\ {hwdiff, diff, lastTs, retTs} \subseteq 0 .. TsWrap - 1
    /\ user \in 0 .. MaxTs + BufLen
    /\ room \in 0 .. BufLen
    /\ played \in [src : Sources \cup {0}, at : Int]

Init ==
    /\ \E s \in Sources : sender = [src |-> s, n |-> First]
    /\ net = {} /\ rq = << >> /\ ssrc = 0
    /\ sync = TRUE /\ started = FALSE
    /\ hwdiff = 0 /\ diff = 0 /\ lastTs = 0 /\ retTs = 0
    /\ user = 0 /\ room = 0
    /\ played = [src |-> 0, at |-> 0]

-----------------------------------------------------------------------------
(* Comparisons of rtpsession.c and rtp.h. *)

\* Faulty variant: no wrap.
seq_is_larger(a, b) == a > b

RTP_SEQ_IS_GREATER(a, b) == (a - b) % SeqWrap < SeqWrap \div 2

RTP_TIMESTAMP_IS_NEWER_THAN(a, b) == (a - b) % TsWrap < TsWrap \div 2

RTP_TIMESTAMP_IS_STRICTLY_NEWER_THAN(a, b) == RTP_TIMESTAMP_IS_NEWER_THAN(a, b) /\ a # b

-----------------------------------------------------------------------------
(* The queue. *)

\* From the newest packet upwards: stop at the first that has the same number
\* (the packet is dropped) or an older one (it goes behind that).
rtp_putq(q, p) ==
    LET Stops == {i \in 1 .. Len(q) : \/ seq(q[i]) = seq(p)
                                      \/ RTP_SEQ_IS_GREATER(seq(p), seq(q[i]))}
        at == IF Stops = {} THEN 0 ELSE Max(Stops)
    IN  IF at > 0 /\ seq(q[at]) = seq(p) THEN q ELSE InsertAt(q, at + 1, p)

\* The queue is cut at its old end.
split_and_queue(q, p) ==
    LET r == rtp_putq(q, p)
    IN  SubSeq(r, Len(r) - (IF Len(r) > MaxQ THEN MaxQ ELSE Len(r)) + 1, Len(r))

\* How many packets are taken from the head for timestamp t, the last of them
\* being returned: all whose time has come, stopping at the second of two with
\* one timestamp.
rtp_getq(q, t) ==
    LET Taken(k) == \A i \in 1 .. k :
            /\ RTP_TIMESTAMP_IS_NEWER_THAN(t, ts(q[i]))
            /\ i > 1 => ts(q[i]) # ts(q[i - 1])
    IN  Max({k \in 0 .. Len(q) : Taken(k)})

\* The same without discarding: at most one packet.
rtp_getq_permissive(q, t) ==
    IF q # << >> /\ RTP_TIMESTAMP_IS_NEWER_THAN(t, ts(Head(q))) THEN 1 ELSE 0

-----------------------------------------------------------------------------
(* The network. *)

Send ==
    /\ sender.n <= Final
    /\ \A p \in net : p.src = sender.src => sender.n - p.n < Window
    /\ net' = net \cup {[src |-> sender.src, n |-> sender.n, rest |-> PacketLen]}
    /\ sender' = [sender EXCEPT !.n = @ + 1]
    /\ UNCHANGED <<rq, ssrc, sync, started, hwdiff, diff, lastTs, retTs, user, room, played>>

Lose(p) ==
    /\ p \in net
    /\ net' = net \ {p}
    /\ UNCHANGED <<sender, rq, ssrc, sync, started, hwdiff, diff, lastTs, retTs, user, room,
                   played>>

\* The far end sends from another source (a gateway, a transfer).
ChangeSource(s) ==
    /\ s > sender.src
    /\ sender' = [src |-> s, n |-> First]
    /\ UNCHANGED <<net, rq, ssrc, sync, started, hwdiff, diff, lastTs, retTs, user, room, played>>

-----------------------------------------------------------------------------
(* rtp_session_rtp_recv and rtp_session_rtp_parse: one packet. *)

\* Faulty variant: a late packet is queued like any other.
NeverTooOld(p) == FALSE

\* A packet older than the last one returned is not queued.
TooOld(p) == RTP_TIMESTAMP_IS_STRICTLY_NEWER_THAN(lastTs, ts(p))

\* session->rcv.ssrc is set and another: rtpAudioSetup connected "ssrc_changed"
\* to rtp_session_reset.
Foreign(p) == ssrc # 0 /\ ssrc # p.src

\* rtp_session_reset and rtp_session_resync, then the rest of the parser: no
\* packet of this source was delivered, so p is queued.
rtp_session_reset(p) ==
    /\ rq' = split_and_queue(<< >>, p)
    /\ sync' = TRUE /\ started' = FALSE
    /\ diff' = 0 /\ lastTs' = 0
    /\ played' = [src |-> 0, at |-> 0]
    /\ UNCHANGED hwdiff

\* The running averages of delay and jitter move rcv_diff_ts: any value within
\* the bounds stands for them; safe_delay is at least jitt_comp_ts.
jitter_control_new_packet ==
    \E slide \in -MaxSlide .. MaxSlide, safe_delay \in Comp .. MaxJitter :
        diff' = (hwdiff + slide - safe_delay) % TsWrap

rtp_session_rtp_parse(p) ==
    /\ p \in net /\ net' = net \ {p}
    /\ ssrc' = p.src
    /\ \/ Foreign(p) /\ rtp_session_reset(p)
       \/ /\ ~Foreign(p) /\ ~started
          /\ rq' = split_and_queue(rq, p)
          /\ UNCHANGED <<sync, started, hwdiff, diff, lastTs, played>>
       \/ /\ ~Foreign(p) /\ started
          /\ jitter_control_new_packet
          /\ rq' = IF TooOld(p) THEN rq ELSE split_and_queue(rq, p)
          /\ UNCHANGED <<sync, started, hwdiff, lastTs, played>>
    /\ UNCHANGED <<sender, retTs, user, room>>

-----------------------------------------------------------------------------
(* rtp_session_recv_with_ts: it asks rtp_session_recvm_with_ts until the buffer *)
(* is full or nothing comes.                                                 *)

\* The first packet of the stream fixes the difference to the user's time.
Offset(ask) == IF sync THEN (ts(Head(rq)) - ask) % TsWrap ELSE hwdiff
Diff(ask)   == IF sync THEN (Offset(ask) - Comp) % TsWrap ELSE diff

\* How many packets rtp_session_recvm_with_ts takes for the user's time ask.
rtp_session_recvm_with_ts(ask) ==
    IF Comp = 0 THEN rtp_getq_permissive(rq, (ask + Diff(ask)) % TsWrap)
    ELSE rtp_getq(rq, (ask + Diff(ask)) % TsWrap)

Fill(k, space) ==
    LET p    == rq[k]
        size == IF p.rest <= space THEN p.rest ELSE space
        tail == SubSeq(rq, k + 1, Len(rq))
    IN  /\ rq' = IF p.rest > space
                 THEN rtp_putq(tail, [p EXCEPT !.rest = @ - size])
                 ELSE tail
        /\ lastTs' = ts(p) /\ started' = TRUE
        /\ room' = space - size
        /\ played' = [src |-> p.src, at |-> p.n * PacketLen + PacketLen - p.rest + size - 1]

\* One request for at most space samples of user time ask; without a packet the
\* rest is silence.
Ask(ask, space) ==
    LET k == rtp_session_recvm_with_ts(ask)
    IN  /\ hwdiff' = Offset(ask) /\ diff' = Diff(ask) /\ sync' = FALSE
        /\ ssrc' = IF sync THEN Head(rq).src ELSE ssrc
        /\ IF k > 0 THEN Fill(k, space)
           ELSE room' = 0 /\ UNCHANGED <<rq, lastTs, started, played>>

rtp_session_recv_with_ts ==
    /\ room = 0 /\ user < MaxTs
    /\ user' = user + BufLen
    /\ IF sync /\ rq = << >>
       THEN UNCHANGED <<rq, ssrc, sync, started, hwdiff, diff, lastTs, retTs, room, played>>
       ELSE /\ Ask(user % TsWrap, BufLen)
            /\ retTs' = ((IF sync THEN user ELSE retTs) + BufLen) % TsWrap
    /\ UNCHANGED <<sender, net>>

\* The buffer is not full: the next packet is asked for.
NeedMore ==
    /\ room > 0
    /\ IF sync /\ rq = << >>
       THEN room' = 0 /\ UNCHANGED <<rq, ssrc, sync, started, hwdiff, diff, lastTs, played>>
       ELSE Ask(retTs, room)
    /\ UNCHANGED <<sender, net, retTs, user>>

Next ==
    \/ Send \/ \E s \in Sources : ChangeSource(s)
    \/ \E p \in net : Lose(p) \/ rtp_session_rtp_parse(p)
    \/ rtp_session_recv_with_ts \/ NeedMore

Spec == Init /\ [][Next]_vars

-----------------------------------------------------------------------------
(* Properties. *)

\* The queue holds packets of the one source the session follows, in the order they
\* were sent and without duplicates, also where the sequence numbers wrap, whatever
\* overtook whatever and whichever source spoke in between.
Sorted ==
    /\ \A i, j \in 1 .. Len(rq) : i < j => rq[i].n < rq[j].n
    /\ \A i \in 1 .. Len(rq) : rq[i].src = ssrc

\* What is played of a source only moves forward until the session is reset,
\* however the jitter control shifts the clock: no sample is heard twice or after
\* a later one.
Forward ==
    [][played' # played /\ played'.src = played.src => played'.at > played.at]_vars
====
