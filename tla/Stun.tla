--------------------------------- MODULE Stun ---------------------------------
(***************************************************************************)
(* oRTP's STUN (stun.c): the client that asks a server how the NAT it is   *)
(* behind rewrites its addresses, the server with its four sockets, and    *)
(* the messages between them.  createLocalSdp uses stunOpenSocketPair for  *)
(* the ports it offers.  The NAT is external: every kind that RFC 3489     *)
(* tells apart.  A port is a tuple: a port of the NAT is the port inside,  *)
(* and where the packet went when the mapping depends on that.             *)
(***************************************************************************)
EXTENDS Naturals, Integers, Sequences, FiniteSets, SequencesExt

CONSTANTS
    Nats,      \* kinds of NAT to try
    MaxCount,  \* rounds of stunNatType without news (7)
    MaxTicks,  \* half seconds stunNatType takes at most (10)
    MaxLost    \* packets that get lost

VARIABLES
    probe,  \* the client
    nat,    \* its NAT: kind, hairpin, and the addresses each port has sent to
    air     \* packets under way

stunVars == <<probe, nat, air>>

Addr(ip, port) == [ip |-> ip, port |-> port]
NoAddr == Addr("none", << >>)
Client == "client"
Server == Addr("A1", <<3478>>)
altAddr == Addr("A2", <<3479>>)

-----------------------------------------------------------------------------
(* Messages.  A message maps the attributes it has to their values; what   *)
(* counts of a string or an error is its length.                           *)

Addresses == {"MappedAddress", "ResponseAddress", "SourceAddress", "ChangedAddress",
              "ReflectedFrom", "XorMappedAddress", "SecondaryAddress"}
Strings   == {"Username", "Password", "ServerName"}

\* In the order in which stunEncodeMessage writes them.
AtrOrder == <<"MappedAddress", "ResponseAddress", "ChangeRequest", "SourceAddress", "ChangedAddress",
              "Username", "Password", "ErrorCode", "UnknownAttribute", "ReflectedFrom",
              "XorMappedAddress", "XorOnly", "ServerName", "SecondaryAddress", "MessageIntegrity">>

STUN_MAX_STRING == 256

\* The length an attribute claims, and the bytes that follow type and length.
\* The error's and the list's disagree, and XorOnly lacks even the length.
encodeAtr(t, v) ==
    CASE t \in Addresses          -> [t |-> t, v |-> v, claim |-> 8, bytes |-> 8]
      [] t = "ChangeRequest"      -> [t |-> t, v |-> v, claim |-> 4, bytes |-> 4]
      [] t \in Strings            -> [t |-> t, v |-> v, claim |-> v, bytes |-> v]
      [] t = "ErrorCode"          -> [t |-> t, v |-> v, claim |-> 6 + v, bytes |-> 4 + v]
      [] t = "UnknownAttribute"   -> [t |-> t, v |-> v, claim |-> 2 + 2 * v, bytes |-> 2 * v]
      [] t = "XorOnly"            -> [t |-> t, v |-> v, claim |-> STUN_MAX_STRING, bytes |-> -2]
      [] t = "MessageIntegrity"   -> [t |-> t, v |-> v, claim |-> 20, bytes |-> 20]

TotalBytes(atrs) == FoldLeft(LAMBDA n, a : n + 4 + a.bytes, 0, atrs)

stunEncodeMessage(m) ==
    LET present == SelectSeq(AtrOrder, LAMBDA t : t \in DOMAIN m.atr)
        atrs == [n \in DOMAIN present |-> encodeAtr(present[n], m.atr[present[n]])]
    IN  [type |-> m.type, id |-> m.id, length |-> TotalBytes(atrs), atrs |-> atrs]

\* stunParseAtrAddress, _ChangeRequest, _String, _Integrity, _Error and _Unknown.  The
\* last two compare with the size of a pointer, which every length exceeds.
stunParseAtr(t, len) ==
    CASE t \in Addresses                       -> len = 8
      [] t = "ChangeRequest"                   -> len = 4
      [] t \in Strings                         -> len < STUN_MAX_STRING /\ len % 4 = 0
      [] t \in {"ErrorCode", "UnknownAttribute"} -> len < 4 /\ len % 4 = 0
      [] t = "XorOnly"                         -> TRUE
      [] t = "MessageIntegrity"                -> len = 20

\* One turn of the loop: the attribute has to fit into what the header says is left.
ParseAttribute(r, a) ==
    IF ~r.ok \/ a.claim + 4 > r.size \/ ~stunParseAtr(a.t, a.claim) THEN [r EXCEPT !.ok = FALSE]
    ELSE [r EXCEPT !.size = @ - 4 - a.claim, !.atr = [t \in DOMAIN @ \cup {a.t} |-> IF t = a.t THEN a.v ELSE @[t]]]

stunParseMessage(buf) ==
    LET read == FoldLeft(ParseAttribute, [ok |-> buf.length = TotalBytes(buf.atrs), size |-> buf.length, atr |-> << >>], buf.atrs)
    IN  [ok |-> read.ok, type |-> buf.type, id |-> buf.id, atr |-> read.atr]

\* memset: an attribute that is not there reads as zero.
Value(m, t, zero) == IF t \in DOMAIN m.atr THEN m.atr[t] ELSE zero

-----------------------------------------------------------------------------
(* The server.  Its loop is compiled out of oRTP (#if 0): it is the         *)
(* external server, whose answers stunServerProcessMsg makes.  Only what    *)
(* stunSendTest sends gets here: requests without credentials; the relay    *)
(* is left out.                                                            *)

\* What a binding response says; with XorOnly it leaves the mapped address out.
BindResponse(req, seen, my, alt, flags) ==
    LET always == [MappedAddress |-> seen, XorMappedAddress |-> <<req.id, seen>>,
                   SourceAddress |-> Addr(IF "ip" \in flags THEN alt.ip ELSE my.ip,
                                          IF "port" \in flags THEN alt.port ELSE my.port),
                   ChangedAddress |-> alt, ServerName |-> 16]
    IN  [type |-> "BindResponse", id |-> req.id,
         atr |-> [t \in DOMAIN always \ (IF "XorOnly" \in DOMAIN req.atr THEN {"MappedAddress"} ELSE {}) |-> always[t]]]

\* The answer to a request that came to my; the flags say which socket sends it.
stunServerProcessMsg(buf, from, my, alt) ==
    LET req == stunParseMessage(buf)
        flags == Value(req, "ChangeRequest", {})
        respondTo == Value(req, "ResponseAddress", NoAddr)
        mapped == Value(req, "MappedAddress", NoAddr)
        seen == IF mapped.port = << >> THEN from ELSE mapped
    IN  [ok |-> req.ok /\ req.type = "BindRequest", flags |-> flags,
         destination |-> IF respondTo.port = << >> THEN from ELSE respondTo,
         resp |-> BindResponse(req, seen, my, alt, flags)]

Other(a, pair) == IF a = pair[1] THEN pair[2] ELSE pair[1]

\* The socket that the request came to, or the one the flags ask for.
SendSocket(at, flags) ==
    Addr(IF "ip" \in flags THEN Other(at.ip, <<"A1", "A2">>) ELSE at.ip,
         IF "port" \in flags THEN Other(at.port, <<<<3478>>, <<3479>>>>) ELSE at.port)

\* Without relays.  A request to the second address swaps the two.
stunServerProcess ==
    \E p \in air :
        LET alt == p.dst.ip = altAddr.ip
            r == stunServerProcessMsg(p.msg, p.src, IF alt THEN altAddr ELSE Server, IF alt THEN Server ELSE altAddr)
        IN  /\ p.dst.ip \in {"A1", "A2"}
            /\ air' = (air \ {p}) \cup
                  (IF ~r.ok THEN {}
                   ELSE {[src |-> SendSocket(p.dst, r.flags), dst |-> r.destination,
                          msg |-> stunEncodeMessage(r.resp)]})
            /\ UNCHANGED <<probe, nat>>

-----------------------------------------------------------------------------
(* The NAT and the network. *)

Translates == nat.kind \notin {"Open", "SymFirewall", "Blocked"}

Outside(port, dst) ==
    IF ~Translates THEN Addr(Client, <<port>>)
    ELSE Addr("nat", IF nat.kind = "SymNat" THEN <<port, dst>> ELSE <<port>>)

\* Whether a packet from src may come in to the port whose outside is to.
Admits(src, to, port) ==
    LET asked == {d \in nat.sent[port] : to = Outside(port, d)}
    IN  CASE nat.kind = "Open" -> TRUE
          [] nat.kind = "Blocked" -> FALSE
          [] nat.kind = "ConeNat" -> asked # {}
          [] nat.kind = "RestrictedNat" -> \E d \in asked : d.ip = src.ip
          [] OTHER -> src \in asked

\* A packet to the NAT's own address comes back only when it hairpins.
Passes(p) == p.src.ip = p.dst.ip => nat.hairpin

Lose(p) ==
    /\ p \in air /\ probe.lost < MaxLost
    /\ air' = air \ {p}
    /\ probe' = [probe EXCEPT !.lost = @ + 1]
    /\ UNCHANGED nat

\* To a socket of the client that is open, or to nobody.
Arrive(p) ==
    LET for == {port \in probe.open : (\E d \in nat.sent[port] : p.dst = Outside(port, d)) /\ Admits(p.src, p.dst, port)}
    IN  /\ p \in air /\ p.dst.ip \in {Client, "nat"}
        /\ air' = air \ {p}
        /\ probe' = IF for = {} \/ ~Passes(p) THEN probe
                    ELSE [probe EXCEPT !.queue = [port \in DOMAIN @ |-> IF port \in for THEN @[port] \cup {p.msg} ELSE @[port]]]
        /\ UNCHANGED nat

-----------------------------------------------------------------------------
(* The client. *)

\* stunBuildReqSimple and stunSendTest: the test's number goes as the id.
stunSendTest(port, dest, testNum) ==
    LET flags == CASE testNum = 2 -> {"ip"} [] testNum = 3 -> {"port"} [] OTHER -> {}
        req == [type |-> "BindRequest", id |-> testNum, atr |-> [ChangeRequest |-> flags]]
    IN  [port |-> port, dst |-> dest, msg |-> stunEncodeMessage(req)]

\* sendMessage, through the NAT.
Send(tests) ==
    /\ nat' = [nat EXCEPT !.sent = [p \in DOMAIN @ |-> @[p] \cup {t.dst : t \in {x \in tests : x.port = p}}]]
    /\ air' = air \cup (IF nat.kind = "Blocked" THEN {}
                        ELSE {[src |-> Outside(t.port, t.dst), dst |-> t.dst, msg |-> t.msg] : t \in tests})

\* openPort fails for a port that is in use.
CanOpen == probe.taken = {}

\* One port may be open and stay so when the other cannot be opened.
stunNatTypeStarts ==
    /\ probe.op = "type" /\ probe.state = "start"
    /\ probe' = IF CanOpen THEN [probe EXCEPT !.state = "loop", !.open = {1, 2}]
                ELSE [probe EXCEPT !.state = "end", !.result = "Failure", !.open = {1, 2} \ probe.taken]
    /\ UNCHANGED <<nat, air>>

Looping == probe.op = "type" /\ probe.state = "loop" /\ probe.count < MaxCount /\ probe.ticks < MaxTicks

\* select runs out: at once in the first round and after the first news, else after half a
\* second, in which every answer comes.  The tests without an answer are sent again.
NatTypeTimeout ==
    /\ Looping /\ \A p \in probe.open : probe.queue[p] = {}
    /\ probe.count > 0 => air = {}
    /\ probe' = [probe EXCEPT !.count = @ + 1, !.ticks = IF probe.count > 0 THEN @ + 1 ELSE @]
    /\ Send({stunSendTest(1, Server, 1) : x \in {y \in {1} : ~probe.respI}}
            \cup {stunSendTest(1, probe.dest2, 10) : x \in {y \in {1} : probe.respI /\ ~probe.respI2}}
            \cup {stunSendTest(2, Server, 2) : x \in {y \in {1} : ~probe.respII}}
            \cup {stunSendTest(2, Server, 3) : x \in {y \in {1} : ~probe.respIII}}
            \cup {stunSendTest(1, probe.mapped, 11) : x \in {y \in {1} : probe.respI /\ ~probe.hairpin}})

\* Faulty variant of NatTypeHears: the rounds are counted on after the first answer.
NatTypeHearsCountsOn(s, resp) ==
    LET mapped == Value(resp, "MappedAddress", NoAddr)
        changed == Value(resp, "ChangedAddress", NoAddr)
    IN  CASE resp.id = 1 -> IF s.respI THEN s
                            ELSE [s EXCEPT !.respI = TRUE, !.mapped = mapped, !.dest2.ip = changed.ip]
          [] resp.id = 2 -> [s EXCEPT !.respII = TRUE]
          [] resp.id = 3 -> [s EXCEPT !.respIII = TRUE]
          [] resp.id = 10 -> IF s.respI2 THEN s
                             ELSE [s EXCEPT !.respI2 = TRUE, !.same = (mapped = s.mapped)]
          [] resp.id = 11 -> [s EXCEPT !.hairpin = TRUE]
          [] OTHER -> s

\* What one message does: the first answer to test I starts the count anew.
NatTypeHears(s, resp) ==
    LET mapped == Value(resp, "MappedAddress", NoAddr)
        changed == Value(resp, "ChangedAddress", NoAddr)
    IN  CASE resp.id = 1 -> IF s.respI THEN s
                            ELSE [s EXCEPT !.respI = TRUE, !.mapped = mapped, !.dest2.ip = changed.ip, !.count = 0]
          [] resp.id = 2 -> [s EXCEPT !.respII = TRUE]
          [] resp.id = 3 -> [s EXCEPT !.respIII = TRUE]
          [] resp.id = 10 -> IF s.respI2 THEN s
                             ELSE [s EXCEPT !.respI2 = TRUE, !.same = (mapped = s.mapped)]
          [] resp.id = 11 -> [s EXCEPT !.hairpin = TRUE]
          [] OTHER -> s

NatTypeReceives ==
    \E p \in {1, 2} : \E m \in probe.queue[p] :
        /\ Looping
        /\ probe' = NatTypeHears([probe EXCEPT !.queue[p] = @ \ {m}], stunParseMessage(m))
        /\ UNCHANGED <<nat, air>>

\* The flow chart.  A mapped address that can be bound is no NAT's.
NatTypeOf(s) ==
    CASE ~s.respI -> "Blocked"
      [] s.respI /\ s.mapped.ip = Client /\ s.respII -> "Open"
      [] s.respI /\ s.mapped.ip = Client /\ ~s.respII -> "SymFirewall"
      [] s.respI /\ s.mapped.ip # Client /\ s.respII -> "ConeNat"
      [] s.respI /\ s.mapped.ip # Client /\ ~s.respII /\ ~s.same -> "SymNat"
      [] s.respI /\ s.mapped.ip # Client /\ ~s.respII /\ s.same /\ s.respIII -> "RestrictedNat"
      [] s.respI /\ s.mapped.ip # Client /\ ~s.respII /\ s.same /\ ~s.respIII -> "PortRestrictedNat"

stunNatType ==
    /\ probe.op = "type" /\ probe.state = "loop" /\ ~Looping
    /\ probe' = [probe EXCEPT !.state = "end", !.open = {}, !.result = NatTypeOf(probe)]
    /\ UNCHANGED <<nat, air>>

\* Both ports are opened, or neither, and one test is sent from each.
stunOpenSocketPairStarts ==
    /\ probe.op = "pair" /\ probe.state = "start"
    /\ IF CanOpen
       THEN /\ probe' = [probe EXCEPT !.state = "wait", !.open = {1, 2}]
            /\ Send({stunSendTest(p, Server, 1) : p \in {1, 2}})
       ELSE /\ probe' = [probe EXCEPT !.state = "end", !.result = "failed"]
            /\ UNCHANGED <<nat, air>>

\* getMessage waits a second for each; without an answer both are given up.
stunOpenSocketPair ==
    LET next == Len(probe.pair) + 1
        heard == probe.queue[next]
    IN  /\ probe.op = "pair" /\ probe.state = "wait"
        /\ \/ \E m \in heard :
                 LET resp == stunParseMessage(m) IN
                 probe' = IF ~resp.ok THEN [probe EXCEPT !.state = "end", !.open = {}, !.result = "failed"]
                          ELSE [probe EXCEPT !.queue[next] = @ \ {m}, !.pair = Append(@, Value(resp, "MappedAddress", NoAddr)),
                                             !.state = IF next = 2 THEN "end" ELSE @,
                                             !.open = IF next = 2 THEN {} ELSE @,
                                             !.result = IF next = 2 THEN "found" ELSE @]
           \/ /\ heard = {} /\ air = {}
              /\ probe' = [probe EXCEPT !.state = "end", !.open = {}, !.result = "failed"]
        /\ UNCHANGED <<nat, air>>

-----------------------------------------------------------------------------
StunInit ==
    /\ \E op \in {"type", "pair"}, taken \in {{}, {2}} :
          probe = [op |-> op, taken |-> taken, state |-> "start", open |-> {}, queue |-> [p \in {1, 2} |-> {}],
                   count |-> 0, ticks |-> 0, respI |-> FALSE, respI2 |-> FALSE, respII |-> FALSE, respIII |-> FALSE,
                   hairpin |-> FALSE, mapped |-> NoAddr, same |-> TRUE, dest2 |-> Server, pair |-> << >>,
                   result |-> "none", lost |-> 0]
    /\ \E kind \in Nats, hairpin \in BOOLEAN :
          nat = [kind |-> kind, hairpin |-> hairpin, sent |-> [p \in {1, 2} |-> {}]]
    /\ air = {}

StunNext ==
    \/ stunNatTypeStarts \/ NatTypeTimeout \/ NatTypeReceives \/ stunNatType
    \/ stunOpenSocketPairStarts \/ stunOpenSocketPair
    \/ stunServerProcess
    \/ \E p \in air : Lose(p) \/ Arrive(p)

-----------------------------------------------------------------------------
\* The NAT is found out: its kind, whatever packets are lost as long as a test
\* has tries left, and the outside addresses of the two ports of a session.
NatIsFound ==
    probe.state = "end" =>
        /\ probe.op = "type" => probe.result = IF probe.taken # {} THEN "Failure" ELSE nat.kind
        /\ probe.op = "pair" /\ probe.result = "found" =>
              probe.pair = [p \in {1, 2} |-> Outside(p, Server)]
        /\ probe.op = "pair" /\ probe.result = "failed" =>
              probe.taken # {} \/ nat.kind = "Blocked" \/ probe.lost > 0

\* A message that was written is read as it was, unless it holds an attribute that
\* is written in a way nobody reads: then it is refused, and never misread.
StunIsRead(m) ==
    LET read == stunParseMessage(stunEncodeMessage(m))
        odd == \E t \in DOMAIN m.atr :
                  \/ t \in {"ErrorCode", "UnknownAttribute", "XorOnly"}
                  \/ t \in Strings /\ (m.atr[t] % 4 # 0 \/ m.atr[t] >= STUN_MAX_STRING)
    IN  /\ read.ok <=> ~odd
        /\ read.ok => read.type = m.type /\ read.id = m.id /\ read.atr = m.atr
=============================================================================
