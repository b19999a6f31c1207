------------------------------ MODULE SipMessage ------------------------------
(***************************************************************************)
(* SIP messages as a whole: how oSIP reads the lines of a packet into an   *)
(* osip_message_t, writes one, keeps the text it wrote, and copies one     *)
(* (osip_message*.c, osip_parser_cfg.c, osip_body.c, osip_header.c and the *)
(* setters of every header).                                               *)
(*                                                                         *)
(* A packet is [start, lines, body]: the kind of its start line, lines     *)
(* [n, v] with the name in lower case and a value, and what follows the    *)
(* empty line: NoBody, or a sequence of "d" (data), "h" (a header line of  *)
(* a part), "sep" and "end" (the boundary, and the boundary that closes).  *)
(* A value is a name, "bad" when its parser refuses it, "torn" when it is  *)
(* a Content-Type with a parameter that has no value, its digits for       *)
(* Content-Length, and None when nothing follows the colon.                *)
(***************************************************************************)
EXTENDS Naturals, Sequences, SequencesExt, FiniteSetsExt, TLC

None   == "none"
NoBody == <<"no body">>

\* Lengths as they are written and read.
MaxLength == 20
Length(n) == ToString(n)
atoi(v)   == CHOOSE n \in 0 .. MaxLength : Length(n) = v

-----------------------------------------------------------------------------
(* osip_parser_cfg.c: the headers the parser knows. *)

ShortForm == [e |-> "content-encoding", c |-> "content-type", f |-> "from", i |-> "call-id",
              l |-> "content-length", m |-> "contact", t |-> "to", v |-> "via"]

FullName(n) == IF n \in DOMAIN ShortForm THEN ShortForm[n] ELSE n

\* The headers that occur once, and those kept in lists.
Single == {"from", "to", "call-id", "cseq", "content-type", "mime-version", "content-length"}

Many == {"via", "record-route", "route", "contact", "authorization", "www-authenticate",
         "proxy-authenticate", "proxy-authorization", "allow", "content-encoding", "call-info",
         "alert-info", "error-info", "accept", "accept-encoding", "accept-language",
         "authentication-info", "proxy-authentication-info"}

\* ignored_when_invalid = 0.
Strict == {"from", "to", "call-id", "cseq", "content-type", "content-length",
           "via", "record-route", "route", "contact"}

osip_message_init ==
    [start |-> None, one |-> [n \in Single |-> None], many |-> [n \in Many |-> << >>],
     headers |-> << >>, bodies |-> << >>, message_property |-> 3, message |-> None]

-----------------------------------------------------------------------------
(* The setters.  [ok, sip]: ok is a result other than -1; the message may  *)
(* be new in either case.                                                  *)

Done(sip) == [ok |-> TRUE, sip |-> sip]
Fail(sip) == [ok |-> FALSE, sip |-> sip]

\* A header that occurs once: a second one that is not empty is refused, and
\* message_property is lowered before the value is read.
SetOne(sip, n, v) ==
    LET lowered == [sip EXCEPT !.message_property = 2]
    IN  IF v = None THEN Done(sip)
        ELSE IF sip.one[n] # None THEN Fail(sip)
        ELSE IF v = "bad" THEN Fail(lowered)
        ELSE Done([lowered EXCEPT !.one[n] = v])

\* A header kept in a list: the empty one is passed over.
SetMany(sip, n, v) ==
    IF v = None THEN Done(sip)
    ELSE IF v = "bad" THEN Fail(sip)
    ELSE Done([sip EXCEPT !.many[n] = Append(@, v), !.message_property = 2])

osip_message_set_from(sip, v) == SetOne(sip, "from", v)
osip_message_set_to(sip, v) == SetOne(sip, "to", v)
osip_message_set_call_id(sip, v) == SetOne(sip, "call-id", v)
osip_message_set_cseq(sip, v) == SetOne(sip, "cseq", v)
osip_message_set_mime_version(sip, v) == SetOne(sip, "mime-version", v)
osip_message_set_content_length(sip, v) == SetOne(sip, "content-length", v)

osip_message_set_via(sip, v) == SetMany(sip, "via", v)
osip_message_set_record_route(sip, v) == SetMany(sip, "record-route", v)
osip_message_set_route(sip, v) == SetMany(sip, "route", v)
osip_message_set_contact(sip, v) == SetMany(sip, "contact", v)
osip_message_set_authorization(sip, v) == SetMany(sip, "authorization", v)
osip_message_set_www_authenticate(sip, v) == SetMany(sip, "www-authenticate", v)
osip_message_set_proxy_authenticate(sip, v) == SetMany(sip, "proxy-authenticate", v)
osip_message_set_proxy_authorization(sip, v) == SetMany(sip, "proxy-authorization", v)
osip_message_set_allow(sip, v) == SetMany(sip, "allow", v)
osip_message_set_content_encoding(sip, v) == SetMany(sip, "content-encoding", v)
osip_message_set_call_info(sip, v) == SetMany(sip, "call-info", v)
osip_message_set_alert_info(sip, v) == SetMany(sip, "alert-info", v)
osip_message_set_error_info(sip, v) == SetMany(sip, "error-info", v)
osip_message_set_accept_encoding(sip, v) == SetMany(sip, "accept-encoding", v)
osip_message_set_accept_language(sip, v) == SetMany(sip, "accept-language", v)
osip_message_set_authentication_info(sip, v) == SetMany(sip, "authentication-info", v)
osip_message_set_proxy_authentication_info(sip, v) == SetMany(sip, "proxy-authentication-info", v)

\* A Content-Type that is there already refuses even an empty second one; one
\* that cannot be read is forgotten without an error.
osip_message_set_content_type(sip, v) ==
    LET lowered == [sip EXCEPT !.message_property = 2]
    IN  IF sip.one["content-type"] # None THEN Fail(sip)
        ELSE IF v = None THEN Done(sip)
        ELSE IF v = "bad" THEN Done(lowered)
        ELSE Done([lowered EXCEPT !.one["content-type"] = v])

\* Only an Accept may be empty.
osip_message_set_accept(sip, v) ==
    IF v = "bad" THEN Fail(sip)
    ELSE Done([sip EXCEPT !.many["accept"] = Append(@, v), !.message_property = 2])

osip_message_set_header(sip, n, v) ==
    [sip EXCEPT !.headers = Append(@, [n |-> n, v |-> v]), !.message_property = 2]

\* The first header of that name goes, the new one is the last.
osip_message_replace_header(sip, n, v) ==
    LET old == {k \in 1 .. Len(sip.headers) : sip.headers[k].n = n}
    IN  osip_message_set_header(
            IF old = {} THEN sip ELSE [sip EXCEPT !.headers = RemoveAt(@, Min(old))], n, v)

\* The table of setters.
__osip_message_call_method(sip, n, v) ==
    LET set ==
          CASE n = "from" -> osip_message_set_from(sip, v)
            [] n = "to" -> osip_message_set_to(sip, v)
            [] n = "call-id" -> osip_message_set_call_id(sip, v)
            [] n = "cseq" -> osip_message_set_cseq(sip, v)
            [] n = "mime-version" -> osip_message_set_mime_version(sip, v)
            [] n = "content-length" -> osip_message_set_content_length(sip, v)
            [] n = "via" -> osip_message_set_via(sip, v)
            [] n = "record-route" -> osip_message_set_record_route(sip, v)
            [] n = "route" -> osip_message_set_route(sip, v)
            [] n = "contact" -> osip_message_set_contact(sip, v)
            [] n = "authorization" -> osip_message_set_authorization(sip, v)
            [] n = "www-authenticate" -> osip_message_set_www_authenticate(sip, v)
            [] n = "proxy-authenticate" -> osip_message_set_proxy_authenticate(sip, v)
            [] n = "proxy-authorization" -> osip_message_set_proxy_authorization(sip, v)
            [] n = "allow" -> osip_message_set_allow(sip, v)
            [] n = "content-encoding" -> osip_message_set_content_encoding(sip, v)
            [] n = "call-info" -> osip_message_set_call_info(sip, v)
            [] n = "alert-info" -> osip_message_set_alert_info(sip, v)
            [] n = "error-info" -> osip_message_set_error_info(sip, v)
            [] n = "accept-encoding" -> osip_message_set_accept_encoding(sip, v)
            [] n = "accept-language" -> osip_message_set_accept_language(sip, v)
            [] n = "authentication-info" -> osip_message_set_authentication_info(sip, v)
            [] n = "proxy-authentication-info" -> osip_message_set_proxy_authentication_info(sip, v)
            [] n = "content-type" -> osip_message_set_content_type(sip, v)
            [] n = "accept" -> osip_message_set_accept(sip, v)
    IN  [set EXCEPT !.ok = @ \/ n \notin Strict]

osip_message_set__header(sip, name, v) ==
    LET n == FullName(name)
    IN  IF n \in Single \cup Many THEN __osip_message_call_method(sip, n, v)
        ELSE Done(osip_message_set_header(sip, n, v))

osip_message_set_body(sip, data) ==
    [sip EXCEPT !.bodies = Append(@, [h |-> << >>, d |-> data]), !.message_property = 2]

-----------------------------------------------------------------------------
(* _osip_message_parse. *)

\* The first line that is refused ends the reading.
msg_headers_parse(sip, lines) ==
    LET Step(r, line) == IF ~r.ok THEN r ELSE osip_message_set__header(r.sip, line.n, line.v)
    IN  FoldLeft(Step, Done(sip), lines)

\* A part starts with its header lines and goes on with data.
osip_body_parse_mime(part) ==
    LET heads == {n \in 1 .. Len(part) : \A k \in 1 .. n : part[k] = "h"}
        first == Cardinality(heads) + 1
    IN  [ok |-> heads # {} /\ first <= Len(part),
         v  |-> [h |-> SubSeq(part, 1, first - 1), d |-> SubSeq(part, first, Len(part))]]

\* The parts between the boundaries, up to the first that closes.
Parts(body) ==
    LET seps  == {n \in 1 .. Len(body) : body[n] \in {"sep", "end"}}
        ends  == {n \in seps : body[n] = "end" /\ n # Min(seps)}
        upto  == {n \in seps : n <= Min(ends)}
        at    == SelectSeq([n \in 1 .. Len(body) |-> n], LAMBDA n : n \in upto)
    IN  IF ends = {} THEN << >>
        ELSE [n \in 1 .. Len(at) - 1 |->
                 osip_body_parse_mime(SubSeq(body, at[n] + 1, at[n + 1] - 1))]

\* Data is measured against Content-Length; only for SDP may that be missing.
msg_osip_body_parse(sip, body) ==
    LET type   == sip.one["content-type"]
        length == sip.one["content-length"]
        known  == IF length = None THEN osip_message_set_content_length(sip, Length(Len(body))).sip ELSE sip
        len    == atoi(known.one["content-length"])
        parts  == Parts(body)
    IN  IF type = None THEN Done(sip)
        ELSE IF type \notin {"multipart", "multipart without boundary"}
        THEN IF length = None /\ type # "sdp" THEN Fail(sip)
             ELSE IF Len(body) < len THEN Fail(known)
             ELSE Done(osip_message_set_body(known, SubSeq(body, 1, len)))
        ELSE IF type = "multipart without boundary" \/ parts = << >> THEN Fail(sip)
        ELSE IF \E n \in 1 .. Len(parts) : ~parts[n].ok THEN Fail(sip)
        ELSE Done([sip EXCEPT !.bodies = [n \in 1 .. Len(parts) |-> parts[n].v],
                              !.message_property = 2])

\* A Content-Length that is missing at the end is 0.
Measured(r) ==
    IF r.ok /\ r.sip.one["content-length"] = None THEN osip_message_set_content_length(r.sip, "0") ELSE r

osip_message_parse(packet) ==
    LET sip     == [osip_message_init EXCEPT !.start = packet.start]
        headers == msg_headers_parse(sip, packet.lines)
    IN  IF packet.start = "bad" THEN Fail(sip)
        ELSE IF ~headers.ok \/ packet.body = NoBody THEN Measured(headers)
        ELSE Measured(msg_osip_body_parse(headers.sip, packet.body))

-----------------------------------------------------------------------------
(* _osip_message_to_str. *)

\* The order of the table; the headers that are not known and the length follow.
Order == <<"via", "record-route", "route", "from", "to", "call-id", "cseq", "contact",
           "authorization", "www-authenticate", "proxy-authenticate", "proxy-authorization",
           "content-type", "mime-version", "allow", "content-encoding", "call-info",
           "alert-info", "error-info", "accept", "accept-encoding", "accept-language",
           "authentication-info", "proxy-authentication-info">>

Values(sip, n) ==
    IF n \in Many THEN sip.many[n] ELSE IF sip.one[n] = None THEN << >> ELSE <<sip.one[n]>>

\* strcat_simple_header, strcat_headers_one_per_line.
HeaderLines(sip, n) == LET vs == Values(sip, n) IN [k \in 1 .. Len(vs) |-> [n |-> n, v |-> vs[k]]]

\* osip_body_to_str, with the boundaries when the message says it is MIME.
Bodies(sip) ==
    LET mime    == sip.one["mime-version"] # None /\ sip.one["content-type"] = "multipart"
        Text(b) == b.h \o b.d
    IN  IF mime
        THEN FlattenSeq([n \in 1 .. Len(sip.bodies) |-> <<"sep">> \o Text(sip.bodies[n])]) \o <<"end">>
        ELSE FlattenSeq([n \in 1 .. Len(sip.bodies) |-> Text(sip.bodies[n])])

\* The result of strcat_simple_header is not looked at: the name of a header that
\* cannot be written stands alone, and the next line follows without a line end.
RunTogether(lines) ==
    LET torn == {n \in 1 .. Len(lines) : lines[n].n = "content-type" /\ lines[n].v = "torn"}
    IN  IF torn = {} THEN lines
        ELSE [RemoveAt(lines, Min(torn) + 1) EXCEPT ![Min(torn)].v = "bad"]

\* What the structure says, as a packet.
Rebuilt(sip) ==
    LET known == FlattenSeq([n \in 1 .. Len(Order) |-> HeaderLines(sip, Order[n])])
        body  == IF sip.bodies = << >> THEN NoBody ELSE Bodies(sip)
        size  == IF sip.bodies = << >> THEN 0 ELSE Len(body)
    IN  [start |-> sip.start,
         lines |-> RunTogether(known \o sip.headers \o <<[n |-> "content-length", v |-> Length(size)]>>),
         body  |-> body]

\* osip_message_to_str fails for want of a start line or on an empty body.  The
\* text written last is used again while message_property is 1.
osip_message_to_str(sip) ==
    LET text == Rebuilt(sip)
    IN  IF sip.message_property = 1 THEN [ok |-> TRUE, text |-> sip.message, sip |-> sip]
        ELSE IF sip.start = None \/ \E n \in 1 .. Len(sip.bodies) : sip.bodies[n].d = << >>
        THEN [ok |-> FALSE, text |-> None, sip |-> [sip EXCEPT !.message = None]]
        ELSE [ok |-> TRUE, text |-> text,
              sip |-> [sip EXCEPT !.message = text, !.message_property = 1]]

osip_message_force_update(sip) == [sip EXCEPT !.message_property = 2]

\* The lists that a small build leaves out.
Rare == {"accept", "accept-encoding", "accept-language", "alert-info", "allow",
         "authentication-info", "call-info", "content-encoding", "error-info",
         "proxy-authentication-info"}

\* The start line, and the rare lists element by element.
CloneRare(sip) ==
    [osip_message_init EXCEPT !.start = sip.start,
                              !.many = [n \in Many |-> IF n \in Rare THEN sip.many[n] ELSE << >>]]

\* Then every other header, the bodies and the text kept beside them.  A body
\* without data cannot be copied.
osip_message_clone(sip) ==
    IF \E n \in 1 .. Len(sip.bodies) : sip.bodies[n].d = << >> THEN Fail(sip)
    ELSE Done([CloneRare(sip) EXCEPT !.one = sip.one,
                   !.many = [n \in Many |-> IF n \in Rare THEN @[n] ELSE sip.many[n]],
                   !.headers = sip.headers, !.bodies = sip.bodies,
                   !.message_property = sip.message_property, !.message = sip.message])

-----------------------------------------------------------------------------
(* What eXosip does to a request before it sends it again: it copies the   *)
(* request and edits the copy in place.                                    *)

\* Faulty variant of Retouched: osip_message_force_update is forgotten.
RetouchedStale(sip) ==
    [sip EXCEPT !.one["cseq"] = "next", !.many["via"] = [@ EXCEPT ![1] = "next"],
                !.many["authorization"] = << >>, !.many["proxy-authorization"] = << >>]

\* The credentials go, CSeq and the branch of the first Via are new.
Retouched(sip) ==
    osip_message_force_update(
        [sip EXCEPT !.one["cseq"] = "next", !.many["via"] = [@ EXCEPT ![1] = "next"],
                    !.many["authorization"] = << >>, !.many["proxy-authorization"] = << >>])

-----------------------------------------------------------------------------
(* What the parser and the writer should do. *)

\* What is written is what the structure says, never what it said before.
WritesWhatItIs(sip) ==
    LET out == osip_message_to_str(sip) IN out.ok => out.text = Rebuilt(sip)

\* A copy is the message.
CopyIsTheSame(sip) == osip_message_clone(sip).ok => osip_message_clone(sip).sip = sip

\* A message that was written is read as it was.  Its Content-Length is new;
\* parts in more than one body need Mime-Version, and a torn Content-Type runs
\* into the line after it.
ReadsWhatItWrote(sip) ==
    LET again == osip_message_parse(Rebuilt(sip))
        plain == [sip EXCEPT !.message_property = 0, !.message = None, !.one["content-length"] = None]
        type  == sip.one["content-type"]
        fits  == CASE Len(sip.bodies) = 0 -> TRUE
                   [] Len(sip.bodies) = 1 -> type \notin {None, "multipart"} /\ sip.bodies[1].h = << >>
                   [] OTHER -> type = "multipart" /\ sip.one["mime-version"] # None
                               /\ \A n \in 1 .. Len(sip.bodies) : sip.bodies[n].h # << >>
    IN  fits /\ type # "torn" /\ osip_message_to_str(sip).ok =>
          /\ again.ok
          /\ [again.sip EXCEPT !.message_property = 0, !.one["content-length"] = None] = plain

\* A packet is refused for a strict header that is bad or comes twice.  Of a
\* packet without body that is taken, every other good header is kept, in order.
TakesTheGoodLines(packet) ==
    LET got      == osip_message_parse(packet)
        Of(n)    == SelectSeq(packet.lines, LAMBDA l : FullName(l.n) = n)
        Good(n)  == SelectSeq(Of(n), LAMBDA l : l.v \notin {None, "bad"})
        Twice(n) == n \in Single /\ Len(SelectSeq(Of(n), LAMBDA l : l.v # None)) > 1
        Kept(n)  == [k \in 1 .. Len(Good(n)) |-> Good(n)[k].v]
        Spoils(n) == \/ n # "content-type" /\ n \in Strict /\ \E k \in 1 .. Len(Of(n)) : Of(n)[k].v = "bad"
                     \/ n # "content-type" /\ n \in Strict /\ Twice(n)
    IN  packet.start # "bad" /\ packet.body = NoBody =>
          /\ (\E n \in Strict : Spoils(n)) => ~got.ok
          /\ got.ok => \A n \in Many \ {"accept"} : got.sip.many[n] = Kept(n)
          /\ got.ok => \A n \in (Strict \cap Single) \ {"content-type", "content-length"} :
                          Kept(n) # << >> => got.sip.one[n] = Kept(n)[1]
=============================================================================
