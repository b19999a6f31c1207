------------------------------ MODULE SipHeaders ------------------------------
(***************************************************************************)
(* The headers oSIP builds on those of SipText: Contact, Route and         *)
(* Record-Route, the elements with parameters (Call-Info, Accept-Encoding, *)
(* Content-Disposition), Accept and Content-Length; and how oSIP copies    *)
(* and compares the parts of a message (osip_*_clone, _match, _compare).   *)
(***************************************************************************)
EXTENDS SipText

-----------------------------------------------------------------------------
(* Addresses. *)

\* "*" is kept as the display name, whatever follows it.
osip_contact_parse(s) ==
    IF s # << >> /\ s[1] = "*" THEN Good([osip_from_init EXCEPT !.displayname = s])
    ELSE osip_from_parse(s)

osip_contact_to_str(c) ==
    IF c.displayname # << >> /\ c.displayname[1] = "*" THEN <<"*">> ELSE osip_from_to_str(c)

osip_to_parse(s)           == osip_from_parse(s)
osip_record_route_parse(s) == osip_from_parse(s)
osip_route_parse(s)        == osip_from_parse(s)

\* Always with brackets; the parameters are written as they are.
osip_record_route_to_str(r) ==
    LET url == osip_uri_to_str(r.url)
        Param(p) == <<";">> \o p[1] \o (IF p[2] = << >> THEN << >> ELSE <<"=">> \o p[2])
    IN  IF url = << >> THEN << >>
        ELSE (IF r.displayname = << >> THEN << >> ELSE r.displayname \o <<" ">>)
             \o <<"<">> \o url \o <<">">>
             \o FlattenSeq([n \in 1 .. Len(r.gen_params) |-> Param(r.gen_params[n])])

osip_route_to_str(r) == osip_record_route_to_str(r)

\* A NULL url is copied as NULL, one that is there by osip_uri_clone.
osip_from_clone(f) ==
    IF f.url # osip_uri_init /\ ~osip_uri_clone(f.url).ok THEN Bad
    ELSE Good([displayname |-> f.displayname, url |-> f.url, gen_params |-> f.gen_params])

\* 0 is TRUE.  User names and tags count only when both sides have them.  Two
\* addresses without host are equal by their text, and no further.
osip_from_compare(f, g) ==
    LET Both(a, b) == a # << >> /\ b # << >>
        tag(a) == LET p == osip_uri_param_get_byname(a.gen_params, TagName)
                  IN  IF p = << >> THEN << >> ELSE p[2]
    IN  \/ /\ f.url.host = << >> /\ g.url.host = << >>
           /\ f.url.string # << >> /\ f.url.string = g.url.string
        \/ /\ Both(f.url.host, g.url.host) /\ f.url.host = g.url.host
           /\ Both(f.url.username, g.url.username) => f.url.username = g.url.username
           /\ Both(tag(f), tag(g)) => tag(f) = tag(g)

-----------------------------------------------------------------------------
(* Elements with parameters. *)

\* What stands before the ";" at position semi (0 for none), and what follows.
ElementBefore(s, semi) ==
    LET read == IF semi = 0 THEN Good(<< >>) ELSE __osip_generic_param_parseall(SubSeq(s, semi, Len(s)))
        end  == IF semi = 0 THEN Len(s) ELSE semi - 1
    IN  IF ~read.ok \/ end < 1 THEN Bad
        ELSE Good([element |-> osip_clrspace(SubSeq(s, 1, end)), gen_params |-> read.v])

\* The ";" is looked for behind the brackets.
osip_call_info_parse(s) ==
    LET open  == strchr(s, 1, "<")
        close == strchr(s, open + 1, ">")
    IN  IF open = 0 \/ close = 0 THEN Bad ELSE ElementBefore(s, strchr(s, close + 1, ";"))

osip_accept_encoding_parse(s)     == ElementBefore(s, strchr(s, 1, ";"))
osip_content_disposition_parse(s) == ElementBefore(s, strchr(s, 1, ";"))

osip_call_info_to_str(e) == e.element \o generic_params_to_str(e.gen_params)

osip_accept_encoding_to_str(e) == e.element \o generic_params_to_str(e.gen_params)

osip_call_info_clone(e) ==
    IF e.element = << >> THEN Bad ELSE Good([element |-> e.element, gen_params |-> e.gen_params])

osip_accept_encoding_clone(e) ==
    IF e.element = << >> THEN Bad ELSE Good([element |-> e.element, gen_params |-> e.gen_params])

\* An Accept without type is written as a blank; it is read by
\* osip_content_type_parse, which is not called for an empty one.
osip_accept_to_str(a) ==
    IF a.type = << >> /\ a.subtype = << >> THEN <<" ">>
    ELSE IF \E n \in 1 .. Len(a.gen_params) : a.gen_params[n][2] = << >> THEN << >>
    ELSE a.type \o <<"/">> \o a.subtype
         \o FlattenSeq([n \in 1 .. Len(a.gen_params) |->
                <<";", " ">> \o a.gen_params[n][1] \o <<"=">> \o a.gen_params[n][2]])

osip_content_length_parse(s)  == IF s = << >> THEN Bad ELSE Good([value |-> s])
osip_content_length_to_str(c) == c.value
osip_content_length_clone(c)  == Good([value |-> c.value])

-----------------------------------------------------------------------------
(* Copies and comparisons.  A comparison that returns 0 is TRUE. *)

osip_call_id_clone(c) == Good([number |-> c.number, host |-> c.host])

osip_cseq_clone(c) == Good([number |-> c.number, method |-> c.method])

osip_via_clone(v) ==
    Good([version |-> v.version, protocol |-> v.protocol, host |-> v.host, port |-> v.port,
          comment |-> v.comment, via_params |-> v.via_params])

osip_content_type_clone(c) ==
    Good([type |-> c.type, subtype |-> c.subtype, gen_params |-> c.gen_params])

\* A number must be there; hosts are both missing or equal.
osip_call_id_match(c, d) == c.number # << >> /\ c.number = d.number /\ c.host = d.host

\* The words that stand for the methods INVITE and ACK.
InviteWord == <<"x">>
AckWord    == <<"x", "x">>

\* INVITE and ACK are one method here: an ACK finds the transaction it ends.
osip_cseq_match(c, d) ==
    LET Dialogue == {InviteWord, AckWord}
    IN  c.number = d.number
        /\ IF d.method \in Dialogue THEN c.method \in Dialogue ELSE c.method = d.method

-----------------------------------------------------------------------------
(* What the readers, writers and copies should do. *)

\* Every address is read back from each of its written forms, and its copy
\* compares equal to it, with the tag or without.
AddressForms(f) ==
    LET copy == osip_from_clone(f)
    IN  /\ osip_contact_parse(osip_contact_to_str(f)) = Good(f)
        /\ osip_to_parse(osip_from_to_str(f)) = Good(f)
        /\ osip_route_parse(osip_route_to_str(f)) = Good(f)
        /\ osip_record_route_parse(osip_record_route_to_str(f)) = Good(f)
        /\ copy = Good(f)
        /\ osip_from_compare(f, copy.v)
        /\ osip_from_compare(f, [f EXCEPT !.gen_params = << >>])

\* An element is read back as it was written and copied, an Accept unless it is
\* empty or has a parameter without a value (a parameter whose name is blank is
\* read, and written as nothing); a text that two headers read alike
\* means the same to both.
ElementForms(s) ==
    LET e == osip_accept_encoding_parse(s)
        i == osip_call_info_parse(s)
        a == osip_content_type_parse(s)
        d == osip_content_disposition_parse(s)
        text == osip_accept_to_str(a.v)
        l == osip_content_length_parse(s)
        Named(h) == \A n \in 1 .. Len(h.gen_params) : h.gen_params[n][1] # << >>
    IN  /\ e.ok /\ e.v.element # << >> /\ Named(e.v) => osip_accept_encoding_parse(osip_accept_encoding_to_str(e.v)) = e
                                  /\ osip_accept_encoding_clone(e.v) = e
        /\ i.ok /\ Named(i.v) => osip_call_info_parse(osip_call_info_to_str(i.v)) = i /\ osip_call_info_clone(i.v) = i
        /\ a.ok /\ a.v.subtype # << >> /\ text # << >> => osip_content_type_parse(text) = a
        /\ a.ok => osip_content_type_clone(a.v) = a
        /\ d = e
        /\ l.ok => osip_content_length_parse(osip_content_length_to_str(l.v)) = l
                   /\ osip_content_length_clone(l.v) = l

\* A copy of a Call-ID or of a CSeq matches the original, so that a repeated
\* request finds its transaction; an ACK matches the INVITE of its number, and
\* no other two methods match.
CopiesMatch(s) ==
    LET id == osip_call_id_parse(s)
        cs == osip_cseq_parse(s)
        Ack(c) == [c EXCEPT !.method = AckWord]
        Invite(c) == [c EXCEPT !.method = InviteWord]
    IN  /\ id.ok /\ id.v.number # << >> => osip_call_id_match(id.v, osip_call_id_clone(id.v).v)
        /\ cs.ok => /\ osip_cseq_match(cs.v, osip_cseq_clone(cs.v).v)
                    /\ osip_cseq_match(Ack(cs.v), Invite(cs.v)) /\ osip_cseq_match(Invite(cs.v), Ack(cs.v))
                    /\ osip_cseq_match(cs.v, Ack(cs.v)) <=> cs.v.method \in {InviteWord, AckWord}
=============================================================================
