-------------------------------- MODULE Texts --------------------------------
(***************************************************************************)
(* The inputs over which the pure functions of the phone and its libraries *)
(* are checked: the samples of the codecs, session descriptions built by   *)
(* calls of the accessors or read from a text, URIs, addresses, Vias and   *)
(* comma separated header values.  The one variable is the input at hand;  *)
(* every action makes it a little larger, so that the inputs up to the     *)
(* named bounds are all met.                                               *)
(***************************************************************************)
EXTENDS RtpCodec, SdpMessage, SipHeaders, SipLines, SipMessage, SipAuth

CONSTANTS
    Payloads,      \* values of rtp_payload
    SampleStep,    \* every SampleStep-th sample is tried
    MaxCalls,      \* accessor calls on one description
    MaxLines,      \* lines of a text of SDP
    MaxTokens,     \* tokens added to a URI, an address or a Via
    MaxValue,      \* tokens of a comma separated value
    MaxHeaders,    \* lines of a packet
    MaxEdits,      \* calls on a message
    MaxItems       \* items of a challenge

VARIABLE work

-----------------------------------------------------------------------------
(* Samples. *)

Sample == {[kind |-> "sample", payload |-> p, pcm |-> -32768] : p \in Payloads}

NextSample ==
    /\ work.kind = "sample" /\ work.pcm + SampleStep <= 32767
    /\ work' = [work EXCEPT !.pcm = @ + SampleStep]

-----------------------------------------------------------------------------
(* Descriptions and texts of SDP. *)

\* What createLocalSdp starts with: version, origin and times.
Fresh == sdp_message_t_time_descr_add(
            sdp_message_o_origin_set(sdp_message_v_version_set(sdp_message_init, <<"0">>), <<"me">>),
            <<"0">>)

Descriptions == {[kind |-> "sdp", sdp |-> Fresh, size |-> 0]}

Connections == {<<"ip", Null, Null>>, <<"ip", "7", Null>>, <<"ip", "7", "2">>}
Pairs       == {<<"x", Null>>, <<"x", "1">>, <<"y", "1">>}

Call(sdp) ==
    /\ work.size < MaxCalls
    /\ work' = [work EXCEPT !.sdp = sdp, !.size = @ + 1]

Describe ==
    /\ work.kind = "sdp"
    /\ \/ Call(sdp_message_s_name_set(work.sdp, <<"x">>))
       \/ Call(sdp_message_u_uri_set(work.sdp, <<"x">>))
       \/ Call(sdp_message_z_adjustments_set(work.sdp, <<"x">>))
       \/ Call(sdp_message_e_email_add(work.sdp, <<"x">>))
       \/ Call(sdp_message_p_phone_add(work.sdp, <<"x">>))
       \/ \E pos \in {-1, 0, 1} :
             \/ Call(sdp_message_i_info_set(work.sdp, pos, <<"x">>))
             \/ Call(sdp_message_b_bandwidth_add(work.sdp, pos, <<"x">>))
             \/ \E x \in Connections : Call(sdp_message_c_connection_add(work.sdp, pos, x))
             \/ \E x \in Pairs : Call(sdp_message_k_key_set(work.sdp, pos, x))
             \/ \E x \in Pairs : Call(sdp_message_a_attribute_add(work.sdp, pos, x))
       \/ Call(sdp_message_m_media_add(work.sdp, <<"7078", "0">>))
       \/ Call(sdp_message_t_time_descr_add(work.sdp, <<"1">>))
       \/ \E pos \in {0, 1} : Call(sdp_message_r_repeat_add(work.sdp, pos, <<"7d">>))
       \/ \E pos \in {0, 1} : Call(sdp_message_m_payload_add(work.sdp, pos, "8"))
       \/ \E pos, pt \in {0, 1} : Call(sdp_message_m_payload_del(work.sdp, pos, pt))
       \/ \E pos \in {0, 1} : Call(sdp_message_m_port_set(work.sdp, pos, "0"))
       \/ \E pos \in {-1, 0, 1} : Call(sdp_message_a_attribute_del(work.sdp, pos, "x"))

Line(h) == [h |-> h, w |-> IF h \in {"c", "a", "k"} THEN <<"x", "1">> ELSE <<"x">>]

Texts0 == {[kind |-> "text", text |-> <<Line("v")>>, slip |-> FALSE]}

\* One line may come out of its order, be empty or be no line at all.
AddLine ==
    /\ work.kind = "text" /\ Len(work.text) < MaxLines
    /\ \E h \in Range(SessionRank) :
          \/ work' = [work EXCEPT !.text = Append(@, Line(h))]
             /\ Neighbours(work.text, h)
          \/ ~work.slip /\ work' = [work EXCEPT !.text = Append(@, Line(h)), !.slip = TRUE]
          \/ ~work.slip /\ work' = [work EXCEPT !.text = Append(@, [h |-> h, w |-> << >>]), !.slip = TRUE]
    \/ /\ work.kind = "text" /\ Len(work.text) < MaxLines /\ ~work.slip
       /\ \E h \in {"junk", "blank"} :
             work' = [work EXCEPT !.text = Append(@, [h |-> h, w |-> << >>]), !.slip = TRUE]

-----------------------------------------------------------------------------
(* URIs, addresses and Vias. *)

Word == <<"x">>

Uris == {[kind |-> "uri", size |-> 0,
          uri |-> [osip_uri_init EXCEPT !.scheme = <<"sip">>, !.host = h]] :
            h \in {Word, <<"x", ":", "x">>}}

Chars == {"x", "@", ":", ";", "?", "=", "&", "%"}

Grow(u) ==
    /\ work.size < MaxTokens
    /\ work' = [work EXCEPT !.uri = u, !.size = @ + 1]

GrowUri ==
    /\ work.kind = "uri"
    /\ LET u == work.uri IN
       \/ \E c \in Chars : Grow([u EXCEPT !.username = Append(@, c)])
       \/ \E c \in Chars : u.username # << >> /\ Grow([u EXCEPT !.password = Append(@, c)])
       \/ u.port = << >> /\ Grow([u EXCEPT !.port = Word])
       \/ \E c \in Chars : Grow([u EXCEPT !.url_params = Append(@, <<<<c>>, << >>>>)])
       \/ \E c \in Chars : \E n \in 1 .. Len(u.url_params) :
             Grow([u EXCEPT !.url_params[n][2] = Append(@, c)])
       \/ \E c \in Chars : Grow([u EXCEPT !.url_headers = Append(@, <<<<c>>, Word>>)])
       \/ \E c \in Chars : \E n \in 1 .. Len(u.url_headers) :
             Grow([u EXCEPT !.url_headers[n][2] = Append(@, c)])

Params == UNION {[1 .. n -> {Word, <<"y">>} \X {<< >>, <<"x">>, <<"y">>, <<"q", ":", "q">>}] : n \in 0 .. 2}

SomeUris ==
    {osip_uri_parse(s).v : s \in
        {<<"sip", ":", "x">>, <<"sip", ":", "x", "@", "y">>, <<"sip", ":", "[", "x", ":", "]", ":", "y">>,
         <<"sip", ":", "x", "@", "y", ";", "x", "=", "y", "?", "x", "=", "y">>}}

DisplayNames == {<< >>, Word, <<"x", " ", "y">>, <<"q", "q">>, <<"q", "<", ">", "q">>,
          <<"q", "x", "\\", "q", ";", "q">>, <<"q", ",", "@", "q">>}

Headers0 ==
    {[kind |-> "address", address |-> [displayname |-> n, url |-> u, gen_params |-> << >>]] :
        n \in DisplayNames, u \in SomeUris}
    \cup {[kind |-> "via", via |-> [version |-> Word, protocol |-> Word, host |-> h, port |-> p,
                                    comment |-> c, via_params |-> << >>]] :
            h \in {Word, <<"x", ":", "x">>}, p \in {<< >>, Word}, c \in {<< >>, Word}}

AddParam ==
    \/ /\ work.kind = "address" /\ work.address.gen_params = << >>
       /\ \E ps \in Params : work' = [work EXCEPT !.address.gen_params = ps]
    \/ /\ work.kind = "via" /\ work.via.via_params = << >>
       /\ \E ps \in Params : work' = [work EXCEPT !.via.via_params = ps]

-----------------------------------------------------------------------------
(* Comma separated values. *)

Values0 == {[kind |-> "value", value |-> << >>], [kind |-> "parts", value |-> << >>]}

AddToken ==
    /\ work.kind = "value" /\ Len(work.value) < MaxValue
    /\ \E c \in {"x", ",", "q", "\\", " "} : work' = [work EXCEPT !.value = Append(@, c)]

\* Texts with no blank at their ends, as msg_headers_parse hands them on.
AddPart ==
    /\ work.kind = "parts" /\ Len(work.value) < MaxValue - 1
    /\ \E c \in {"x", "@", " ", "/", ";", "=", "<", ">"} :
          /\ c # " " \/ work.value # << >>
          /\ work' = [work EXCEPT !.value = Append(@, c)]

-----------------------------------------------------------------------------
(* Packets as texts, and packets and messages as structures. *)

Lines0 ==
    {[kind |-> "lines", value |-> << >>]}
    \cup {[kind |-> "start", value |-> v] : v \in {<< >>, <<"SIP/", " ">>, <<"x", " ", "sip", ":">>}}

\* "nl" stands for the line end, which is the same throughout a packet.
AddLetter ==
    \/ /\ work.kind = "lines" /\ Len(work.value) < MaxValue
       /\ \E c \in {"x", ":", " ", "tab", "nl"} : work' = [work EXCEPT !.value = Append(@, c)]
    \/ /\ work.kind = "start" /\ Len(work.value) < MaxValue - 1
       /\ \E c \in {"x", " ", "200", "0", "sip", ":"} : work' = [work EXCEPT !.value = Append(@, c)]

InPacket(value, eol) == FlattenSeq([n \in 1 .. Len(value) |-> IF value[n] = "nl" THEN eol ELSE <<value[n]>>])

Messages0 ==
    {[kind |-> "packet", packet |-> [start |-> s, lines |-> << >>, body |-> NoBody]] :
        s \in {"request", "bad"}}
    \cup {[kind |-> "message", size |-> 0, sip |-> [osip_message_init EXCEPT !.start = s]] :
        s \in {"request", None}}

\* One header of each class, and a short form.
ReceiveLine ==
    /\ work.kind = "packet" /\ Len(work.packet.lines) < MaxHeaders /\ work.packet.body = NoBody
    /\ \E n \in {"from", "f", "content-type", "mime-version", "via", "allow", "accept", "subject"},
          v \in {"x", "bad", None} :
          work' = [work EXCEPT !.packet.lines = Append(@, [n |-> n, v |-> v])]

Line2(n, v) == [n |-> n, v |-> v]

\* A body after the headers that announce it.
ReceiveBody ==
    /\ work.kind = "packet" /\ work.packet.lines = << >>
    /\ \E type \in {None, "sdp", "text", "multipart", "multipart without boundary"},
          length \in {None, "0", "1", "3"},
          body \in {<<"d", "d">>, <<"sep", "h", "d", "sep", "h", "d", "d", "end">>,
                    <<"sep", "h", "d", "end">>, <<"sep", "h", "end">>, <<"sep", "d", "end">>,
                    <<"sep", "h", "d">>} :
          work' = [work EXCEPT !.packet.lines = <<Line2("content-type", type), Line2("content-length", length)>>,
                               !.packet.body = body]

Edit(sip) ==
    /\ work.size < MaxEdits
    /\ work' = [work EXCEPT !.sip = sip, !.size = @ + 1]

Compose ==
    /\ work.kind = "message"
    /\ LET sip == work.sip IN
       \/ \E n \in {"from", "cseq", "mime-version", "via", "allow", "authorization"}, v \in {"x", "y"} :
             Edit(osip_message_set__header(sip, n, v).sip)
       \/ \E v \in {"sdp", "torn", "multipart"} : Edit(osip_message_set__header(sip, "content-type", v).sip)
       \/ \E v \in {"x", None} : Edit(osip_message_set__header(sip, "accept", v).sip)
       \/ \E v \in {"x", "y"} : Edit(osip_message_replace_header(sip, "subject", v))
       \/ \E d \in {<< >>, <<"d", "d">>} : Edit(osip_message_set_body(sip, d))
       \/ sip.message_property # 1 /\ Edit(osip_message_to_str(sip).sip)
       \/ sip.one["cseq"] = "x" /\ sip.many["via"] # << >> /\ osip_message_clone(sip).ok
          /\ Edit(Retouched(osip_message_clone(sip).sip))

\* The engine's own parser takes a packet: the message goes on from there.
Take ==
    /\ work.kind = "packet" /\ osip_message_parse(work.packet).ok
    /\ work' = [kind |-> "message", size |-> MaxEdits - 1, sip |-> osip_message_parse(work.packet).sip]

-----------------------------------------------------------------------------
(* Challenges and credentials. *)

Item(n, q, v) == [n |-> n, q |-> q, v |-> v]

Challenges0 == {[kind |-> "challenge", items |-> << >>]}

\* The fields of a challenge, an unknown one that is long and one that is short.
AddItem ==
    /\ work.kind = "challenge" /\ Len(work.items) < MaxItems
    /\ \E i \in {Item("realm", TRUE, "some one"), Item("nonce", TRUE, "1"), Item("opaque", TRUE, ""),
                 Item("opaque", TRUE, "1"), Item("stale", FALSE, "1"), Item("algorithm", FALSE, "some one"),
                 Item("qop", TRUE, "some one"), Item("qop", FALSE, "some one"),
                 Item("extension", TRUE, "1"), Item("extension", FALSE, "1"), Item("x1", FALSE, "1")} :
          work' = [work EXCEPT !.items = Append(@, i)]

\* __eXosip_create_authorization_header: these fields always, the others with
\* qop or when the challenge had them.  nc has eight digits and qop is "auth".
Always == {"username", "realm", "nonce", "uri", "response"}

Credentials0 ==
    {[kind |-> "credentials",
      got |-> [n \in Names(authorization) |-> IF n \notin Always \cup some THEN Absent
                                         ELSE IF n \in {"qop", "nc"} THEN "some one" ELSE v]] :
        some \in SUBSET {"algorithm", "opaque", "cnonce", "nc", "qop"}, v \in {"1", "some one"}}
    \cup {[kind |-> "info", got |-> [n \in Names(authentication_info) |-> IF n \in some THEN "some one" ELSE Absent]] :
        some \in SUBSET Names(authentication_info) \ {{}}}

-----------------------------------------------------------------------------
TextsInit == work \in Sample \cup Descriptions \cup Texts0 \cup Uris \cup Headers0 \cup Values0 \cup Messages0
             \cup Challenges0 \cup Credentials0 \cup Lines0

TextsNext == NextSample \/ Describe \/ AddLine \/ GrowUri \/ AddParam \/ AddToken \/ AddPart
             \/ ReceiveLine \/ ReceiveBody \/ Compose \/ Take \/ AddItem \/ AddLetter

-----------------------------------------------------------------------------
\* What the far end of a call hears is what was said, to within a 32nd; a
\* second pass over a gateway loses nothing more; louder stays louder.  The
\* clipped extremes of sound_conv.c are no exception.
HeardAsSaid ==
    work.kind = "sample" =>
        /\ Close(work.payload, work.pcm)
        /\ Stable(work.payload, work.pcm)
        /\ Ordered(work.payload, work.pcm)

\* sdp_message_parse takes every line of a text in the order of the RFC and
\* invents nothing for the others; a description that calls of the accessors
\* built is the same after sdp_message_clone, which writes it and reads it again.
SdpKept ==
    /\ work.kind = "sdp" => CloneIsFaithful(work.sdp)
    /\ work.kind = "text" => TextIsKept(work.text)

\* URIs, addresses, Vias and the other headers are read back from what was
\* written, their copies match them (a repeated request finds its transaction, an
\* ACK its INVITE), a value is split at the commas outside quotes only, and a
\* challenge is read in whatever order its items come.
HeadersKept ==
    /\ work.kind = "uri" => UriSurvives(work.uri)
    /\ work.kind = "address" => AddressSurvives(work.address) /\ AddressForms(work.address)
    /\ work.kind = "via" => ViaSurvives(work.via) /\ osip_via_match(work.via, osip_via_clone(work.via).v)
    /\ work.kind = "parts" /\ work.value # << >> /\ Last(work.value) # " " =>
          PartsSurvive(work.value) /\ ElementForms(work.value) /\ CopiesMatch(work.value)
    /\ work.kind = "value" => SplitsAtCommas(work.value)
    /\ work.kind = "challenge" => ChallengeIsRead(work.items)
    /\ work.kind = "credentials" => CredentialsSurvive(work.got)
    /\ work.kind = "info" => InfoSurvives(work.got)

\* Whatever ends its lines and however they are folded, a packet is cut into its
\* header lines (osip_util_replace_all_lws, msg_headers_parse), loses no good one
\* and is not taken with a strict line that is bad; a start line and a message are
\* written as they are, also after eXosip edited a copy of one that was written
\* before, and are read again as they were.
MessageKept ==
    /\ work.kind = "lines" =>
          \A eol \in {<<"cr", "lf">>, <<"cr">>, <<"lf">>} : LinesAreRead(InPacket(work.value, eol), eol)
    /\ work.kind = "start" => StartSurvives(work.value)
    /\ work.kind = "packet" => TakesTheGoodLines(work.packet)
    /\ work.kind = "message" => WritesWhatItIs(work.sip) /\ ReadsWhatItWrote(work.sip) /\ CopyIsTheSame(work.sip)
=============================================================================
