----------------------------- MODULE SdpMessage -----------------------------
(***************************************************************************)
(* The session descriptions of oSIP (sdp_message.c, sdp_accessor.c), which *)
(* the engine builds in createLocalSdp and reads when a call is answered:  *)
(* the accessors, the writer sdp_message_to_str and the parser.            *)
(*                                                                         *)
(* A text is a sequence of lines [h, w]: the letter before '=' and the     *)
(* words of the value.  A line without '=' is "junk", an empty line is     *)
(* "blank"; a line whose value is empty or lacks a mandatory word has      *)
(* w = << >>.  A description keeps, for the session and for every media,   *)
(* the values of each letter in order; a letter that the code stores in a  *)
(* single pointer has at most one.  Absent optional words are Null.        *)
(***************************************************************************)
EXTENDS Naturals, Integers, Sequences, SequencesExt, FiniteSetsExt

Null == "null"

-----------------------------------------------------------------------------
(* osip_list.c.  Positions start from 0, as in the code. *)

osip_list_size(li) == Len(li)

osip_list_eol(li, i) == i >= Len(li)

osip_list_add(li, el, pos) ==
    IF li = << >> \/ pos = -1 \/ pos >= Len(li) THEN Append(li, el)
    ELSE InsertAt(li, pos + 1, el)

osip_list_remove(li, pos) ==
    IF pos < 0 \/ pos >= Len(li) THEN li ELSE RemoveAt(li, pos + 1)

-----------------------------------------------------------------------------
(* Descriptions. *)

SessionLetters == {"v", "o", "s", "i", "u", "e", "p", "c", "b", "z", "k", "a"}
MediaLetters   == {"m", "i", "c", "b", "k", "a"}

sdp_message_init ==
    [session |-> [h \in SessionLetters |-> << >>], t |-> << >>, medias |-> << >>]

sdp_media_init(m) == [h \in MediaLetters |-> IF h = "m" THEN <<m>> ELSE << >>]

sdp_time_descr_init(t) == [t |-> t, r |-> << >>]

\* The letters that are lists: in the session and in a media description.
SessionLists == {"e", "p", "b", "a"}
MediaLists   == {"c", "b", "a"}

\* A value stored in a section: lists grow, a pointer is overwritten.
Stored(section, h, x, lists) ==
    [section EXCEPT ![h] = IF h \in lists THEN osip_list_add(@, x, -1) ELSE <<x>>]

\* The place of a value: pos_media = -1 is the session.
At(sdp, pos_media, h, x) ==
    IF pos_media = -1
    THEN [sdp EXCEPT !.session = Stored(@, h, x, SessionLists)]
    ELSE [sdp EXCEPT !.medias[pos_media + 1] = Stored(@, h, x, MediaLists)]

-----------------------------------------------------------------------------
(* Values and the words they are written with. *)

\* The words that are there: absent ones are left out.
Present(x) == SelectSeq(x, LAMBDA y : y # Null)

\* An address with a ttl and an integer, which are for multicast.
sdp_append_connection(x) == [h |-> "c", w |-> Present(x)]

sdp_append_bandwidth(x) == [h |-> "b", w |-> x]

\* A type and, with it, the key.
sdp_append_key(x) == [h |-> "k", w |-> Present(x)]

\* A name and, with it, the value.
sdp_append_attribute(x) == [h |-> "a", w |-> Present(x)]

sdp_append(h, x) == CASE h = "c" -> sdp_append_connection(x)
                      [] h = "b" -> sdp_append_bandwidth(x)
                      [] h = "k" -> sdp_append_key(x)
                      [] h = "a" -> sdp_append_attribute(x)
                      [] OTHER -> [h |-> h, w |-> x]

\* The parser reads the words from the left; missing ones are Null.
Words(w, count) == [n \in 1 .. count |-> IF n <= Len(w) THEN w[n] ELSE Null]

-----------------------------------------------------------------------------
(* sdp_message_to_str. *)

Lines(section, h) == [n \in 1 .. Len(section[h]) |-> sdp_append(h, section[h][n])]

InLetters(section, order) == FlattenSeq([n \in 1 .. Len(order) |-> Lines(section, order[n])])

sdp_append_media(m) == InLetters(m, <<"m", "i", "c", "b", "k", "a">>)

sdp_append_time_descr(td) ==
    <<[h |-> "t", w |-> td.t]>> \o [n \in 1 .. Len(td.r) |-> [h |-> "r", w |-> td.r[n]]]

\* The lines before the times, and those after them.
SessionHead(sdp) == InLetters(sdp.session, <<"v", "o", "s", "i", "u", "e", "p", "c", "b">>)
SessionTail(sdp) == InLetters(sdp.session, <<"z", "k", "a">>)

\* The empty sequence stands for the result -1.
sdp_message_to_str(sdp) ==
    IF sdp.session["v"] = << >> \/ sdp.session["o"] = << >> THEN << >>
    ELSE SessionHead(sdp)
         \o FlattenSeq([n \in 1 .. Len(sdp.t) |-> sdp_append_time_descr(sdp.t[n])])
         \o SessionTail(sdp)
         \o FlattenSeq([n \in 1 .. Len(sdp.medias) |-> sdp_append_media(sdp.medias[n])])

-----------------------------------------------------------------------------
(* sdp_message_parse.  Each stage is one call of a parse function: hit is  *)
(* the stage after a line of its letter, miss the stage after any other    *)
(* line (Refused: the letter is mandatory, Finished: the end of the code). *)

Refused  == 0
Finished == 30

Stage(h, hit, miss) == [h |-> h, hit |-> hit, miss |-> miss]

\* Stages 1 to 11 lead up to the mandatory t=, 12 to 15 read the further times.
SessionStages ==
    << Stage("v", 2, Refused), Stage("s", 3, 3), Stage("o", 4, Refused),
       Stage("s", 5, 5), Stage("i", 6, 6), Stage("u", 7, 7), Stage("e", 7, 8),
       Stage("p", 8, 9), Stage("c", 10, 10), Stage("b", 10, 11),
       Stage("t", 12, Refused), Stage("r", 12, 13), Stage("t", 14, 14),
       Stage("r", 14, 15), Stage("t", 14, 16), Stage("z", 17, 17),
       Stage("k", 18, 18), Stage("a", 18, 19) >>

\* 19 to 24 are the loop over the media.  When no m= follows (19 misses), the
\* rest of that round is still run once (25 to 29).
MediaStages ==
    << Stage("m", 20, 25), Stage("i", 21, 21), Stage("c", 21, 22),
       Stage("b", 22, 23), Stage("k", 24, 24), Stage("a", 24, 19),
       Stage("i", 26, 26), Stage("c", 26, 27), Stage("b", 27, 28),
       Stage("k", 29, 29), Stage("a", 29, Finished) >>

Stages == SessionStages \o MediaStages

\* The parse functions, each with the words of its line.  i=, c=, b=, k= and a=
\* go to the last media, to the session when there is none.
LastMedia(sdp) == osip_list_size(sdp.medias) - 1

sdp_message_parse_v(sdp, w) == At(sdp, -1, "v", w)
sdp_message_parse_o(sdp, w) == At(sdp, -1, "o", w)
sdp_message_parse_s(sdp, w) == At(sdp, -1, "s", w)
sdp_message_parse_i(sdp, w) == At(sdp, LastMedia(sdp), "i", w)
sdp_message_parse_u(sdp, w) == At(sdp, -1, "u", w)
sdp_message_parse_e(sdp, w) == At(sdp, -1, "e", w)
sdp_message_parse_p(sdp, w) == At(sdp, -1, "p", w)

\* Faulty variant of sdp_message_parse_c: the session's address is overwritten.
sdp_message_parse_c_session(sdp, w) == At(sdp, -1, "c", Words(w, 3))

sdp_message_parse_c(sdp, w) == At(sdp, LastMedia(sdp), "c", Words(w, 3))
sdp_message_parse_b(sdp, w) == At(sdp, LastMedia(sdp), "b", w)

sdp_message_parse_t(sdp, w) ==
    [sdp EXCEPT !.t = osip_list_add(@, sdp_time_descr_init(w), -1)]

\* r= belongs to the last t=.
sdp_message_parse_r(sdp, w) == [sdp EXCEPT !.t[Len(sdp.t)].r = osip_list_add(@, w, -1)]

sdp_message_parse_z(sdp, w) == At(sdp, -1, "z", w)
sdp_message_parse_k(sdp, w) == At(sdp, LastMedia(sdp), "k", Words(w, 2))
sdp_message_parse_a(sdp, w) == At(sdp, LastMedia(sdp), "a", Words(w, 2))

sdp_message_parse_m(sdp, w) ==
    [sdp EXCEPT !.medias = osip_list_add(@, sdp_media_init(w), -1)]

ParseLine(sdp, h, w) ==
    CASE h = "v" -> sdp_message_parse_v(sdp, w) [] h = "o" -> sdp_message_parse_o(sdp, w)
      [] h = "s" -> sdp_message_parse_s(sdp, w) [] h = "i" -> sdp_message_parse_i(sdp, w)
      [] h = "u" -> sdp_message_parse_u(sdp, w) [] h = "e" -> sdp_message_parse_e(sdp, w)
      [] h = "p" -> sdp_message_parse_p(sdp, w) [] h = "c" -> sdp_message_parse_c(sdp, w)
      [] h = "b" -> sdp_message_parse_b(sdp, w) [] h = "t" -> sdp_message_parse_t(sdp, w)
      [] h = "r" -> sdp_message_parse_r(sdp, w) [] h = "z" -> sdp_message_parse_z(sdp, w)
      [] h = "k" -> sdp_message_parse_k(sdp, w) [] h = "a" -> sdp_message_parse_a(sdp, w)
      [] h = "m" -> sdp_message_parse_m(sdp, w)

\* The search for '=' runs over lines that have none.
NextEqual(text, pos) ==
    LET after == {n \in pos .. Len(text) : text[n].h \notin {"junk", "blank"}}
    IN  IF after = {} THEN 0 ELSE Min(after)

Failed == [ok |-> FALSE, sdp |-> sdp_message_init]

RECURSIVE Run(_, _, _, _)
Run(text, pos, stage, sdp) ==
    IF stage = Refused THEN Failed
    ELSE IF stage = Finished THEN [ok |-> TRUE, sdp |-> sdp]
    ELSE IF stage > 11 /\ (pos > Len(text) \/ text[pos].h = "blank")
    THEN [ok |-> TRUE, sdp |-> sdp]
    ELSE LET line == NextEqual(text, pos)
             st   == Stages[stage]
         IN  IF line = 0 THEN Failed
             ELSE IF text[line].h # st.h THEN Run(text, pos, st.miss, sdp)
             ELSE IF text[line].w = << >> THEN Failed
             ELSE Run(text, line + 1, st.hit, ParseLine(sdp, st.h, text[line].w))

sdp_message_parse(text) == Run(text, 1, 1, sdp_message_init)

\* sdp_message_clone.
sdp_message_clone(sdp) ==
    LET body == sdp_message_to_str(sdp)
    IN  IF body = << >> THEN Failed ELSE sdp_message_parse(body)

-----------------------------------------------------------------------------
(* sdp_accessor.c.  The result is the description after the call; a call   *)
(* that returns -1 leaves it as it is.                                     *)

HasMedia(sdp, pos_media) == pos_media = -1 \/ pos_media < osip_list_size(sdp.medias)

InMedia(sdp, pos_media, h, x) ==
    IF HasMedia(sdp, pos_media) THEN At(sdp, pos_media, h, x) ELSE sdp

sdp_message_v_version_set(sdp, x) == At(sdp, -1, "v", x)
sdp_message_o_origin_set(sdp, x)  == At(sdp, -1, "o", x)
sdp_message_s_name_set(sdp, x)    == At(sdp, -1, "s", x)
sdp_message_i_info_set(sdp, pos_media, x) == InMedia(sdp, pos_media, "i", x)
sdp_message_u_uri_set(sdp, x)     == At(sdp, -1, "u", x)
sdp_message_e_email_add(sdp, x)   == At(sdp, -1, "e", x)
sdp_message_p_phone_add(sdp, x)   == At(sdp, -1, "p", x)
sdp_message_c_connection_add(sdp, pos_media, x) == InMedia(sdp, pos_media, "c", x)
sdp_message_b_bandwidth_add(sdp, pos_media, x)  == InMedia(sdp, pos_media, "b", x)
sdp_message_z_adjustments_set(sdp, x) == At(sdp, -1, "z", x)
sdp_message_k_key_set(sdp, pos_media, x) == InMedia(sdp, pos_media, "k", x)
sdp_message_a_attribute_add(sdp, pos_media, x) == InMedia(sdp, pos_media, "a", x)

sdp_message_m_media_add(sdp, m) ==
    [sdp EXCEPT !.medias = osip_list_add(@, sdp_media_init(m), -1)]

sdp_message_t_time_descr_add(sdp, t) ==
    [sdp EXCEPT !.t = osip_list_add(@, sdp_time_descr_init(t), -1)]

sdp_message_r_repeat_add(sdp, pos, x) ==
    IF osip_list_eol(sdp.t, pos) THEN sdp
    ELSE [sdp EXCEPT !.t[pos + 1].r = osip_list_add(@, x, -1)]

\* An m= value is its port followed by the payloads.
sdp_message_m_payload_add(sdp, pos_media, x) ==
    IF osip_list_eol(sdp.medias, pos_media) THEN sdp
    ELSE [sdp EXCEPT !.medias[pos_media + 1]["m"][1] = osip_list_add(@, x, -1)]

sdp_message_m_payload_del(sdp, pos_media, pos) ==
    IF osip_list_eol(sdp.medias, pos_media) THEN sdp
    ELSE [sdp EXCEPT !.medias[pos_media + 1]["m"][1] = osip_list_remove(@, pos + 1)]

sdp_message_m_port_set(sdp, pos_media, port) ==
    IF osip_list_eol(sdp.medias, pos_media) THEN sdp
    ELSE [sdp EXCEPT !.medias[pos_media + 1]["m"][1][1] = port]

\* Every attribute of that name goes.
sdp_message_a_attribute_del(sdp, pos_media, name) ==
    LET Kept(s) == SelectSeq(s, LAMBDA x : x[1] # name)
    IN  IF ~HasMedia(sdp, pos_media) THEN sdp
        ELSE IF pos_media = -1 THEN [sdp EXCEPT !.session["a"] = Kept(@)]
        ELSE [sdp EXCEPT !.medias[pos_media + 1]["a"] = Kept(@)]

-----------------------------------------------------------------------------
(* What a description should be, stated without the parser. *)

\* RFC 2327's order of the lines, as a relation between neighbours.
SessionRank == <<"v", "o", "s", "i", "u", "e", "p", "c", "b", "t", "r", "z", "k", "a", "m">>
MediaRank   == <<"m", "i", "c", "b", "k", "a">>

RankOf(order, h) == CHOOSE n \in 1 .. Len(order) : order[n] = h

Follows(order, many, h, g) ==
    /\ RankOf(order, g) > RankOf(order, h) \/ (g = h /\ h \in many) \/ <<h, g>> = <<"r", "t">>
    /\ g = "r" => h \in {"t", "r"}

\* A line of letter h may follow the text.
Neighbours(text, h) ==
    IF \E k \in 1 .. Len(text) : text[k].h = "m"
    THEN h = "m" \/ (h \in MediaLetters /\ Last(text).h \in MediaLetters
                     /\ Follows(MediaRank, MediaLists, Last(text).h, h))
    ELSE Last(text).h \in Range(SessionRank)
         /\ Follows(SessionRank, {"e", "p", "b", "t", "r", "a"}, Last(text).h, h)

InOrder(text) ==
    /\ Len(text) >= 3 /\ text[1].h = "v" /\ text[2].h = "o"
    /\ \E n \in 1 .. Len(text) : text[n].h = "t"
    /\ \A n \in 1 .. Len(text) : text[n].h \in Range(SessionRank) /\ text[n].w # << >>
    /\ \A n \in 1 .. Len(text) - 1 : Neighbours(SubSeq(text, 1, n), text[n + 1].h)

\* A description is whole when it has what the parser insists on, and an
\* integer only beside a ttl.
Whole(sdp) ==
    LET Plain(c) == c[2] # Null \/ c[3] = Null
    IN  /\ sdp.session["v"] # << >> /\ sdp.session["o"] # << >> /\ sdp.t # << >>
        /\ \A n \in 1 .. Len(sdp.session["c"]) : Plain(sdp.session["c"][n])
        /\ \A k \in 1 .. Len(sdp.medias) : \A n \in 1 .. Len(sdp.medias[k]["c"]) :
              Plain(sdp.medias[k]["c"][n])

\* A whole description survives being written and read again, whatever calls
\* built it: every value returns to its letter, its media and its place.
CloneIsFaithful(sdp) ==
    Whole(sdp) => sdp_message_clone(sdp) = [ok |-> TRUE, sdp |-> sdp]

\* A text in the order of the RFC is accepted and loses no line; no other text
\* makes the parser invent one, or use one twice.
TextIsKept(text) ==
    LET got == sdp_message_parse(text)
        out == sdp_message_to_str(got.sdp)
        Count(s, x) == Len(SelectSeq(s, LAMBDA y : y = x))
    IN  /\ InOrder(text) => got.ok /\ out = text
        /\ got.ok => \A n \in 1 .. Len(out) : Count(out, out[n]) <= Count(text, out[n])
=============================================================================
