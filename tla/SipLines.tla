------------------------------- MODULE SipLines -------------------------------
(***************************************************************************)
(* How oSIP cuts a packet into its start line and its header lines, and    *)
(* how it joins folded lines before (osip_message_parse.c), and how it     *)
(* writes a start line (osip_message_to_str.c).                            *)
(*                                                                         *)
(* Texts are those of SipText, with the tokens "cr", "lf" and "tab"; the   *)
(* token "SIP/" begins a version, "200" and "0" are numbers.               *)
(***************************************************************************)
EXTENDS SipText

Nul == "nul"
CharAt(s, n) == IF n \in 1 .. Len(s) THEN s[n] ELSE Nul

LineEnds == {"cr", "lf"}
Blanks   == {" ", "tab"}

\* osip_clrncpy.
osip_clrncpy(s) ==
    LET solid == {n \in 1 .. Len(s) : s[n] \notin LineEnds \cup Blanks}
    IN  IF solid = {} THEN << >> ELSE SubSeq(s, Min(solid), Max(solid))

-----------------------------------------------------------------------------
(* Folded lines. *)

\* An empty line at n ends the headers.
EmptyLine(s, n) ==
    \/ SubSeq(s, n, n + 3) = <<"cr", "lf", "cr", "lf">>
    \/ SubSeq(s, n, n + 1) \in {<<"cr", "cr">>, <<"lf", "lf">>}

\* The line that ends at n goes on behind a blank.
Folded(s, n) ==
    \/ s[n] = "cr" /\ s[n + 1] = "lf" /\ s[n + 2] \in Blanks
    \/ s[n] \in LineEnds /\ s[n + 1] \in Blanks

\* The loop of osip_util_replace_all_lws from n on.  The last three characters
\* are not looked at, nor is the one behind the blanks of a fold.
RECURSIVE ReplaceFrom(_, _)
ReplaceFrom(s, n) ==
    IF n + 3 > Len(s) \/ EmptyLine(s, n) THEN s
    ELSE IF ~Folded(s, n) THEN ReplaceFrom(s, n + 1)
    ELSE LET others == {k \in n + 2 .. Len(s) : s[k] \notin Blanks}
             stop   == IF others = {} THEN Len(s) + 1 ELSE Min(others)
         IN  ReplaceFrom([k \in 1 .. Len(s) |-> IF k \in n .. stop - 1 THEN " " ELSE s[k]], stop + 1)

osip_util_replace_all_lws(s) == ReplaceFrom(s, 1)

\* Where the line that holds from is over; 0 when it is folded or has no end.
__osip_find_next_crlf(s, from) ==
    LET ends == {n \in from .. Len(s) : s[n] \in LineEnds}
        soh  == IF s[Min(ends)] = "cr" /\ CharAt(s, Min(ends) + 1) = "lf" THEN Min(ends) + 1 ELSE Min(ends)
    IN  IF ends = {} THEN 0 ELSE IF CharAt(s, soh + 1) \in Blanks THEN 0 ELSE soh + 1

-----------------------------------------------------------------------------
(* msg_headers_parse: the lines up to the empty one, as names and values. *)

RECURSIVE HeadersFrom(_, _, _)
HeadersFrom(s, from, got) ==
    LET end   == __osip_find_next_crlf(s, from)
        colon == strchr(s, from, ":")
        last  == IF CharAt(s, end - 2) \in LineEnds THEN end - 2 ELSE end - 1
        value == IF last - colon < 2 THEN << >> ELSE osip_clrncpy(SubSeq(s, colon + 1, last - 1))
    IN  IF from > Len(s) THEN Good(got)
        ELSE IF end = 0 THEN Bad
        ELSE IF s[from] \in LineEnds THEN Good(got)
        ELSE IF colon = 0 \/ colon = from \/ end <= colon THEN Bad
        ELSE HeadersFrom(s, end, Append(got, <<osip_clrncpy(SubSeq(s, from, colon - 1)), value>>))

Headers(s) == HeadersFrom(osip_util_replace_all_lws(s), 1, << >>)

-----------------------------------------------------------------------------
(* Start lines: [method, uri, version, status, reason].  s ends with the   *)
(* line end.                                                               *)

NoStart == [method |-> << >>, uri |-> osip_uri_init, version |-> << >>, status |-> "0", reason |-> << >>]

LineEnd(s, from) == Min({n \in from .. Len(s) : s[n] \in LineEnds})

__osip_message_startline_parsereq(s) ==
    LET p2  == strchr(s, 1, " ")
        p1  == strchr(s, p2 + 2, " ")
        uri == osip_uri_parse(osip_clrncpy(SubSeq(s, p2 + 1, p1 - 1)))
        hp  == LineEnd(s, p1)
    IN  IF p2 < 2 \/ p2 + 2 > Len(s) \/ p1 = 0 THEN Bad
        ELSE IF ~uri.ok \/ hp - p1 < 2 THEN Bad
        ELSE Good([NoStart EXCEPT !.method = SubSeq(s, 1, p2 - 1), !.uri = uri.v,
                                  !.version = SubSeq(s, p1 + 1, hp - 1)])

\* sscanf skips blanks; the reason starts behind the second blank all the same.
__osip_message_startline_parseresp(s) ==
    LET statuscode   == strchr(s, 1, " ")
        reasonphrase == strchr(s, statuscode + 1, " ")
        number       == osip_clrspace(SubSeq(s, statuscode + 1, Len(s)))
        hp           == LineEnd(s, reasonphrase)
    IN  IF statuscode = 0 \/ reasonphrase = 0 THEN Bad
        ELSE IF CharAt(number, 1) # "200" THEN Bad
        ELSE Good([NoStart EXCEPT !.version = SubSeq(s, 1, statuscode - 1), !.status = "200",
                                  !.reason = SubSeq(s, reasonphrase + 1, hp - 1)])

__osip_message_startline_parse(s) ==
    IF CharAt(s, 1) = "SIP/" THEN __osip_message_startline_parseresp(s)
    ELSE __osip_message_startline_parsereq(s)

\* The empty text stands for the result -1.
__osip_message_startline_to_strreq(l) ==
    LET uri == osip_uri_to_str(l.uri)
    IN  IF uri = << >> THEN << >> ELSE l.method \o <<" ">> \o uri \o <<" ">> \o l.version

__osip_message_startline_to_strresp(l) == l.version \o <<" ", l.status, " ">> \o l.reason

__osip_message_startline_to_str(l) ==
    IF l.method # << >> THEN __osip_message_startline_to_strreq(l)
    ELSE IF l.status # "0" THEN __osip_message_startline_to_strresp(l) ELSE << >>

-----------------------------------------------------------------------------
(* What the reader should do. *)

\* Reference: the lines of s, whose ends are all eol, with folds as blanks, up
\* to the first empty line.
NextEnds(s, eol) == {n \in 1 .. Len(s) - Len(eol) + 1 : SubSeq(s, n, n + Len(eol) - 1) = eol}

RECURSIVE Squeezed(_)
Squeezed(s) ==
    IF Len(s) < 2 THEN s
    ELSE IF s[1] = " " /\ s[2] = " " THEN Squeezed(Tail(s)) ELSE <<s[1]>> \o Squeezed(Tail(s))

Plain(s) == Squeezed([n \in 1 .. Len(s) |-> IF s[n] \in LineEnds \cup {"tab"} THEN " " ELSE s[n]])

LinesOf(s, eol) ==
    LET ends  == {n \in NextEnds(s, eol) : CharAt(s, n + Len(eol)) \notin Blanks}
        empty == {n \in ends : n = 1 \/ n - Len(eol) \in ends}
        stop  == IF empty = {} THEN Len(s) + 1 ELSE Min(empty)
        cuts  == SelectSeq([n \in 1 .. Len(s) |-> n], LAMBDA n : n \in ends /\ n < stop)
    IN  [k \in 1 .. Len(cuts) |->
            Plain(SubSeq(s, IF k = 1 THEN 1 ELSE cuts[k - 1] + Len(eol), cuts[k] - 1))]

\* A folded line holds more than blanks.
NoBlankFold(s) ==
    \A n \in 1 .. Len(s) : s[n] \in Blanks /\ CharAt(s, n - 1) \in LineEnds =>
        \E k \in n .. Len(s) : s[k] \notin Blanks \cup LineEnds
            /\ \A j \in n .. k - 1 : s[j] \in Blanks

\* Of a packet whose lines are proper, every line is read, folded or not.
LinesAreRead(text, eol) ==
    LET s     == text \o eol \o eol
        lines == LinesOf(s, eol)
        Proper(l) == strchr(l, 1, ":") > 1 /\ l[1] # " "
        Pair(l) == LET c == strchr(l, 1, ":")
                   IN  <<osip_clrspace(SubSeq(l, 1, c - 1)), osip_clrspace(SubSeq(l, c + 1, Len(l)))>>
        got   == Headers(s)
    IN  NoBlankFold(s) /\ (\A k \in 1 .. Len(lines) : Proper(lines[k])) =>
          /\ got.ok /\ Len(got.v) = Len(lines)
          /\ \A k \in 1 .. Len(lines) :
                <<Plain(got.v[k][1]), Plain(got.v[k][2])>> = Pair(lines[k])

\* A start line that was read is written so that it reads the same.
StartSurvives(text) ==
    LET l == __osip_message_startline_parse(Append(text, "lf"))
        t == __osip_message_startline_to_str(l.v)
    IN  l.ok => t # << >> /\ __osip_message_startline_parse(t \o <<"cr", "lf">>) = l
=============================================================================
