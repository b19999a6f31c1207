------------------------------- MODULE SipText -------------------------------
(***************************************************************************)
(* How oSIP reads and writes the values of SIP headers: URIs (osip_uri.c), *)
(* addresses (osip_from.c and the headers that reuse it), Via, and the     *)
(* splitting of a value at its commas (osip_message_parse.c).              *)
(*                                                                         *)
(* A text is a sequence of tokens: the separators themselves ("q" is the   *)
(* quotation mark), a blank, the scheme "sip", words "x", "y", whose       *)
(* letters are no hexadecimal digits, and the digits Hex gives a character *)
(* in an escape, which is the token "%" followed by them.  A NULL string   *)
(* is the empty text.  A parser returns [ok, v]; v is what it has stored   *)
(* when ok holds.                                                          *)
(***************************************************************************)
EXTENDS Naturals, Integers, Sequences, SequencesExt, FiniteSetsExt

-----------------------------------------------------------------------------
(* C strings.  Positions start from 1; 0 is the pointer NULL. *)

strchr(s, from, c) ==
    LET at == {n \in from .. Len(s) : s[n] = c} IN IF at = {} THEN 0 ELSE Min(at)

next_separator(s, from, c, before) ==
    LET ind == strchr(s, from, c)
        tmp == strchr(s, from, before)
    IN  IF ind # 0 /\ (tmp = 0 \/ ind < tmp) THEN ind ELSE 0

\* A quotation mark after an odd number of backslashes is no quotation mark.
__osip_quote_find(s, from) ==
    LET slashes(n) == n - 1 - Max({from - 1} \cup {k \in from .. n - 1 : s[k] # "\\"})
        at == {n \in from .. Len(s) : s[n] = "q" /\ slashes(n) % 2 = 0}
    IN  IF at = {} THEN 0 ELSE Min(at)

\* osip_clrspace, osip_clrncpy: blanks at both ends go.
osip_clrspace(s) ==
    LET solid == {n \in 1 .. Len(s) : s[n] # " "}
    IN  IF solid = {} THEN << >> ELSE SubSeq(s, Min(solid), Max(solid))

\* The pieces of s between the positions in C, and between the tokens c.
CutAt(s, C) ==
    LET cuts == SelectSeq([n \in 1 .. Len(s) + 2 |-> n - 1], LAMBDA n : n \in C \cup {0, Len(s) + 1})
    IN  [n \in 1 .. Len(cuts) - 1 |-> SubSeq(s, cuts[n] + 1, cuts[n + 1] - 1)]

Pieces(s, c) == CutAt(s, {n \in 1 .. Len(s) : s[n] = c})

Bad == [ok |-> FALSE, v |-> << >>]
Good(v) == [ok |-> TRUE, v |-> v]

-----------------------------------------------------------------------------
(* Escapes. *)

Hex == [c \in {"@", ":", ";", "?", "=", "&", "%", "<", ">", ",", "q", " ", "[", "]"} |->
          CASE c = "@" -> "40" [] c = ":" -> "3A" [] c = ";" -> "3B" [] c = "?" -> "3F"
            [] c = "=" -> "3D" [] c = "&" -> "26" [] c = "%" -> "25" [] c = "<" -> "3C"
            [] c = ">" -> "3E" [] c = "," -> "2C" [] c = "q" -> "22" [] c = " " -> "20"
            [] c = "[" -> "5B" [] c = "]" -> "5D"]

\* The separators each part of a URI may hold as they are.
userinfo_def     == {"&", "=", ",", ";", "?"}
password_def     == {"&", "=", ","}
uri_param_def    == {":", "&", "[", "]"}
header_param_def == {"?", ":", "[", "]"}

\* Faulty variant of the next operator: "%" is left as it is.
escape_not_percent(s, def) ==
    FlattenSeq([n \in 1 .. Len(s) |->
        IF s[n] \in DOMAIN Hex \ (def \cup {"%"}) THEN <<"%", Hex[s[n]]>> ELSE <<s[n]>>])

__osip_uri_escape_nonascii_and_nondef(s, def) ==
    FlattenSeq([n \in 1 .. Len(s) |->
        IF s[n] \in DOMAIN Hex \ def THEN <<"%", Hex[s[n]]>> ELSE <<s[n]>>])

\* A "%" without digits ends the text.
__osip_uri_unescape(s) ==
    LET Step(r, c) ==
            IF r.cut THEN r
            ELSE IF r.esc
            THEN IF \E d \in DOMAIN Hex : Hex[d] = c
                 THEN [r EXCEPT !.out = Append(@, CHOOSE d \in DOMAIN Hex : Hex[d] = c),
                                !.esc = FALSE]
                 ELSE [r EXCEPT !.cut = TRUE]
            ELSE IF c = "%" THEN [r EXCEPT !.esc = TRUE]
            ELSE [r EXCEPT !.out = Append(@, c)]
    IN  FoldLeft(Step, [out |-> << >>, esc |-> FALSE, cut |-> FALSE], s).out

-----------------------------------------------------------------------------
(* Parameters: lists of pairs <<name, value>>. *)

\* The name and the value of a piece; eq is 0 when it has no "=".
NameOf(p)  == LET eq == strchr(p, 1, "=") IN IF eq = 0 THEN p ELSE SubSeq(p, 1, eq - 1)
ValueOf(p) == LET eq == strchr(p, 1, "=") IN IF eq = 0 THEN << >> ELSE SubSeq(p, eq + 1, Len(p))
HasEqual(p) == strchr(p, 1, "=") # 0

\* The pairs up to the first piece the code refuses; the earlier ones are
\* already stored when it returns -1.
Taken(pieces, Fits(_), Pair(_)) ==
    LET bad == {n \in 1 .. Len(pieces) : ~Fits(n)}
        upto == IF bad = {} THEN Len(pieces) ELSE Min(bad) - 1
    IN  [ok |-> bad = {}, v |-> [n \in 1 .. upto |-> Pair(n)]]

osip_uri_param_set(name, value) == <<osip_clrspace(name), osip_clrspace(value)>>

\* p starts with ";".  The last parameter is not unescaped.
osip_uri_parse_params(p) ==
    LET pieces  == Pieces(Tail(p), ";")
        Fits(n) == /\ NameOf(pieces[n]) # << >>
                   /\ HasEqual(pieces[n]) => ValueOf(pieces[n]) # << >>
        Plain(n, s) == IF n = Len(pieces) THEN s ELSE __osip_uri_unescape(s)
        Pair(n) == osip_uri_param_set(Plain(n, NameOf(pieces[n])), Plain(n, ValueOf(pieces[n])))
    IN  Taken(pieces, Fits, Pair)

\* h starts with "?"; only the last value may be empty.
osip_uri_parse_headers(h) ==
    LET pieces  == Pieces(Tail(h), "&")
        Fits(n) == /\ HasEqual(pieces[n])
                   /\ ValueOf(pieces[n]) # << >> \/ n = Len(pieces)
        Pair(n) == osip_uri_param_set(__osip_uri_unescape(NameOf(pieces[n])),
                                      __osip_uri_unescape(ValueOf(pieces[n])))
    IN  Taken(pieces, Fits, Pair)

\* p starts with ";".  An "=" without a value is accepted at the end, and
\* before a comma.
__osip_generic_param_parseall(p) ==
    LET pieces  == Pieces(Tail(p), ";")
        Blank(n) == LET v == osip_clrspace(ValueOf(pieces[n]))
                    IN  IF v = << >> THEN n = Len(pieces) ELSE v[1] = ","
        Fits(n) == /\ NameOf(pieces[n]) # << >>
                   /\ HasEqual(pieces[n]) => ValueOf(pieces[n]) # << >> \/ Blank(n)
        Pair(n) == osip_uri_param_set(NameOf(pieces[n]),
                                      IF Blank(n) THEN << >> ELSE ValueOf(pieces[n]))
    IN  Taken(pieces, Fits, Pair)

Written(params, def) ==
    LET Esc(s) == __osip_uri_escape_nonascii_and_nondef(s, def)
    IN  FlattenSeq([n \in 1 .. Len(params) |->
            <<";">> \o Esc(params[n][1])
            \o (IF params[n][2] = << >> THEN << >> ELSE <<"=">> \o Esc(params[n][2]))])

\* A header of a URI always has its "=".
url_headers_to_str(headers) ==
    LET Esc(s) == __osip_uri_escape_nonascii_and_nondef(s, header_param_def)
    IN  FlattenSeq([n \in 1 .. Len(headers) |->
            <<IF n = 1 THEN "?" ELSE "&">> \o Esc(headers[n][1]) \o <<"=">> \o Esc(headers[n][2])])

generic_params_to_str(params) == Written(params, DOMAIN Hex)

\* osip_uri_param_get_byname.
osip_uri_param_get_byname(params, name) ==
    LET at == {n \in 1 .. Len(params) : params[n][1] = name}
    IN  IF at = {} THEN << >> ELSE params[Min(at)]

-----------------------------------------------------------------------------
(* osip_uri.c. *)

osip_uri_init ==
    [scheme |-> << >>, username |-> << >>, password |-> << >>, host |-> << >>,
     port |-> << >>, url_params |-> << >>, url_headers |-> << >>, string |-> << >>]

MaxPort == 7

\* Where userinfo ends and the host begins: the ":" of the scheme or the "@".
HostSep(s) == LET at == strchr(s, 1, "@") IN IF at = 0 THEN strchr(s, 1, ":") ELSE at

\* The host and port in s between host and params (exclusive).
HostPort(s, host, params) ==
    LET marks  == {n \in host .. params - 1 : s[n] \in {":", "]"}}
        colon  == IF marks # {} /\ s[Max(marks)] = ":" /\ Max(marks) # host THEN Max(marks) ELSE params
        close  == {n \in host .. colon - 1 : s[n] = "]"}
        open   == {n \in host .. colon - 1 : s[n] = "["}
        first  == IF close = {} THEN host ELSE IF open = {} THEN Max(close) ELSE Min(open)
        last   == IF close = {} THEN colon ELSE Max(close)
        port   == SubSeq(s, colon + 1, params - 1)
        h      == SubSeq(s, first + 1, last - 1)
    IN  [ok   |-> /\ colon # params => port # << >> /\ Len(port) <= MaxPort
                  /\ h # << >>,
         host |-> osip_clrspace(h), port |-> osip_clrspace(port)]

osip_uri_parse(s) ==
    LET colon    == strchr(s, 1, ":")
        host     == HostSep(s)
        user     == host > colon + 1
        pw       == IF user THEN next_separator(s, colon + 1, ":", "@") ELSE 0
        username == SubSeq(s, colon + 1, (IF pw = 0 THEN host ELSE pw) - 1)
        password == SubSeq(s, pw + 1, host - 1)
        mark     == strchr(s, host, "?")
        headers  == IF mark = 0 THEN Len(s) + 1 ELSE mark
        semi     == strchr(s, host, ";")
        params   == IF semi = 0 THEN headers ELSE semi
        hp       == HostPort(s, host, params)
    IN  IF colon < 2 THEN Bad
        ELSE IF s[1] # "sip"
        THEN IF Len(s) - colon < 2 THEN Bad
             ELSE Good([osip_uri_init EXCEPT !.scheme = SubSeq(s, 1, colon - 1),
                                             !.string = SubSeq(s, colon + 1, Len(s))])
        ELSE IF user /\ (username = << >> \/ (pw # 0 /\ password = << >>)) THEN Bad
        ELSE IF params > headers \/ ~hp.ok THEN Bad
        ELSE Good([scheme      |-> SubSeq(s, 1, colon - 1),
                   username    |-> IF user THEN __osip_uri_unescape(username) ELSE << >>,
                   password    |-> IF pw # 0 THEN __osip_uri_unescape(password) ELSE << >>,
                   host        |-> hp.host,
                   port        |-> hp.port,
                   url_params  |-> IF semi = 0 THEN << >>
                                   ELSE osip_uri_parse_params(SubSeq(s, semi, headers - 1)).v,
                   url_headers |-> IF mark = 0 THEN << >>
                                   ELSE osip_uri_parse_headers(SubSeq(s, mark, Len(s))).v,
                   string      |-> << >>])

\* The empty text stands for the result -1.
osip_uri_to_str(u) ==
    LET Esc(s, def) == __osip_uri_escape_nonascii_and_nondef(s, def)
    IN  IF u.host = << >> /\ u.string = << >> THEN << >>
        ELSE IF u.string # << >> THEN u.scheme \o <<":">> \o u.string
        ELSE (IF u.scheme = << >> THEN <<"sip">> ELSE u.scheme) \o <<":">>
             \o (IF u.username = << >> THEN << >>
                 ELSE Esc(u.username, userinfo_def)
                      \o (IF u.password = << >> THEN << >> ELSE <<":">> \o Esc(u.password, password_def))
                      \o <<"@">>)
             \o (IF Contains(u.host, ":") THEN <<"[">> \o u.host \o <<"]">> ELSE u.host)
             \o (IF u.port = << >> THEN << >> ELSE <<":">> \o u.port)
             \o Written(u.url_params, uri_param_def)
             \o url_headers_to_str(u.url_headers)

\* osip_uri_clone copies field by field and needs what osip_uri_to_str needs.
osip_uri_clone(u) == IF u.host = << >> /\ u.string = << >> THEN Bad ELSE Good(u)

-----------------------------------------------------------------------------
(* osip_from.c; To, Contact, Route and Record-Route are read and written   *)
(* by the same functions.                                                  *)

osip_from_init == [displayname |-> << >>, url |-> osip_uri_init, gen_params |-> << >>]

\* The display name and where the URI starts: a token before "<", a quoted
\* text when the first quotation mark comes before "<", or no brackets at all.
NameAndStart(s) ==
    LET url    == strchr(s, 1, "<")
        quote  == strchr(s, 1, "q")
        first  == __osip_quote_find(s, 1)
        second == __osip_quote_find(s, first + 1)
        angle  == strchr(s, second + 1, "<")
    IN  IF url = 0 THEN [ok |-> TRUE, name |-> << >>, url |-> 1]
        ELSE IF quote = 0 \/ quote > url
        THEN [ok |-> TRUE, name |-> osip_clrspace(SubSeq(s, 1, url - 1)), url |-> url + 1]
        ELSE [ok |-> second # 0 /\ angle # 0, name |-> SubSeq(s, first, second), url |-> angle + 1]

\* The URI up to position end and the parameters from the ";" at semi.
AddressOf(s, name, end, semi) ==
    LET params == IF semi = 0 THEN Good(<< >>)
                  ELSE __osip_generic_param_parseall(SubSeq(s, semi, Len(s)))
        url    == osip_uri_parse(SubSeq(s, name.url, end))
    IN  IF ~name.ok \/ ~params.ok \/ end < name.url \/ ~url.ok THEN Bad
        ELSE Good([displayname |-> name.name, url |-> url.v, gen_params |-> params.v])

\* The ">" at close ends the URI, or else its first parameter or the text does.
AddressFrom(s, name, close, host) ==
    LET semi == IF close # 0 THEN strchr(s, close, ";")
                ELSE strchr(s, IF host # 0 THEN host ELSE name.url, ";")
    IN  AddressOf(s, name, IF close # 0 THEN close - 1 ELSE IF semi # 0 THEN semi - 1 ELSE Len(s), semi)

osip_from_parse(s) ==
    LET open == strchr(s, 1, "<")
        name == NameAndStart(s)
    IN  IF open # 0 /\ strchr(s, open, ">") = 0 THEN Bad
        ELSE AddressFrom(s, name, strchr(s, name.url, ">"), strchr(s, name.url, "@"))

osip_from_to_str(f) ==
    LET url == osip_uri_to_str(f.url)
    IN  IF url = << >> THEN << >>
        ELSE (IF f.displayname = << >> THEN << >> ELSE f.displayname \o <<" ">>)
             \o <<"<">> \o url \o <<">">> \o generic_params_to_str(f.gen_params)

\* The word that stands for "tag".
TagName == <<"y">>

\* osip_from_tag_match: 0 is TRUE.
osip_from_tag_match(f, g) ==
    LET tag(a) == osip_uri_param_get_byname(a.gen_params, TagName)
    IN  \/ tag(f) = << >> /\ tag(g) = << >>
        \/ tag(f) # << >> /\ tag(g) # << >> /\ tag(f)[2] # << >> /\ tag(f)[2] = tag(g)[2]

-----------------------------------------------------------------------------
(* osip_via.c: "SIP" "/" version "/" protocol, a blank, the sent-by. *)

\* What follows the protocol: the host at host, a comment from the "(" at open
\* and parameters from the ";" at semi.
SentBy(s, version, protocol, host, open, semi) ==
    LET shut     == strchr(s, host, ")")
        comment  == IF open = 0 THEN Len(s) + 1 ELSE open - 1
        params   == IF semi = 0 THEN comment ELSE semi
        read     == IF semi = 0 \/ semi >= comment THEN Good(<< >>)
                    ELSE __osip_generic_param_parseall(SubSeq(s, semi, comment - 1))
        left     == strchr(s, host, "[")
        six      == left # 0 /\ left < params
        right    == strchr(s, left, "]")
        colon    == strchr(s, IF six THEN right ELSE host, ":")
        port     == IF colon # 0 /\ colon < params THEN colon ELSE params
        h        == IF six THEN SubSeq(s, left + 1, right - 1) ELSE SubSeq(s, host + 1, port - 1)
    IN  IF \/ open # 0 /\ (shut = 0 \/ shut < open + 2)
           \/ ~read.ok
           \/ six /\ (right = 0 \/ right > params)
           \/ port # params /\ port = params - 1
           \/ h = << >>
        THEN Bad
        ELSE Good([version    |-> osip_clrspace(SubSeq(s, version + 1, protocol - 1)),
                   protocol   |-> osip_clrspace(SubSeq(s, protocol + 1, host - 1)),
                   host       |-> osip_clrspace(h),
                   port       |-> osip_clrspace(SubSeq(s, port + 1, params - 1)),
                   comment    |-> IF open = 0 THEN << >> ELSE SubSeq(s, open + 1, shut - 1),
                   via_params |-> read.v])

osip_via_parse(s) ==
    LET version  == strchr(s, 1, "/")
        protocol == strchr(s, version + 1, "/")
        near     == strchr(s, protocol + 1, " ")
        word     == {n \in protocol + 1 .. Len(s) : s[n] # " "}
        host     == IF near # protocol + 1 THEN near
                    ELSE IF word = {} THEN 0 ELSE strchr(s, Min(word) + 1, " ")
    IN  IF version = 0 \/ protocol = 0 \/ near = 0 \/ host = 0 \/ protocol = version + 1 THEN Bad
        ELSE SentBy(s, version, protocol, host, strchr(s, host, "("), strchr(s, host, ";"))

osip_via_to_str(v) ==
    IF v.host = << >> \/ v.version = << >> \/ v.protocol = << >> THEN << >>
    ELSE <<"sip", "/">> \o v.version \o <<"/">> \o v.protocol \o <<" ">>
         \o (IF Contains(v.host, ":") THEN <<"[">> \o v.host \o <<"]">> ELSE v.host)
         \o (IF v.port = << >> THEN << >> ELSE <<":">> \o v.port)
         \o generic_params_to_str(v.via_params)
         \o (IF v.comment = << >> THEN << >> ELSE <<" ", "(">> \o v.comment \o <<")">>)

\* 0 is TRUE.
osip_via_match(v, w) ==
    osip_via_to_str(v) # << >> /\ osip_via_to_str(v) = osip_via_to_str(w)

-----------------------------------------------------------------------------
(* The headers with two parts: Call-ID, CSeq and Content-Type. *)

\* host keeps its "@", which an empty host is written with as well.
osip_call_id_parse(s) ==
    LET at == strchr(s, 1, "@")
    IN  IF s = << >> \/ at = 1 THEN Bad
        ELSE Good(IF at = 0 THEN [number |-> osip_clrspace(s), host |-> << >>]
                  ELSE [number |-> osip_clrspace(SubSeq(s, 1, at - 1)),
                        host   |-> <<"@">> \o osip_clrspace(SubSeq(s, at + 1, Len(s)))])

osip_call_id_to_str(c) == c.number \o c.host

osip_cseq_parse(s) ==
    LET sp == strchr(s, 1, " ")
    IN  IF sp < 2 THEN Bad
        ELSE Good([number |-> osip_clrspace(SubSeq(s, 1, sp - 1)),
                   method |-> osip_clrspace(SubSeq(s, sp + 1, Len(s)))])

osip_cseq_to_str(c) == c.number \o <<" ">> \o c.method

osip_content_type_parse(s) ==
    LET sub    == strchr(s, 1, "/")
        semi   == strchr(s, 1, ";")
        params == IF semi = 0 THEN Len(s) + 1 ELSE semi
        read   == IF semi = 0 THEN Good(<< >>)
                  ELSE __osip_generic_param_parseall(SubSeq(s, semi, Len(s)))
    IN  IF sub = 0 \/ ~read.ok \/ sub = 1 \/ params - sub < 2 THEN Bad
        ELSE Good([type       |-> osip_clrspace(SubSeq(s, 1, sub - 1)),
                   subtype    |-> osip_clrspace(SubSeq(s, sub + 1, params - 1)),
                   gen_params |-> read.v])

\* A parameter without a value makes the header unwritable (-1).
osip_content_type_to_str(c) ==
    IF \E n \in 1 .. Len(c.gen_params) : c.gen_params[n][2] = << >> THEN << >>
    ELSE c.type \o <<"/">> \o c.subtype
         \o FlattenSeq([n \in 1 .. Len(c.gen_params) |->
                <<";", " ">> \o c.gen_params[n][1] \o <<"=">> \o c.gen_params[n][2]])

-----------------------------------------------------------------------------
(* osip_message_set_multiple_header: the elements it hands on, in order.   *)
(* ptr is where quotation marks are looked for, comma the candidate, beg   *)
(* the start of the element at hand.                                       *)

\* The loop that looks for the next comma when the quotes come after the one
\* at hand: c is the candidate, q1 and q2 a pair of quotes.
RECURSIVE CommaAfter(_, _, _, _)
CommaAfter(s, c, q1, q2) ==
    LET d  == IF c < q2 THEN strchr(s, q2 + 1, ",") ELSE c
        r1 == __osip_quote_find(s, q2 + 1)
        r2 == __osip_quote_find(s, r1 + 1)
    IN  IF c < q1 THEN c
        ELSE IF r1 = 0 \/ r2 = 0 THEN d ELSE CommaAfter(s, d, r1, r2)

\* The end of the header: an element of fewer than two characters is dropped.
LastElement(s, beg, got) ==
    IF Len(s) - beg + 1 < 2 THEN Good(got)
    ELSE Good(Append(got, osip_clrspace(SubSeq(s, beg, Len(s)))))

RECURSIVE Elements(_, _, _, _, _)
Elements(s, ptr, comma, beg, got) ==
    LET quote1 == __osip_quote_find(s, ptr)
        quote2 == IF quote1 = 0 THEN 0 ELSE __osip_quote_find(s, quote1 + 1)
        far    == strchr(s, quote2 + 1, ",")
        next   == IF quote1 # 0 THEN CommaAfter(s, strchr(s, comma + 1, ","), quote1, quote2)
                  ELSE strchr(s, comma + 1, ",")
        value  == osip_clrspace(SubSeq(s, beg, comma - 1))
    IN  IF quote1 # 0 /\ quote2 = 0 THEN Bad
        ELSE IF quote1 = 0 \/ quote1 > comma
        THEN IF comma = beg THEN Bad
             ELSE IF next = 0 THEN LastElement(s, comma + 1, Append(got, value))
             ELSE Elements(s, next + 1, next, comma + 1, Append(got, value))
        ELSE IF quote2 < comma THEN Elements(s, quote2 + 1, comma, beg, got)
        ELSE IF far = 0 THEN LastElement(s, beg, got)
        ELSE Elements(s, quote2 + 1, far, beg, got)

osip_message_set_multiple_header(s) ==
    LET comma == strchr(s, 1, ",")
    IN  IF comma = 0 THEN Good(<<s>>) ELSE Elements(s, 1, comma, 1, << >>)

-----------------------------------------------------------------------------
(* What the readers and writers should do. *)

\* A URI survives being written and read again, whatever separators its parts
\* hold, except that the escapes of its last parameter stay where they are.
UriSurvives(u) ==
    LET last == Len(u.url_params)
        Kept(s) == __osip_uri_escape_nonascii_and_nondef(s, uri_param_def)
        seen == IF last = 0 THEN u
                ELSE [u EXCEPT !.url_params[last] = <<Kept(@[1]), Kept(@[2])>>]
    IN  osip_uri_parse(osip_uri_to_str(u)) = Good(seen)

\* An address survives and keeps its tag; a tag without a value matches nothing,
\* not even itself.
AddressSurvives(f) ==
    LET again == osip_from_parse(osip_from_to_str(f))
        tag   == osip_uri_param_get_byname(f.gen_params, TagName)
    IN  /\ again = Good(f)
        /\ osip_from_tag_match(f, again.v) <=> (tag # << >> => tag[2] # << >>)

\* A Via survives, so that a copy of a request matches the request.
ViaSurvives(v) ==
    LET again == osip_via_parse(osip_via_to_str(v))
    IN  again = Good(v) /\ osip_via_match(v, again.v)

\* A Call-ID, a CSeq and a Content-Type that were read are the same after they
\* were written and read again: a dialog and a transaction are found by them.
\* A Content-Type with a blank subtype, or a parameter without a value, is not
\* written at all.
PartsSurvive(s) ==
    LET id == osip_call_id_parse(s)
        cs == osip_cseq_parse(s)
        ct == osip_content_type_parse(s)
        text == osip_content_type_to_str(ct.v)
    IN  /\ id.ok => osip_call_id_parse(osip_call_id_to_str(id.v)) = id
        /\ cs.ok => osip_cseq_parse(osip_cseq_to_str(cs.v)) = cs
        /\ ct.ok /\ ct.v.subtype # << >> /\ text # << >> => osip_content_type_parse(text) = ct

\* The elements of a value with paired quotes are the texts between the commas
\* outside quotes; an element of no character refuses the header, a last one of
\* fewer than two is dropped.
SplitsAtCommas(s) ==
    LET Escaped(n) == \E k \in 1 .. n - 1 : /\ k % 2 = 1
                                            /\ \A i \in n - k .. n - 1 : s[i] = "\\"
                                            /\ n - k > 1 => s[n - k - 1] # "\\"
        quotes == {n \in 1 .. Len(s) : s[n] = "q" /\ ~Escaped(n)}
        In(n)  == Cardinality({k \in quotes : k < n}) % 2 = 1
        parts  == CutAt(s, {n \in 1 .. Len(s) : s[n] = "," /\ ~In(n)})
        short  == Len(parts) > 1 /\ Len(Last(parts)) < 2
        wanted == IF short THEN Front(parts) ELSE parts
        got    == osip_message_set_multiple_header(s)
    IN  Cardinality(quotes) % 2 = 0 /\ Contains(s, ",")
          => IF << >> \in Range(Front(parts)) THEN ~got.ok
             ELSE got = Good([n \in 1 .. Len(wanted) |-> osip_clrspace(wanted[n])])
=============================================================================
