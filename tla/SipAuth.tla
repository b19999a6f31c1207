------------------------------- MODULE SipAuth -------------------------------
(***************************************************************************)
(* How oSIP reads and writes the headers of digest authentication: the     *)
(* challenge (osip_www_authenticate.c), the credentials                    *)
(* (osip_authorization.c) and osip_authentication_info.c.                  *)
(*                                                                         *)
(* What follows the scheme is a sequence of items [n, q, v]: a name, TRUE  *)
(* when the value is in quotation marks, and the value (without them).     *)
(* The parsers measure what is left of the text, so that names and values  *)
(* have their lengths.  Absent is the pointer NULL.                        *)
(***************************************************************************)
EXTENDS Naturals, Sequences, SequencesExt, FiniteSetsExt

Absent == "absent"

\* The characters of a name, and of a value ("" is the empty one).
NameLength(n) ==
    CASE n \in {"nc", "x1"} -> 2
      [] n \in {"qop", "uri"} -> 3
      [] n \in {"realm", "nonce", "stale"} -> 5
      [] n \in {"domain", "opaque", "digest", "cnonce"} -> 6
      [] n = "rspauth" -> 7
      [] n \in {"username", "response"} -> 8
      [] OTHER -> 9

ValueLength(v) == CASE v = "" -> 0 [] v = "1" -> 1 [] OTHER -> 8

ItemLength(i) == NameLength(i.n) + 1 + ValueLength(i.v) + (IF i.q THEN 2 ELSE 0)

\* Items are written with ", " between them.
TextLength(items) ==
    FoldLeft(LAMBDA s, i : s + ItemLength(i), 0, items)
    + (IF items = << >> THEN 0 ELSE 2 * (Len(items) - 1))

-----------------------------------------------------------------------------
(* The setters __osip_quoted_string_set and __osip_token_set.  r is the    *)
(* state of the parser: the items left, gap = 2 when the separator before  *)
(* them is not skipped yet, the fields, whether the pointer moved in this  *)
(* round, and end: "" while it goes on, "read" (0) or "refused" (-1).      *)

\* n items are used up; the separator stays when g = 2.
Past(r, n, g) ==
    [r EXCEPT !.rest = SubSeq(@, n + 1, Len(@)), !.gap = g, !.moved = TRUE,
              !.end = IF n = Len(r.rest) THEN "read" ELSE ""]

\* A value without quotation marks is overlooked: the quoted text that comes
\* next is taken, whosever it is.  An empty one is forgotten.
__osip_quoted_string_set(r, name) ==
    LET quoted == {k \in 1 .. Len(r.rest) : r.rest[k].q}
        taken  == r.rest[Min(quoted)].v
    IN  IF r.got[name] # Absent THEN r
        ELSE IF TextLength(r.rest) <= NameLength(name) THEN [r EXCEPT !.end = "refused"]
        ELSE IF r.rest[1].n # name THEN [r EXCEPT !.gap = 0, !.moved = @ \/ r.gap # 0]
        ELSE IF quoted = {} THEN [r EXCEPT !.end = "refused"]
        ELSE [Past(r, Min(quoted), 2) EXCEPT !.got[name] = IF taken = "" THEN Absent ELSE taken]

\* Fewer than six characters end the header.
__osip_token_set(r, name) ==
    IF r.got[name] # Absent THEN r
    ELSE IF r.gap + TextLength(r.rest) < 6 THEN [r EXCEPT !.end = "read"]
    ELSE IF r.rest[1].n # name THEN [r EXCEPT !.gap = 0, !.moved = @ \/ r.gap # 0]
    ELSE IF r.rest[1].v = "" THEN [r EXCEPT !.end = "refused"]
    ELSE [Past(r, 1, 0) EXCEPT !.got[name] = r.rest[1].v]

-----------------------------------------------------------------------------
(* The fields a parser asks for, in its order. *)

Quoted(n) == [n |-> n, q |-> TRUE]
Token(n)  == [n |-> n, q |-> FALSE]

www_authenticate ==
    <<Quoted("realm"), Quoted("domain"), Quoted("nonce"), Quoted("opaque"),
      Token("stale"), Token("algorithm"), Quoted("qop")>>

authorization ==
    <<Quoted("username"), Quoted("realm"), Quoted("nonce"), Quoted("uri"), Quoted("response"),
      Quoted("digest"), Token("algorithm"), Quoted("cnonce"), Quoted("opaque"),
      Token("qop"), Token("nc")>>

authentication_info ==
    <<Quoted("nextnonce"), Quoted("cnonce"), Quoted("rspauth"), Token("nc"), Token("qop")>>

Names(fields) == {fields[k].n : k \in 1 .. Len(fields)}

Ask(r, f) ==
    IF r.end # "" THEN r
    ELSE IF f.q THEN __osip_quoted_string_set(r, f.n) ELSE __osip_token_set(r, f.n)

\* An item that nobody asked for is passed over.
Bypass(r) ==
    IF r.end # "" \/ r.moved THEN r
    ELSE IF Len(r.rest) = 1 THEN [r EXCEPT !.end = "read"]
    ELSE [r EXCEPT !.rest = Tail(@), !.gap = 2]

RECURSIVE Rounds(_, _)
Rounds(r, fields) ==
    IF r.end # "" THEN r
    ELSE Rounds(Bypass(FoldLeft(Ask, [r EXCEPT !.moved = FALSE], fields)), fields)

\* gap is what separates the items from the scheme.
Parse(fields, items, gap) ==
    LET r == Rounds([rest |-> items, gap |-> gap, got |-> [n \in Names(fields) |-> Absent],
                     moved |-> FALSE, end |-> ""], fields)
    IN  [ok |-> r.end = "read", got |-> r.got]

osip_www_authenticate_parse(items)    == Parse(www_authenticate, items, 1)
osip_authorization_parse(items)       == Parse(authorization, items, 1)
osip_authentication_info_parse(items) == Parse(authentication_info, items, 0)

\* The fields that are there, in the order of the writer.
There(fields, got) ==
    LET there == SelectSeq(fields, LAMBDA f : got[f.n] # Absent)
    IN  [k \in 1 .. Len(there) |-> [n |-> there[k].n, q |-> there[k].q, v |-> got[there[k].n]]]

osip_www_authenticate_to_str(got) == There(www_authenticate, got)

\* Without realm or nonce there is nothing to write (-1).
osip_authorization_to_str(got) ==
    IF Absent \in {got["realm"], got["nonce"]} THEN << >> ELSE There(authorization, got)

\* An order of its own.
osip_authentication_info_to_str(got) ==
    There(<<Token("qop"), Quoted("nextnonce"), Quoted("rspauth"), Quoted("cnonce"), Token("nc")>>, got)

\* Each field that is there is duplicated.
Duplicate(fields, got) == [n \in Names(fields) |-> got[n]]

osip_www_authenticate_clone(got)    == Duplicate(www_authenticate, got)
osip_authorization_clone(got)       == Duplicate(authorization, got)
osip_authentication_info_clone(got) == Duplicate(authentication_info, got)

-----------------------------------------------------------------------------
(* What a challenge and credentials should come to. *)

\* Every field has its kind of value, none comes twice or is empty, and no item
\* is so short that the parser takes it for the end of the header.
WellFormed(fields, items) ==
    /\ \A j, k \in 1 .. Len(items) : items[j].n = items[k].n => j = k
    /\ \A k \in 1 .. Len(items) :
          /\ items[k].v # ""
          /\ ItemLength(items[k]) > 6
          /\ \A f \in Range(fields) : f.n = items[k].n => f.q = items[k].q

\* A well-formed challenge is read to the last field, in whatever order its
\* items come and whatever others are among them, and means the same when it is
\* copied, written and read once more.
ChallengeIsRead(items) ==
    LET r == osip_www_authenticate_parse(items)
        Said(n) == {k \in 1 .. Len(items) : items[k].n = n}
    IN  WellFormed(www_authenticate, items) /\ items # << >> =>
          /\ r.ok
          /\ \A n \in Names(www_authenticate) :
                r.got[n] = IF Said(n) = {} THEN Absent ELSE items[Min(Said(n))].v
          /\ osip_www_authenticate_clone(r.got) = r.got
          /\ LET text == osip_www_authenticate_to_str(r.got)
             IN  text # << >> => osip_www_authenticate_parse(text) = r

\* The credentials jauth.c makes are read by the other side as they were made.
CredentialsSurvive(got) ==
    osip_authorization_parse(osip_authorization_to_str(osip_authorization_clone(got))) = [ok |-> TRUE, got |-> got]

\* And what the server answers with.
InfoSurvives(got) ==
    osip_authentication_info_parse(osip_authentication_info_to_str(osip_authentication_info_clone(got)))
        = [ok |-> TRUE, got |-> got]
=============================================================================
