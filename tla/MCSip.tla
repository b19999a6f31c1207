-------------------------------- MODULE MCSip --------------------------------
(***************************************************************************)
(* What goes over the wire: either one text, sample or structure that is   *)
(* written and read again (Texts), or one call whose messages pass through *)
(* proxies (Dialogs), or one client that asks a STUN server about its NAT  *)
(* (Stun), or one STUN message, or a subscription (Subscriptions), or the  *)
(* threads that wait for all this (EventLoop).  They share nothing.        *)
(***************************************************************************)
EXTENDS Texts, Dialogs, Stun, Subscriptions, EventLoop

Way(path, callees, sentBy, asks, repeats) ==
    [path |-> path, callees |-> callees, sentBy |-> sentBy, asks |-> asks, repeats |-> repeats]

\* Directly, also behind a NAT; over a loose and over a strict router; over two
\* proxies of which both or only the last one stay on the way; and to two phones.
SomeWays ==
    {Way(<< >>, {"b"}, "a", 0, 1),
     Way(<< >>, {"b"}, "inside", 1, 0),
     Way(<<Proxy("p", TRUE, TRUE)>>, {"b"}, "inside", 0, 1),
     Way(<<Proxy("p", FALSE, TRUE)>>, {"b"}, "a", 0, 0),
     Way(<<Proxy("p", TRUE, FALSE), Proxy("q", TRUE, TRUE)>>, {"b"}, "a", 0, 0),
     Way(<<Proxy("p", TRUE, TRUE), Proxy("q", TRUE, TRUE)>>, {"b"}, "inside", 0, 0),
     Way(<<Proxy("p", TRUE, FALSE)>>, {"b", "c"}, "a", 0, 0)}

\* STUN messages of at most two attributes; a number is the length of a string.
SomeSizes == {0, 3, 4, 252, 256}

ValuesOf(t) ==
    CASE t \in Addresses -> {Server}
      [] t = "ChangeRequest" -> SUBSET {"ip", "port"}
      [] t \in Strings -> SomeSizes
      [] OTHER -> {0, 4}

StunMessages ==
    {[kind |-> "stun", message |-> [type |-> type, id |-> 1, atr |-> atr]] :
        type \in {"BindRequest", "BindResponse"},
        atr \in UNION {{[x \in {t, u} |-> IF x = t THEN v ELSE w] : v \in ValuesOf(t), w \in ValuesOf(u)} :
                          <<t, u>> \in Range(AtrOrder) \X Range(AtrOrder)}}

NoCall  == route = << >> /\ ua = << >> /\ net = {} /\ fork = << >>
NoProbe == probe = << >> /\ nat = << >> /\ air = {}
NoLoop  == timer = << >> /\ ff = {} /\ pipe = 0 /\ packet = FALSE /\ loop = << >> /\ events = 0 /\ bell = 0 /\ caller = "none"

Init ==
    \/ (TextsInit \/ work \in StunMessages) /\ NoCall /\ NoProbe /\ SubscriptionsInit /\ NoLoop
    \/ work = [kind |-> "call"] /\ DialogsInit /\ NoProbe /\ SubscriptionsInit /\ NoLoop
    \/ work = [kind |-> "nat"] /\ StunInit /\ NoCall /\ SubscriptionsInit /\ NoLoop
    \/ work = [kind |-> "watch"] /\ SubscriptionsInit /\ NoCall /\ NoProbe /\ NoLoop
    \/ work = [kind |-> "loop"] /\ EventLoopInit /\ NoCall /\ NoProbe /\ SubscriptionsInit

Next ==
    \/ TextsNext /\ UNCHANGED <<dialogVars, stunVars, subVars, loopVars>>
    \/ work.kind = "call" /\ DialogsNext /\ UNCHANGED <<work, stunVars, subVars, loopVars>>
    \/ work.kind = "nat" /\ StunNext /\ UNCHANGED <<work, dialogVars, subVars, loopVars>>
    \/ work.kind = "watch" /\ SubscriptionsNext /\ UNCHANGED <<work, dialogVars, stunVars, loopVars>>
    \/ work.kind = "loop" /\ EventLoopNext /\ UNCHANGED <<work, dialogVars, stunVars, subVars>>

Spec == Init /\ [][Next]_<<work, dialogVars, stunVars, subVars, loopVars>>

\* The two ends of a call have mirror images of one dialog (osip_dialog.c), so
\* what either says takes the recorded way to the other, through strict and
\* loose routers, forks and NATs, and every answer comes back to who asked.
OneDialog == work.kind = "call" => DialogsMirror /\ ArriveWhereMeant

\* When nothing is under way any more, no phone is in a call alone: an answer
\* that came too late, or from a second phone, was acknowledged and ended.
NobodyAlone == work.kind = "call" => NobodyLeft

\* stunNatType finds the kind of the NAT and stunOpenSocketPair the addresses its
\* ports have outside, though a packet is lost; a message reads as it was written,
\* or, with an attribute stun.c cannot write properly, is refused.
NatFound ==
    /\ work.kind = "nat" => NatIsFound
    /\ work.kind = "stun" => StunIsRead(work.message)
=============================================================================
